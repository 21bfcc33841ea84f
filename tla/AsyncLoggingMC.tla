---------------------------- MODULE AsyncLoggingMC ----------------------------
(***************************************************************************)
(* Buffers of three bytes and messages of one or two: a message can fit, be  *)
(* as long as the room left, or be longer, and four messages fill two        *)
(* buffers between two swaps, or a file.                                     *)
(***************************************************************************)
EXTENDS AsyncLogging
===============================================================================
