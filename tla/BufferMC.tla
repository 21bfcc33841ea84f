------------------------------- MODULE BufferMC -------------------------------
(***************************************************************************)
(* A small Buffer with every message of up to three bytes.                 *)
(***************************************************************************)
EXTENDS Buffer, SequencesExt

MCMessages == BoundedSeq(Bytes \ {Zero}, 3)
==============================================================================
