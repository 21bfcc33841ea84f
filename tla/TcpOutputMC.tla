----------------------------- MODULE TcpOutputMC -----------------------------
(***************************************************************************)
(* A send queue of three bytes with EPOLLOUT at two free ones, and messages *)
(* of up to four: a message can fit, fill the queue, or leave a rest behind, *)
(* and there are states with room for a write but not for an event.          *)
(***************************************************************************)
EXTENDS TcpOutput
==============================================================================
