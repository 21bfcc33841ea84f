----------------------------- MODULE EventLoopMC -----------------------------
(***************************************************************************)
(* Two sub loops; the first has three functors, a main thread and another  *)
(* one that call it, and a channel besides its wakeup channel.             *)
(***************************************************************************)
EXTENDS EventLoopThreads
==============================================================================
