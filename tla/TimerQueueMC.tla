----------------------------- MODULE TimerQueueMC -----------------------------
(***************************************************************************)
(* TimerQueue with a few timers and short delays.                          *)
(***************************************************************************)
EXTENDS TimerQueue
==============================================================================
