----------------------------- MODULE ThreadPoolMC -----------------------------
(***************************************************************************)
(* Two workers, two callers and three tasks: a burst of Adds meets a sleeper *)
(* and a busy worker, and a task adds another one while the pool stops.      *)
(***************************************************************************)
EXTENDS ThreadPool
===============================================================================
