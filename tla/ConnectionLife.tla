--------------------------- MODULE ConnectionLife ---------------------------
(***************************************************************************)
(* The life of a connection as its owner sees it: served while the server  *)
(* holds it in connectionsMap_, then removed from the map, then detached   *)
(* from its poller, and only then destroyed, which closes its descriptor.  *)
(* No stage is skipped, repeated or undone.  TcpServer.tla implements it.  *)
(***************************************************************************)
CONSTANT Conns

VARIABLE stage

Following == [absent |-> "served", served |-> "removed",
              removed |-> "detached", detached |-> "destroyed"]

Init == stage = [c \in Conns |-> "absent"]

\* The connections in C move on; a batch of functors may release several at once.
Advance(C) ==
  /\ \A c \in C : stage[c] # "destroyed"
  /\ stage' = [c \in Conns |-> IF c \in C THEN Following[stage[c]] ELSE stage[c]]

Next == \E C \in SUBSET Conns : Advance(C)

Spec == Init /\ [][Next]_stage
=============================================================================
