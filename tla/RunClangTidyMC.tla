---------------------------- MODULE RunClangTidyMC ----------------------------
(***************************************************************************)
(* Two threads and a database of four entries, one file in it twice and    *)
(* one under third_party: the queue of two is full when the threads are    *)
(* slow.  At most one file ends a thread; at most one is not selected, or  *)
(* none is.                                                                *)
(***************************************************************************)
EXTENDS RunClangTidy

CONSTANTS a, b, c, w1, w2

Entries == <<a, c, b, a>>

AtMostOneRaises ==
  {r \in [Files -> {"clean", "failing", "garbled", "unstarted"}] :
     /\ Cardinality({f \in Files : r[f] \in {"garbled", "unstarted"}}) <= 1
     /\ r[c] = "failing"}

AllButOneOrNone == {s \in SUBSET Files : s = {} \/ Cardinality(Files \ s) <= 1}
===============================================================================
