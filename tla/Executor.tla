------------------------------ MODULE Executor ------------------------------
(***************************************************************************)
(* What an EventLoop promises to the code that hands it functors with      *)
(* QueueOneFunc: every functor is run once, in the order of the calls, and *)
(* no functor waits forever.  EventLoop.tla implements it; TcpServer.tla   *)
(* relies on it for the loops it is composed with.                         *)
(***************************************************************************)
EXTENDS Sequences

CONSTANT Tasks              \* the functors that may be handed over

VARIABLE queue              \* functors handed over and not yet started

Init == queue = << >>

\* A thread hands over a functor.
Submit(t) == queue' = Append(queue, t)

\* The loop thread starts the oldest functor.
Execute == /\ queue # << >>
           /\ queue' = Tail(queue)

Next == \/ \E t \in Tasks : Submit(t)
        \/ Execute

Spec == Init /\ [][Next]_queue /\ WF_queue(Execute)
=============================================================================
