------------------------------ MODULE LoopThreads ------------------------------
(***************************************************************************)
(* The sub loops of a server (src/Thread: EventLoopThreadPool,              *)
(* EventLoopThread).  The main thread starts thread_nums_ threads one after *)
(* the other; each constructs its EventLoop on its own stack and publishes  *)
(* its address, for which the main thread waits on a condition variable.    *)
(* Then the main thread hands the loops out to new connections.             *)
(***************************************************************************)
EXTENDS Integers, Sequences

CONSTANT thread_nums_

SubThreads == 1 .. thread_nums_

VARIABLES
  pc,         \* the main thread: "start", "lock", "wait" or "serve"
  loops_,     \* loops_: the threads whose loops have been returned
  loop_,      \* per thread: loop_ of its EventLoopThread is set
  tpc,        \* per thread: "none", "construct", "publish" or "loop"
  next_       \* next_

vars == <<pc, loops_, loop_, tpc, next_>>

Init ==
  /\ pc = "start"
  /\ loops_ = << >>
  /\ loop_ = [t \in SubThreads |-> FALSE]
  /\ tpc = [t \in SubThreads |-> "none"]
  /\ next_ = 0

\* The thread that the main thread is starting.
Current == Len(loops_) + 1

------------------------------------------------------------------------------
(* The main thread. *)

\* start() and StartLoop(): std::thread begins to run ThreadFunc; when all have
\* been started, the server goes on to its own loop.
StartThread ==
  /\ pc = "start"
  /\ IF Len(loops_) < thread_nums_
     THEN /\ tpc' = [tpc EXCEPT ![Current] = "construct"]
          /\ pc' = "lock"
     ELSE /\ pc' = "serve"
          /\ UNCHANGED tpc
  /\ UNCHANGED <<loops_, loop_, next_>>

\* StartLoop with the lock held: the loop is there and is returned ...
ReturnLoop ==
  /\ pc = "lock"
  /\ loop_[Current]
  /\ loops_' = Append(loops_, Current)
  /\ pc' = "start"
  /\ UNCHANGED <<loop_, tpc, next_>>

\* ... or cv_.wait releases the lock.
WaitForLoop ==
  /\ pc = "lock"
  /\ ~loop_[Current]
  /\ pc' = "wait"
  /\ UNCHANGED <<loops_, loop_, tpc, next_>>

\* cv_.wait may return for no reason.
Spurious ==
  /\ pc = "wait"
  /\ pc' = "lock"
  /\ UNCHANGED <<loops_, loop_, tpc, next_>>

Wraps(n) == IF n = Len(loops_) THEN 0 ELSE n

\* The loop that the next connection gets.
NextLoop == loops_[next_ + 1]

\* nextloop(), for a new connection.
nextloop ==
  /\ pc = "serve"
  /\ next_' = Wraps(next_ + 1)
  /\ UNCHANGED <<pc, loops_, loop_, tpc>>

------------------------------------------------------------------------------
(* The threads: ThreadFunc. *)

Construct(t) ==
  /\ tpc[t] = "construct"
  /\ tpc' = [tpc EXCEPT ![t] = "publish"]
  /\ UNCHANGED <<pc, loops_, loop_, next_>>

\* Mutated: loop_ is set and nobody is notified.
PublishSilently(t) ==
  /\ tpc[t] = "publish"
  /\ loop_' = [loop_ EXCEPT ![t] = TRUE]
  /\ tpc' = [tpc EXCEPT ![t] = "loop"]
  /\ UNCHANGED <<pc, loops_, next_>>

\* The critical section: loop_ = &loop, notify_one.  Only a waiting thread hears it.
Publish(t) ==
  /\ tpc[t] = "publish"
  /\ loop_' = [loop_ EXCEPT ![t] = TRUE]
  /\ pc' = IF pc = "wait" /\ t = Current THEN "lock" ELSE pc
  /\ tpc' = [tpc EXCEPT ![t] = "loop"]
  /\ UNCHANGED <<loops_, next_>>

------------------------------------------------------------------------------
Main == StartThread \/ ReturnLoop \/ WaitForLoop
Thread(t) == Construct(t) \/ Publish(t)

Next == Main \/ Spurious \/ nextloop \/ \E t \in SubThreads : Thread(t)

------------------------------------------------------------------------------
\* The main thread never misses the publication: the pool comes up.
PoolStarts == <>(pc = "serve")
==============================================================================
