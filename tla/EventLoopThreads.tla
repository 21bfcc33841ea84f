--------------------------- MODULE EventLoopThreads ---------------------------
(***************************************************************************)
(* One of the sub loops of a server with the thread that constructs and    *)
(* runs it: the loop of EventLoop is the loop of thread Sub of LoopThreads.*)
(* Functors can reach the loop as soon as StartLoop has returned it, before*)
(* its thread has got from the publication to Loop(), and after that from  *)
(* the main thread, which gives it new connections and queues what is to be*)
(* done for those that close, and from whoever holds one of them.  Channels*)
(* are the connections that the loop can get.                              *)
(***************************************************************************)
EXTENDS EventLoop

CONSTANTS thread_nums_, Sub, MainThread

ASSUME ThreadsAssumption ==
  thread_nums_ \in Nat \ {0} /\ Sub \in 1 .. thread_nums_ /\ MainThread \in Threads

VARIABLES
  mpc, loops_, loop_, stpc, next_,  \* the variables of LoopThreads
  registered                        \* the channels that its Epoller knows

LT == INSTANCE LoopThreads WITH pc <- mpc, tpc <- stpc

poolVars == <<mpc, loops_, loop_, stpc, next_>>
threadVars == <<poolVars, registered>>
allVars == <<vars, threadVars>>

ThreadedInit == Init /\ LT!Init /\ registered = {}

\* StartLoop has returned the loop, so that somebody can hold a pointer to it.
HandedOut == Sub \in ToSet(loops_)

\* A thread that runs its loop: ThreadFunc is past the publication.
SubLoop == stpc[Sub] = "loop" /\ Loop /\ UNCHANGED threadVars
SubPoll == stpc[Sub] = "loop" /\ Poll /\ UNCHANGED threadVars
SubInterrupt == stpc[Sub] = "loop" /\ Interrupt /\ UNCHANGED threadVars

StartUp ==
  /\ LT!Main \/ LT!Spurious \/ \E t \in LT!SubThreads : LT!Thread(t)
  /\ UNCHANGED <<vars, registered>>

\* HandleNewConnection: the connection goes to the next loop, and the main
\* thread itself registers its channel there, while the loop runs
\* (ConnectionEstablished and EnableRead are called, not queued).
HandleNewConnection ==
  /\ tpc[MainThread] = "idle"
  /\ LT!nextloop
  /\ IF LT!NextLoop = Sub
     THEN \E c \in Channels \ registered : registered' = registered \cup {c}
     ELSE UNCHANGED registered
  /\ UNCHANGED vars

\* The main thread has a connection of the loop: HandleCloseInLoop queues its
\* ConnectionDestructor, and on_connect_ runs on the main thread too.
CallFromMain ==
  /\ mpc = "serve"
  /\ registered # {}
  /\ \E t \in Tasks : QueueOneFunc(MainThread, t)
  /\ UNCHANGED threadVars

CallFromOutside(th) ==
  /\ HandedOut
  /\ th # MainThread
  /\ \E t \in Tasks : QueueOneFunc(th, t)
  /\ UNCHANGED threadVars

FinishCall(th) == WakeLoop(th) /\ UNCHANGED threadVars

InputToLoop(c) == c \in registered /\ Input(c) /\ UNCHANGED threadVars

ThreadedNext ==
  \/ SubLoop \/ SubInterrupt \/ StartUp \/ HandleNewConnection \/ CallFromMain
  \/ \E th \in Threads : CallFromOutside(th) \/ FinishCall(th)
  \/ \E c \in Channels : InputToLoop(c)

\* Threads that can run do run, and the fairness of the loop is EventLoop's.
\* Nobody has to connect or to send anything.
ThreadedSpec ==
  /\ ThreadedInit
  /\ [][ThreadedNext]_allVars
  /\ WF_allVars(SubLoop) /\ SF_allVars(SubPoll)
  /\ WF_allVars(LT!Main /\ UNCHANGED <<vars, registered>>)
  /\ \A t \in LT!SubThreads : WF_allVars(LT!Thread(t) /\ UNCHANGED <<vars, registered>>)
  /\ \A th \in Threads : WF_allVars(FinishCall(th))

------------------------------------------------------------------------------
\* The main thread never misses the publication of a loop, early or late, and
\* the server gets to its own loop (EventLoopThread.cpp:18-22).
PoolStarts == LT!PoolStarts
==============================================================================
