------------------------------ MODULE EventLoop ------------------------------
(***************************************************************************)
(* One EventLoop (src/Event/EventLoop.cpp): the loop thread, its eventfd,  *)
(* the channels of its Epoller, and the foreign threads that hand it       *)
(* functors.  A critical section of mutex_ is one step, because every      *)
(* access to to_do_list_ is inside one.  The step boundaries that matter   *)
(* are kept: a caller of QueueOneFunc has released the lock before it      *)
(* writes the eventfd, the loop thread reads the eventfd while it handles  *)
(* events and swaps the list only afterwards.                              *)
(*                                                                         *)
(* Tasks are functors; one that has been started may be handed over again, *)
(* by itself too.  Channels are the registered channels other than the     *)
(* wakeup channel (the acceptor, connections, the timerfd): their handlers *)
(* run user code on the loop thread.                                       *)
(***************************************************************************)
EXTENDS Integers, Sequences, SequencesExt

CONSTANTS Tasks, Threads, Channels, Wakeup

ASSUME WakeupAssumption == Wakeup \notin Channels

VARIABLES
  to_do_list_,        \* to_do_list_, guarded by mutex_
  calling_functors_,  \* calling_functors_, touched by the loop thread only
  eventfd,            \* the counter of wakeup_fd_: 0, or 1 for any other value
  readable,           \* the other channels whose descriptor is readable
  pc,                 \* where the loop thread is
  active,             \* what Poll returned and Loop has not handled yet
  functors,           \* the rest of DoToDoList's local vector
  tpc                 \* where each foreign thread is in QueueOneFunc

vars == <<to_do_list_, calling_functors_, eventfd, readable, pc, active,
          functors, tpc>>

loopVars == <<calling_functors_, pc, active, functors>>

\* The functors handed over and not yet started, oldest first.
Pending == functors \o to_do_list_

\* A functor object is in one place at a time.
Free(t) == t \notin ToSet(functors) \cup ToSet(to_do_list_)

------------------------------------------------------------------------------
Init ==
  /\ to_do_list_ = << >>
  /\ calling_functors_ = FALSE
  /\ eventfd = 0
  /\ readable = {}
  /\ pc = "poll"
  /\ active = {}
  /\ functors = << >>
  /\ tpc = [th \in Threads |-> "idle"]

\* Mutated: a return of epoll_wait is always taken for a wakeup.
ReadySpurious == readable \cup {Wakeup}

\* Mutated: epoll_wait has room for one event, and the wakeup comes first.
ReadyOne == IF eventfd > 0 THEN {Wakeup} ELSE readable

\* What epoll_wait would return now; every channel here is level-triggered.
Ready == readable \cup (IF eventfd > 0 THEN {Wakeup} ELSE {})

\* Poller: epoll_wait with timeout -1 blocks until something is ready.
Poll ==
  /\ pc = "poll"
  /\ Ready # {}
  /\ active' = Ready
  /\ pc' = "dispatch"
  /\ UNCHANGED <<to_do_list_, calling_functors_, eventfd, readable, functors, tpc>>

\* A signal interrupts epoll_wait: it returns -1, there are no active channels,
\* and the loop goes on to DoToDoList.
Interrupt ==
  /\ pc = "poll"
  /\ pc' = "dispatch"
  /\ UNCHANGED <<to_do_list_, calling_functors_, eventfd, readable, active, functors, tpc>>

\* HandleEvent of the wakeup channel: one read empties the eventfd.
HandleRead ==
  /\ pc = "dispatch"
  /\ Wakeup \in active
  /\ active' = active \ {Wakeup}
  /\ eventfd' = 0
  /\ UNCHANGED <<to_do_list_, calling_functors_, readable, pc, functors, tpc>>

\* HandleEvent of another channel: its callback consumes the input and then
\* runs user code (state "handler") until it returns.
BeginHandler ==
  /\ pc = "dispatch"
  /\ \E c \in active \ {Wakeup} :
        /\ active' = active \ {c}
        /\ readable' = readable \ {c}
  /\ pc' = "handler"
  /\ UNCHANGED <<to_do_list_, calling_functors_, eventfd, functors, tpc>>

EndHandler ==
  /\ pc = "handler"
  /\ pc' = "dispatch"
  /\ UNCHANGED <<to_do_list_, calling_functors_, eventfd, readable, active, functors, tpc>>

\* The for loop over the active channels ends and DoToDoList is entered.
EnterDoToDoList ==
  /\ pc = "dispatch"
  /\ active = {}
  /\ calling_functors_' = TRUE
  /\ pc' = "swap"
  /\ UNCHANGED <<to_do_list_, eventfd, readable, active, functors, tpc>>

Swap ==
  /\ pc = "swap"
  /\ functors' = to_do_list_
  /\ to_do_list_' = << >>
  /\ pc' = "run"
  /\ UNCHANGED <<calling_functors_, eventfd, readable, active, tpc>>

BeginFunctor ==
  /\ pc = "run"
  /\ functors # << >>
  /\ functors' = Tail(functors)
  /\ pc' = "functor"
  /\ UNCHANGED <<to_do_list_, calling_functors_, eventfd, readable, active, tpc>>

EndFunctor ==
  /\ pc = "functor"
  /\ pc' = "run"
  /\ UNCHANGED <<to_do_list_, calling_functors_, eventfd, readable, active, functors, tpc>>

\* Mutated: the list is cleared after the batch, not when it is swapped.
LeaveDoToDoListClearing ==
  /\ pc = "run"
  /\ functors = << >>
  /\ to_do_list_' = << >>
  /\ calling_functors_' = FALSE
  /\ pc' = "poll"
  /\ UNCHANGED <<eventfd, readable, active, functors, tpc>>

LeaveDoToDoList ==
  /\ pc = "run"
  /\ functors = << >>
  /\ calling_functors_' = FALSE
  /\ pc' = "poll"
  /\ UNCHANGED <<to_do_list_, eventfd, readable, active, functors, tpc>>

------------------------------------------------------------------------------
\* Mutated: only a foreign thread writes the eventfd.
QueueInLoopSilently(t) ==
  /\ pc \in {"handler", "functor"}
  /\ Free(t)
  /\ to_do_list_' = Append(to_do_list_, t)
  /\ UNCHANGED <<loopVars, eventfd, readable, tpc>>

\* QueueOneFunc called by user code on the loop thread: it writes the eventfd
\* only when it runs inside DoToDoList.
QueueInLoop(t) ==
  /\ pc \in {"handler", "functor"}
  /\ Free(t)
  /\ to_do_list_' = Append(to_do_list_, t)
  /\ pc' = IF calling_functors_ THEN "wake" ELSE pc
  /\ UNCHANGED <<calling_functors_, eventfd, readable, active, functors, tpc>>

WakeInLoop ==
  /\ pc = "wake"
  /\ eventfd' = 1
  /\ pc' = "functor"
  /\ UNCHANGED <<to_do_list_, calling_functors_, readable, active, functors, tpc>>

\* QueueOneFunc, or RunOneFunc, called by a foreign thread: the push under
\* mutex_, then the write.
QueueOneFunc(th, t) ==
  /\ tpc[th] = "idle"
  /\ Free(t)
  /\ to_do_list_' = Append(to_do_list_, t)
  /\ tpc' = [tpc EXCEPT ![th] = "wake"]
  /\ UNCHANGED <<loopVars, eventfd, readable>>

WakeLoop(th) ==
  /\ tpc[th] = "wake"
  /\ eventfd' = 1
  /\ tpc' = [tpc EXCEPT ![th] = "idle"]
  /\ UNCHANGED <<loopVars, to_do_list_, readable>>

\* Input arrives at a descriptor.
Input(c) ==
  /\ c \notin readable
  /\ readable' = readable \cup {c}
  /\ UNCHANGED <<loopVars, to_do_list_, eventfd, tpc>>

------------------------------------------------------------------------------
Loop ==
  \/ Poll \/ HandleRead \/ BeginHandler \/ EndHandler
  \/ EnterDoToDoList \/ Swap \/ BeginFunctor \/ EndFunctor \/ LeaveDoToDoList
  \/ \E t \in Tasks : QueueInLoop(t)
  \/ WakeInLoop

Next ==
  \/ Loop
  \/ Interrupt
  \/ \E th \in Threads : (\E t \in Tasks : QueueOneFunc(th, t)) \/ WakeLoop(th)
  \/ \E c \in Channels : Input(c)

\* The loop thread is scheduled, and a foreign thread that has pushed a functor
\* completes its call.  A signal does not hit every epoll_wait: one that has
\* something to report does so in the end.  Nobody is obliged to call
\* QueueOneFunc or to send input.
Fairness == WF_vars(Loop) /\ SF_vars(Poll) /\ \A th \in Threads : WF_vars(WakeLoop(th))

Spec == Init /\ [][Next]_vars /\ Fairness

------------------------------------------------------------------------------
TypeOK ==
  /\ to_do_list_ \in Seq(Tasks)
  /\ calling_functors_ \in BOOLEAN
  /\ eventfd \in 0 .. 1
  /\ readable \subseteq Channels
  /\ pc \in {"poll", "dispatch", "handler", "swap", "run", "functor", "wake"}
  /\ active \subseteq Channels \cup {Wakeup}
  /\ functors \in Seq(Tasks)
  /\ tpc \in [Threads -> {"idle", "wake"}]

\* QueueOneFunc writes the eventfd after it released mutex_, HandleRead empties
\* it before the list is swapped: whenever the loop is about to block in
\* epoll_wait with a functor in to_do_list_, the eventfd is readable or some
\* thread has yet to write it (EventLoop.cpp:60-92).
NoLostWakeup ==
  pc = "poll" /\ to_do_list_ # << >> =>
    eventfd > 0 \/ \E th \in Threads : tpc[th] = "wake"

\* assert(read_size == sizeof(read_one_byte)) in HandleRead, EventLoop.cpp:99:
\* the non-blocking read of the eventfd never finds it empty.
ReadFindsCounter == Wakeup \in active => eventfd > 0

\* The calling_functors_ flag that QueueOneFunc consults is set exactly in the
\* region of the loop where a pushed functor would miss the swap.
FlagInv == calling_functors_ <=> pc \in {"swap", "run", "functor", "wake"}

\* The inductive invariant behind NoLostWakeup: from the swap on, a functor in
\* the list is covered by the eventfd or by a thread about to write it.
WakeupInv ==
  pc \in {"run", "functor", "poll"} /\ to_do_list_ # << >> =>
    eventfd > 0 \/ \E th \in Threads : tpc[th] = "wake"

PhaseInv ==
  /\ pc \notin {"run", "functor", "wake"} => functors = << >>
  /\ pc \notin {"dispatch", "handler"} => active = {}

IInv == TypeOK /\ FlagInv /\ WakeupInv /\ ReadFindsCounter /\ PhaseInv

\* The loop is an Executor for the functors handed to it: FIFO, none lost, none
\* run twice, and none left waiting (EventLoop.cpp:60-92).
Exec == INSTANCE Executor WITH queue <- Pending
Executes == Exec!Spec

\* A functor that hands itself over again is run in a later iteration, after a
\* Poll: input on a channel is handled although functors keep coming
\* (DoToDoList runs a swapped copy of the list, EventLoop.cpp:81-89).
InputIsHandled == \A c \in Channels : c \in readable ~> c \notin readable
==============================================================================
