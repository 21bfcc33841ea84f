------------------------------ MODULE ThreadPool ------------------------------
(***************************************************************************)
(* ThreadPool (src/Thread/ThreadPool.cpp, ThreadPool.h): workers that wait  *)
(* on a condition variable for tasks, callers of Add, and the destructor.   *)
(*                                                                         *)
(* A critical section of tasks_mtx is one step.  What happens outside it is *)
(* a step of its own: Add notifies after it has released the lock, and so   *)
(* does the destructor.  A notification reaches a worker that is waiting or *)
(* nobody; waits may also end for no reason.                                *)
(***************************************************************************)
EXTENDS Integers, Sequences, SequencesExt, FiniteSets

CONSTANTS
  Workers,    \* the threads of the pool
  Callers,    \* other threads that call Add
  Tasks,      \* the tasks; each call of Add makes a new one
  NoTask

ASSUME PoolAssumption ==
  /\ IsFiniteSet(Workers) /\ Workers # {}
  /\ IsFiniteSet(Callers) /\ Callers \cap Workers = {}
  /\ NoTask \notin Tasks

VARIABLES
  tasks,      \* the queue
  stop_,      \* stop_
  wpc,        \* where each worker is
  task,       \* the worker's local variable task
  cpc,        \* where each caller is in Add
  dtor,       \* where the destructor is
  offered     \* the tasks passed to Add

vars == <<tasks, stop_, wpc, task, cpc, dtor, offered>>

Init ==
  /\ tasks = << >>
  /\ stop_ = FALSE
  /\ wpc = [w \in Workers |-> "lock"]
  /\ task = [w \in Workers |-> NoTask]
  /\ cpc = [c \in Callers |-> "idle"]
  /\ dtor = "no"
  /\ offered = {}

Waiting == {w \in Workers : wpc[w] = "wait"}

------------------------------------------------------------------------------
(* A worker. *)

\* cv.wait finds its predicate false: the worker releases the lock and sleeps.
Wait(w) ==
  /\ wpc[w] = "lock"
  /\ ~stop_ /\ tasks = << >>
  /\ wpc' = [wpc EXCEPT ![w] = "wait"]
  /\ UNCHANGED <<tasks, stop_, task, cpc, dtor, offered>>

\* A wait ends without a notification.
Spurious(w) ==
  /\ wpc[w] = "wait"
  /\ wpc' = [wpc EXCEPT ![w] = "lock"]
  /\ UNCHANGED <<tasks, stop_, task, cpc, dtor, offered>>

\* Mutated: a stopped worker leaves at once.
ReturnAtOnce(w) ==
  /\ wpc[w] = "lock"
  /\ stop_
  /\ wpc' = [wpc EXCEPT ![w] = "exit"]
  /\ UNCHANGED <<tasks, stop_, task, cpc, dtor, offered>>

\* stop_ && tasks.empty(): the thread function returns.
Return(w) ==
  /\ wpc[w] = "lock"
  /\ stop_ /\ tasks = << >>
  /\ wpc' = [wpc EXCEPT ![w] = "exit"]
  /\ UNCHANGED <<tasks, stop_, task, cpc, dtor, offered>>

\* Mutated: the newest task is taken.
TakeNewest(w) ==
  /\ wpc[w] = "lock"
  /\ tasks # << >>
  /\ task' = [task EXCEPT ![w] = Last(tasks)]
  /\ tasks' = Front(tasks)
  /\ wpc' = [wpc EXCEPT ![w] = "run"]
  /\ UNCHANGED <<stop_, cpc, dtor, offered>>

\* task = tasks.front(); tasks.pop()
Take(w) ==
  /\ wpc[w] = "lock"
  /\ tasks # << >>
  /\ task' = [task EXCEPT ![w] = Head(tasks)]
  /\ tasks' = Tail(tasks)
  /\ wpc' = [wpc EXCEPT ![w] = "run"]
  /\ UNCHANGED <<stop_, cpc, dtor, offered>>

\* task() returns, and the local variable is destroyed.
Finish(w) ==
  /\ wpc[w] = "run"
  /\ task' = [task EXCEPT ![w] = NoTask]
  /\ wpc' = [wpc EXCEPT ![w] = "lock"]
  /\ UNCHANGED <<tasks, stop_, cpc, dtor, offered>>

------------------------------------------------------------------------------
(* Add. *)

\* The critical section: push, unless the pool has been stopped (Add throws).
Enqueue(t) ==
  /\ t \notin offered
  /\ offered' = offered \cup {t}
  /\ tasks' = IF stop_ THEN tasks ELSE Append(tasks, t)

\* Mutated: only the first task of a burst is announced.
NotifyOneFirst == IF Len(tasks) = 1 /\ Waiting # {}
                  THEN \E w \in Waiting : wpc' = [wpc EXCEPT ![w] = "lock"]
                  ELSE UNCHANGED wpc

\* cv.notify_one()
NotifyOne == IF Waiting # {}
             THEN \E w \in Waiting : wpc' = [wpc EXCEPT ![w] = "lock"]
             ELSE UNCHANGED wpc

\* Add by a thread that does not belong to the pool.
Add(c, t) ==
  /\ dtor = "no"
  /\ cpc[c] = "idle"
  /\ Enqueue(t)
  /\ cpc' = [cpc EXCEPT ![c] = "notify"]
  /\ UNCHANGED <<stop_, wpc, task, dtor>>

AddNotifies(c) ==
  /\ cpc[c] = "notify"
  /\ NotifyOne
  /\ cpc' = [cpc EXCEPT ![c] = "idle"]
  /\ UNCHANGED <<tasks, stop_, task, dtor, offered>>

\* Add by a running task, also while the destructor waits for it; the exception
\* of a stopped pool ends up in a future.
AddInTask(w, t) ==
  /\ wpc[w] = "run"
  /\ Enqueue(t)
  /\ wpc' = IF stop_ THEN wpc ELSE [wpc EXCEPT ![w] = "notify"]
  /\ UNCHANGED <<stop_, task, cpc, dtor>>

AddInTaskNotifies(w) ==
  /\ wpc[w] = "notify"
  /\ LET resumed == [wpc EXCEPT ![w] = "run"] IN
       IF Waiting # {}
       THEN \E v \in Waiting : wpc' = [resumed EXCEPT ![v] = "lock"]
       ELSE wpc' = resumed
  /\ UNCHANGED <<tasks, stop_, task, cpc, dtor, offered>>

------------------------------------------------------------------------------
(* The destructor, when every other caller has returned. *)

Stop ==
  /\ dtor = "no"
  /\ \A c \in Callers : cpc[c] = "idle"
  /\ stop_' = TRUE
  /\ dtor' = "notify"
  /\ UNCHANGED <<tasks, wpc, task, cpc, offered>>

\* Mutated: one worker is told, not all.
NotifyAllOne ==
  /\ dtor = "notify"
  /\ NotifyOne
  /\ dtor' = "join"
  /\ UNCHANGED <<tasks, stop_, task, cpc, offered>>

NotifyAll ==
  /\ dtor = "notify"
  /\ wpc' = [w \in Workers |-> IF wpc[w] = "wait" THEN "lock" ELSE wpc[w]]
  /\ dtor' = "join"
  /\ UNCHANGED <<tasks, stop_, task, cpc, offered>>

\* The last join returns.
Join ==
  /\ dtor = "join"
  /\ \A w \in Workers : wpc[w] = "exit"
  /\ dtor' = "done"
  /\ UNCHANGED <<tasks, stop_, wpc, task, cpc, offered>>

------------------------------------------------------------------------------
Worker(w) ==
  \/ Wait(w) \/ Return(w) \/ Take(w) \/ Finish(w) \/ AddInTaskNotifies(w)

Destructor == NotifyAll \/ Join

Next ==
  \/ \E w \in Workers : Worker(w) \/ Spurious(w) \/ \E t \in Tasks : AddInTask(w, t)
  \/ \E c \in Callers : AddNotifies(c) \/ \E t \in Tasks : Add(c, t)
  \/ Stop \/ Destructor

\* Threads that can run do run, and tasks return.  Nobody has to call Add or to
\* destroy the pool.
Spec ==
  /\ Init /\ [][Next]_vars
  /\ \A w \in Workers : WF_vars(Worker(w))
  /\ \A c \in Callers : WF_vars(AddNotifies(c))
  /\ WF_vars(Destructor)

------------------------------------------------------------------------------
TypeOK ==
  /\ tasks \in Seq(Tasks)
  /\ stop_ \in BOOLEAN
  /\ wpc \in [Workers -> {"lock", "wait", "run", "notify", "exit"}]
  /\ task \in [Workers -> Tasks \cup {NoTask}]
  /\ \A w \in Workers : task[w] = NoTask <=> wpc[w] \in {"lock", "wait", "exit"}
  /\ cpc \in [Callers -> {"idle", "notify"}]
  /\ dtor \in {"no", "notify", "join", "done"}
  /\ offered \subseteq Tasks

Notifiers == {c \in Callers : cpc[c] = "notify"} \cup {w \in Workers : wpc[w] = "notify"}
Awake == {w \in Workers : wpc[w] = "lock"}

\* While a worker sleeps, every task in the queue has a worker that is about to
\* look for one, or a notification on its way: notify_one after the unlock, and
\* only one per Add, suffices (ThreadPool.cpp:10-17, ThreadPool.h:47-56).
NoIdleWorker ==
  Waiting # {} => Len(tasks) <= Cardinality(Notifiers) + Cardinality(Awake)

\* When the destructor returns, the queue is empty, every thread has ended, and
\* no task runs on: tasks queued before the stop are not dropped
\* (ThreadPool.cpp:14, 24-34).
DestructorDrains ==
  dtor = "done" =>
    /\ tasks = << >>
    /\ \A w \in Workers : wpc[w] = "exit" /\ task[w] = NoTask

\* After notify_all nobody sleeps, so that the joins return (ThreadPool.cpp:24-34).
NobodySleepsOn == dtor \in {"join", "done"} => Waiting = {}

\* Why these hold: a worker leaves, or is allowed to sleep, only when it finds the
\* queue empty, and nothing is queued after the stop.
StopInv ==
  /\ stop_ <=> dtor # "no"
  /\ dtor # "no" => \A c \in Callers : cpc[c] = "idle"
  /\ (\E w \in Workers : wpc[w] = "exit") => stop_ /\ tasks = << >>
  /\ dtor = "done" => \A w \in Workers : wpc[w] = "exit"

IInv == TypeOK /\ StopInv /\ NobodySleepsOn /\ NoIdleWorker

\* The pool is an Executor: tasks start in the order of Add, each once, and none
\* waits forever (ThreadPool.cpp:7-20).
Pool == INSTANCE Executor WITH queue <- tasks
Executes == Pool!Spec

\* The destructor returns, although tasks add tasks while it waits.
DestructorReturns == stop_ ~> dtor = "done"
==============================================================================
