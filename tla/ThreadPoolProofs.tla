--------------------------- MODULE ThreadPoolProofs ---------------------------
(***************************************************************************)
(* Proofs about ThreadPool for any number of workers, callers and tasks.    *)
(***************************************************************************)
EXTENDS ThreadPool, FiniteSetTheorems, TLAPS

\* The sets that NoIdleWorker counts are finite.
LEMMA CountsAreFinite ==
  ASSUME TypeOK
  PROVE  /\ IsFiniteSet(Notifiers) /\ Cardinality(Notifiers) \in Nat
         /\ IsFiniteSet(Awake) /\ Cardinality(Awake) \in Nat
<1>1. IsFiniteSet(Callers \cup Workers)
  BY PoolAssumption, FS_Union
<1>2. Notifiers \subseteq Callers \cup Workers /\ Awake \subseteq Callers \cup Workers
  BY DEF Notifiers, Awake
<1>3. IsFiniteSet(Notifiers) /\ IsFiniteSet(Awake)
  BY <1>1, <1>2, FS_Subset
<1>4. QED
  BY <1>3, FS_CardinalityType

\* A new pool: nothing is queued.
LEMMA InitInv == Init => IInv
<1> SUFFICES ASSUME Init PROVE IInv
  OBVIOUS
<1>1. TypeOK
  <2>1. tasks \in Seq(Tasks) /\ offered \subseteq Tasks
    BY DEF Init
  <2>2. wpc \in [Workers -> {"lock", "wait", "run", "notify", "exit"}]
        /\ task \in [Workers -> Tasks \cup {NoTask}]
        /\ cpc \in [Callers -> {"idle", "notify"}]
    BY DEF Init
  <2>3. \A w \in Workers : task[w] = NoTask /\ wpc[w] = "lock"
    BY DEF Init
  <2>4. stop_ \in BOOLEAN /\ dtor \in {"no", "notify", "join", "done"}
    BY DEF Init
  <2>5. QED
    BY <2>1, <2>2, <2>3, <2>4 DEF TypeOK
<1>2. StopInv /\ NobodySleepsOn
  BY DEF Init, StopInv, NobodySleepsOn, Waiting
<1>3. Waiting = {}
  BY DEF Init, Waiting
<1>4. QED
  BY <1>1, <1>2, <1>3 DEF IInv, NoIdleWorker

------------------------------------------------------------------------------
\* Every step keeps the types, and a worker's local task goes with its place.
LEMMA StepTypeOK ==
  ASSUME TypeOK, [Next]_vars
  PROVE  TypeOK'
<1> USE PoolAssumption DEF TypeOK
<1>1. ASSUME NEW w \in Workers, Wait(w) \/ Spurious(w) \/ Return(w)
      PROVE  TypeOK'
  BY <1>1 DEF Wait, Spurious, Return
<1>2. ASSUME NEW w \in Workers, Take(w)
      PROVE  TypeOK'
  <2>1. Head(tasks) \in Tasks /\ Tail(tasks) \in Seq(Tasks)
    BY <1>2 DEF Take
  <2>2. QED
    BY <1>2, <2>1 DEF Take
<1>3. ASSUME NEW w \in Workers, Finish(w)
      PROVE  TypeOK'
  BY <1>3 DEF Finish
<1>4. ASSUME NEW t \in Tasks, Enqueue(t)
      PROVE  tasks' \in Seq(Tasks) /\ offered' \subseteq Tasks
  BY <1>4 DEF Enqueue
<1>5. ASSUME NEW w \in Workers, NEW t \in Tasks, AddInTask(w, t)
      PROVE  TypeOK'
  BY <1>4, <1>5 DEF AddInTask
<1>6. ASSUME NEW w \in Workers, AddInTaskNotifies(w)
      PROVE  TypeOK'
  BY <1>6 DEF AddInTaskNotifies, Waiting
<1>7. ASSUME NEW c \in Callers, NEW t \in Tasks, Add(c, t)
      PROVE  TypeOK'
  BY <1>4, <1>7 DEF Add
<1>8. ASSUME NEW c \in Callers, AddNotifies(c)
      PROVE  TypeOK'
  BY <1>8 DEF AddNotifies, NotifyOne, Waiting
<1>9. CASE Stop \/ NotifyAll \/ Join
  BY <1>9 DEF Stop, NotifyAll, Join
<1>10. CASE UNCHANGED vars
  BY <1>10 DEF vars
<1>11. QED
  BY <1>1, <1>2, <1>3, <1>5, <1>6, <1>7, <1>8, <1>9, <1>10 DEF Next, Worker, Destructor

\* The stop protocol: who may still run, sleep or queue tasks.
LEMMA StepStop ==
  ASSUME TypeOK, StopInv, NobodySleepsOn, [Next]_vars
  PROVE  StopInv' /\ NobodySleepsOn'
<1> USE DEF TypeOK, StopInv, NobodySleepsOn, Waiting
<1>1. ASSUME NEW w \in Workers, Wait(w)
      PROVE  StopInv' /\ NobodySleepsOn'
  BY <1>1 DEF Wait
<1>2. ASSUME NEW w \in Workers, Spurious(w)
      PROVE  StopInv' /\ NobodySleepsOn'
  BY <1>2 DEF Spurious
<1>3. ASSUME NEW w \in Workers, Return(w)
      PROVE  StopInv' /\ NobodySleepsOn'
  BY <1>3 DEF Return
<1>4. ASSUME NEW w \in Workers, Take(w)
      PROVE  StopInv' /\ NobodySleepsOn'
  BY <1>4 DEF Take
<1>5. ASSUME NEW w \in Workers, Finish(w)
      PROVE  StopInv' /\ NobodySleepsOn'
  BY <1>5 DEF Finish
<1>6. ASSUME NEW w \in Workers, NEW t \in Tasks, AddInTask(w, t)
      PROVE  StopInv' /\ NobodySleepsOn'
  BY <1>6 DEF AddInTask, Enqueue
<1>7. ASSUME NEW w \in Workers, AddInTaskNotifies(w)
      PROVE  StopInv' /\ NobodySleepsOn'
  BY <1>7 DEF AddInTaskNotifies
<1>8. ASSUME NEW c \in Callers, NEW t \in Tasks, Add(c, t)
      PROVE  StopInv' /\ NobodySleepsOn'
  BY <1>8 DEF Add, Enqueue
<1>9. ASSUME NEW c \in Callers, AddNotifies(c)
      PROVE  StopInv' /\ NobodySleepsOn'
  BY <1>9 DEF AddNotifies, NotifyOne
<1>10. CASE Stop
  BY <1>10 DEF Stop
<1>11. CASE NotifyAll
  BY <1>11 DEF NotifyAll
<1>12. CASE Join
  BY <1>12 DEF Join
<1>13. CASE UNCHANGED vars
  BY <1>13 DEF vars
<1>14. QED
  BY <1>1, <1>2, <1>3, <1>4, <1>5, <1>6, <1>7, <1>8, <1>9, <1>10, <1>11, <1>12, <1>13
     DEF Next, Worker, Destructor

------------------------------------------------------------------------------
\* How the two counts change with one element.
LEMMA CountAdded ==
  ASSUME NEW S, NEW x, IsFiniteSet(S), x \notin S
  PROVE  Cardinality(S \cup {x}) = Cardinality(S) + 1
  BY FS_AddElement

LEMMA CountRemoved ==
  ASSUME NEW S, NEW x, IsFiniteSet(S), x \in S
  PROVE  Cardinality(S \ {x}) = Cardinality(S) - 1
  BY FS_RemoveElement

\* A notification passes its count from the notifier to the worker it wakes.
LEMMA NotificationPassesOn ==
  ASSUME TypeOK, NoIdleWorker, NEW n \in Notifiers, NEW w \in Waiting,
         Notifiers' = Notifiers \ {n}, Awake' = Awake \cup {w}, tasks' = tasks
  PROVE  NoIdleWorker'
<1>1. w \notin Awake
  BY DEF Waiting, Awake
<1>2. Cardinality(Notifiers') = Cardinality(Notifiers) - 1
  BY CountsAreFinite, CountRemoved
<1>3. Cardinality(Awake') = Cardinality(Awake) + 1
  BY <1>1, CountsAreFinite, CountAdded
<1>4. Len(tasks) <= Cardinality(Notifiers) + Cardinality(Awake)
  BY DEF NoIdleWorker
<1>5. Len(tasks) \in Nat
  BY DEF TypeOK
<1>6. Len(tasks') <= Cardinality(Notifiers') + Cardinality(Awake')
  BY <1>2, <1>3, <1>4, <1>5, CountsAreFinite
<1>7. QED
  BY <1>6 DEF NoIdleWorker

\* A task that is queued comes with a notifier.
LEMMA AddIsAnnounced ==
  ASSUME TypeOK, NoIdleWorker, NEW t \in Tasks, NEW n, n \notin Notifiers,
         Notifiers' = Notifiers \cup {n}, Awake' = Awake, Waiting' = Waiting,
         tasks' = Append(tasks, t)
  PROVE  NoIdleWorker'
<1>1. Cardinality(Notifiers') = Cardinality(Notifiers) + 1
  BY CountsAreFinite, CountAdded
<1>2. Len(tasks') = Len(tasks) + 1 /\ Len(tasks) \in Nat
  BY DEF TypeOK
<1>3. CASE Waiting # {}
  <2>1. Len(tasks) <= Cardinality(Notifiers) + Cardinality(Awake)
    BY <1>3 DEF NoIdleWorker
  <2>2. Cardinality(Awake') = Cardinality(Awake)
    OBVIOUS
  <2>3. Len(tasks') <= Cardinality(Notifiers') + Cardinality(Awake')
    BY <1>1, <1>2, <2>1, <2>2, CountsAreFinite
  <2>4. QED
    BY <2>3 DEF NoIdleWorker
<1>4. CASE Waiting = {}
  BY <1>4 DEF NoIdleWorker
<1>5. QED
  BY <1>3, <1>4

\* A worker that comes back to the lock only adds to the count.
LEMMA WorkerComesBack ==
  ASSUME TypeOK, NoIdleWorker, NEW w \in Workers, w \notin Awake, Waiting # {} \/ Waiting' = {},
         Notifiers' = Notifiers, Awake' = Awake \cup {w}, tasks' = tasks
  PROVE  NoIdleWorker'
<1>1. Cardinality(Awake') = Cardinality(Awake) + 1
  BY CountsAreFinite, CountAdded
<1>2. Len(tasks) \in Nat /\ Cardinality(Notifiers') = Cardinality(Notifiers)
  BY DEF TypeOK
<1>3. CASE Waiting # {}
  <2>1. Len(tasks) <= Cardinality(Notifiers) + Cardinality(Awake)
    BY <1>3 DEF NoIdleWorker
  <2>2. Len(tasks') <= Cardinality(Notifiers') + Cardinality(Awake')
    BY <1>1, <1>2, <2>1, CountsAreFinite
  <2>3. QED
    BY <2>2 DEF NoIdleWorker
<1>4. CASE Waiting' = {}
  BY <1>4 DEF NoIdleWorker
<1>5. QED
  BY <1>3, <1>4

\* No step leaves a queued task to sleepers.
LEMMA StepNoIdleWorker ==
  ASSUME IInv, [Next]_vars
  PROVE  NoIdleWorker'
<1> USE DEF IInv, TypeOK
<1>1. ASSUME NEW w \in Workers, Wait(w) \/ Return(w)
      PROVE  NoIdleWorker'
  <2>1. Len(tasks') = 0
    BY <1>1 DEF Wait, Return
  <2>2. Notifiers' = Notifiers /\ Awake' \subseteq Awake
    BY <1>1 DEF Wait, Return, Notifiers, Awake
  <2>3. Cardinality(Notifiers') \in Nat /\ Cardinality(Awake') \in Nat
    BY <2>2, CountsAreFinite, FS_Subset, FS_CardinalityType
  <2>4. QED
    BY <2>1, <2>3 DEF NoIdleWorker
<1>2. ASSUME NEW w \in Workers, Spurious(w)
      PROVE  NoIdleWorker'
  <2>1. w \notin Awake /\ Waiting # {} /\ Notifiers' = Notifiers
        /\ Awake' = Awake \cup {w} /\ tasks' = tasks
    BY <1>2 DEF Spurious, Awake, Waiting, Notifiers
  <2>2. QED
    BY <2>1, WorkerComesBack
<1>3. ASSUME NEW w \in Workers, Take(w)
      PROVE  NoIdleWorker'
  <2>1. w \in Awake /\ Awake' = Awake \ {w} /\ Notifiers' = Notifiers /\ Waiting' = Waiting
    BY <1>3 DEF Take, Awake, Waiting, Notifiers
  <2>2. Cardinality(Awake') = Cardinality(Awake) - 1
    BY <2>1, CountsAreFinite, CountRemoved
  <2>3. Len(tasks') = Len(tasks) - 1 /\ Len(tasks) \in Nat
    BY <1>3 DEF Take
  <2>4. CASE Waiting # {}
    <3>1. Len(tasks) <= Cardinality(Notifiers) + Cardinality(Awake)
      BY <2>4 DEF NoIdleWorker
    <3>2. Len(tasks') <= Cardinality(Notifiers') + Cardinality(Awake')
      BY <2>1, <2>2, <2>3, <3>1, CountsAreFinite
    <3>3. QED
      BY <3>2 DEF NoIdleWorker
  <2>5. CASE Waiting = {}
    BY <2>1, <2>5 DEF NoIdleWorker
  <2>6. QED
    BY <2>4, <2>5
<1>4. ASSUME NEW w \in Workers, Finish(w)
      PROVE  NoIdleWorker'
  <2>1. w \notin Awake /\ Waiting' = Waiting /\ Notifiers' = Notifiers
        /\ Awake' = Awake \cup {w} /\ tasks' = tasks
    BY <1>4 DEF Finish, Awake, Waiting, Notifiers
  <2>2. QED
    BY <2>1, WorkerComesBack
<1>5. ASSUME NEW w \in Workers, NEW t \in Tasks, AddInTask(w, t)
      PROVE  NoIdleWorker'
  <2>1. CASE stop_
    <3>1. tasks' = tasks /\ Waiting' = Waiting /\ Notifiers' = Notifiers /\ Awake' = Awake
      BY <1>5, <2>1 DEF AddInTask, Enqueue, Awake, Waiting, Notifiers
    <3>2. QED
      BY <3>1 DEF NoIdleWorker
  <2>2. CASE ~stop_
    <3>1. w \notin Notifiers /\ Notifiers' = Notifiers \cup {w} /\ Awake' = Awake
          /\ Waiting' = Waiting /\ tasks' = Append(tasks, t)
      BY <1>5, <2>2, PoolAssumption DEF AddInTask, Enqueue, Awake, Waiting, Notifiers
    <3>2. QED
      BY <3>1, AddIsAnnounced
  <2>3. QED
    BY <2>1, <2>2
<1>6. ASSUME NEW w \in Workers, AddInTaskNotifies(w)
      PROVE  NoIdleWorker'
  <2>1. CASE Waiting # {}
    <3>1. PICK v \in Waiting : wpc' = [[wpc EXCEPT ![w] = "run"] EXCEPT ![v] = "lock"]
      BY <1>6, <2>1 DEF AddInTaskNotifies
    <3>2. w \in Notifiers /\ Notifiers' = Notifiers \ {w} /\ Awake' = Awake \cup {v} /\ tasks' = tasks
      BY <1>6, <3>1, PoolAssumption DEF AddInTaskNotifies, Awake, Waiting, Notifiers
    <3>3. QED
      BY <3>2, NotificationPassesOn
  <2>2. CASE Waiting = {}
    <3>1. Waiting' = {}
      BY <1>6, <2>2 DEF AddInTaskNotifies, Waiting
    <3>2. QED
      BY <3>1 DEF NoIdleWorker
  <2>3. QED
    BY <2>1, <2>2
<1>7. ASSUME NEW c \in Callers, NEW t \in Tasks, Add(c, t)
      PROVE  NoIdleWorker'
  <2>1. c \notin Notifiers /\ Notifiers' = Notifiers \cup {c} /\ Awake' = Awake
        /\ Waiting' = Waiting /\ tasks' = Append(tasks, t)
    BY <1>7, PoolAssumption DEF Add, Enqueue, StopInv, Awake, Waiting, Notifiers
  <2>2. QED
    BY <2>1, AddIsAnnounced
<1>8. ASSUME NEW c \in Callers, AddNotifies(c)
      PROVE  NoIdleWorker'
  <2>1. CASE Waiting # {}
    <3>1. PICK v \in Waiting : wpc' = [wpc EXCEPT ![v] = "lock"]
      BY <1>8, <2>1 DEF AddNotifies, NotifyOne
    <3>2. c \in Notifiers /\ Notifiers' = Notifiers \ {c} /\ Awake' = Awake \cup {v} /\ tasks' = tasks
      BY <1>8, <3>1, PoolAssumption DEF AddNotifies, Awake, Waiting, Notifiers
    <3>3. QED
      BY <3>2, NotificationPassesOn
  <2>2. CASE Waiting = {}
    <3>1. Waiting' = {}
      BY <1>8, <2>2 DEF AddNotifies, NotifyOne, Waiting
    <3>2. QED
      BY <3>1 DEF NoIdleWorker
  <2>3. QED
    BY <2>1, <2>2
<1>9. CASE NotifyAll
  <2>1. Waiting' = {}
    BY <1>9 DEF NotifyAll, Waiting
  <2>2. QED
    BY <2>1 DEF NoIdleWorker
<1>10. CASE Stop \/ Join \/ UNCHANGED vars
  <2>1. wpc' = wpc /\ cpc' = cpc /\ tasks' = tasks
    BY <1>10 DEF Stop, Join, vars
  <2>2. QED
    BY <2>1 DEF NoIdleWorker, Waiting, Notifiers, Awake
<1>11. QED
  BY <1>1, <1>2, <1>3, <1>4, <1>5, <1>6, <1>7, <1>8, <1>9, <1>10 DEF Next, Worker, Destructor

------------------------------------------------------------------------------
\* The inductive invariant.
THEOREM Invariance == Spec => []IInv
<1>1. IInv /\ [Next]_vars => IInv'
  BY StepTypeOK, StepStop, StepNoIdleWorker DEF IInv
<1>2. QED
  BY InitInv, <1>1, PTL DEF Spec

\* While a worker sleeps no queued task is forgotten: one notify_one per Add,
\* after the unlock, is enough for any number of workers and callers.
THEOREM NoTaskIsForgotten == Spec => []NoIdleWorker
<1>1. IInv => NoIdleWorker
  BY DEF IInv
<1>2. QED
  BY <1>1, Invariance, PTL

\* ~ThreadPool returns only when the queue is empty and every thread has ended.
THEOREM NothingIsDropped == Spec => [](DestructorDrains /\ NobodySleepsOn)
<1>1. IInv => DestructorDrains
  <2>1. ASSUME IInv, dtor = "done"
        PROVE  tasks = << >>
    <3>1. PICK w \in Workers : TRUE
      BY PoolAssumption
    <3>2. wpc[w] = "exit"
      BY <2>1, <3>1 DEF IInv, StopInv
    <3>3. QED
      BY <2>1, <3>2 DEF IInv, StopInv
  <2>2. ASSUME IInv, dtor = "done", NEW w \in Workers
        PROVE  wpc[w] = "exit" /\ task[w] = NoTask
    <3>1. wpc[w] = "exit"
      BY <2>2 DEF IInv, StopInv
    <3>2. task[w] = NoTask <=> wpc[w] \in {"lock", "wait", "exit"}
      BY <2>2 DEF IInv, TypeOK
    <3>3. QED
      BY <3>1, <3>2
  <2>3. QED
    BY <2>1, <2>2 DEF DestructorDrains
<1>2. IInv => NobodySleepsOn
  BY DEF IInv
<1>3. QED
  BY <1>1, <1>2, Invariance, PTL

\* The pool starts tasks like an Executor: in the order of Add, each once (the
\* safety part of Executes; Executor's fairness is left to model checking).
THEOREM PoolIsExecutor == Spec => Pool!Init /\ [][Pool!Next]_tasks
<1>1. Init => Pool!Init
  BY DEF Init, Pool!Init
<1>2. ASSUME [Next]_vars
      PROVE  [Pool!Next]_tasks
  <2>1. ASSUME NEW w \in Workers, Take(w)
        PROVE  Pool!Next
    BY <2>1 DEF Take, Pool!Next, Pool!Execute
  <2>2. ASSUME NEW t \in Tasks, Enqueue(t)
        PROVE  Pool!Next \/ tasks' = tasks
    BY <2>2 DEF Enqueue, Pool!Next, Pool!Submit
  <2>3. ASSUME NEW w \in Workers, Wait(w) \/ Spurious(w) \/ Return(w) \/ Finish(w) \/ AddInTaskNotifies(w)
        PROVE  tasks' = tasks
    BY <2>3 DEF Wait, Spurious, Return, Finish, AddInTaskNotifies
  <2>4. ASSUME NEW c \in Callers, AddNotifies(c)
        PROVE  tasks' = tasks
    BY <2>4 DEF AddNotifies
  <2>5. CASE Stop \/ NotifyAll \/ Join \/ UNCHANGED vars
    BY <2>5 DEF Stop, NotifyAll, Join, vars
  <2>6. QED
    BY <1>2, <2>1, <2>2, <2>3, <2>4, <2>5 DEF Next, Worker, Destructor, Add, AddInTask
<1>3. QED
  BY <1>1, <1>2, PTL DEF Spec
==============================================================================
