-------------------------- MODULE BuildSupportProofs --------------------------
(***************************************************************************)
(* Proofs about the scripts of build_support: run_clang_tidy.py, for any   *)
(* database, any number of threads and any outcome of clang-tidy, and      *)
(* cpplint.py, for any command line, any tree of files and any texts: the  *)
(* blocks that are open at a line, and what a file begins with.            *)
(***************************************************************************)
EXTENDS RunClangTidy, Cpplint, SequenceTheorems, WellFoundedInduction, FiniteSetTheorems, TLAPS

------------------------------------------------------------------------------
(* run_clang_tidy.py: the verdict. *)

\* The busy threads can be counted.
LEMMA BusyIsFinite == IsFiniteSet(Busy) /\ Cardinality(Busy) \in Nat
<1>1. IsFiniteSet(Workers) /\ Busy \in SUBSET Workers
  BY TidyAssumption DEF Busy
<1>2. IsFiniteSet(Busy)
  BY <1>1, FS_Subset
<1>3. QED
  BY <1>2, FS_CardinalityType

\* A busy thread has a task that the queue counts.
LEMMA BusyIsCounted ==
  ASSUME TypeOK, CountInv, NEW w \in Workers, worker[w].pc # "get"
  PROVE  unfinished >= 1
<1>1. Busy # {}
  BY DEF Busy
<1>2. Cardinality(Busy) # 0 /\ Cardinality(Busy) \in Nat
  BY <1>1, BusyIsFinite, FS_EmptySet
<1>3. Len(queue) \in Nat
  BY DEF TypeOK
<1>4. QED
  BY <1>2, <1>3 DEF CountInv

\* When the queue counts nothing, it is empty and every thread is at get().
LEMMA NothingUnderWay ==
  ASSUME TypeOK, CountInv, unfinished = 0
  PROVE  queue = << >> /\ \A w \in Workers : worker[w].pc = "get"
<1>1. Len(queue) \in Nat /\ Cardinality(Busy) \in Nat
  BY BusyIsFinite DEF TypeOK
<1>2. Len(queue) = 0 /\ Cardinality(Busy) = 0
  BY <1>1 DEF CountInv
<1>3. Busy = {}
  BY <1>2, BusyIsFinite, FS_EmptySet
<1>4. queue = << >>
  BY <1>2 DEF TypeOK
<1>5. QED
  BY <1>3, <1>4 DEF Busy

\* A thread that holds a file is not idle.
LEMMA HoldsFile ==
  ASSUME TypeOK, NEW w \in Workers, worker[w].pc # "get"
  PROVE  worker[w] \in [pc : {"invoke", "tidy", "print", "done", "dead"}, file : Files]
BY DEF TypeOK, Idle

\* The start: nothing is queued and every thread waits.
LEMMA InitInv == Init => IInv
<1> SUFFICES ASSUME Init PROVE IInv
  OBVIOUS
<1> USE TidyAssumption
<1>1. TypeOK
  <2>1. queue \in Seq(Files) /\ Len(queue) <= max_task /\ failed_files \in Seq(Files)
    BY DEF Init
  <2>2. level \in 0 .. Depth /\ i \in 0 .. Len(Database)
    BY DEF Init
  <2>3. worker \in [Workers -> {Idle}]
    BY DEF Init
  <2>4. result \in Results /\ selected \in Selections /\ args \subseteq {"fix", "export_fixes"}
    BY DEF Init
  <2>5. QED
    BY <2>1, <2>2, <2>3, <2>4 DEF Init, TypeOK
<1>2. Busy = {}
  BY DEF Init, Busy, Idle
<1>3. CountInv
  BY <1>2, FS_EmptySet DEF Init, CountInv
<1>4. ChosenInv /\ NamedInv
  BY DEF Init, ChosenInv, NamedInv, Idle
<1>5. JoinInv
  BY DEF Init, JoinInv
<1>6. QED
  BY <1>1, <1>3, <1>4, <1>5 DEF IInv

------------------------------------------------------------------------------
(* The steps of the main thread that leave the queue and the threads alone. *)

Aside == \/ BuildPathGiven \/ FindDatabase \/ ListChecks \/ LoadDatabase
         \/ check_clang_apply_replacements_binary \/ StartThreads
         \/ Search \/ PutTimesOut \/ Join \/ ExportFixes \/ ApplyFixes \/ Interrupt

\* What none of them changes.
LEMMA AsideLeaves ==
  ASSUME Aside
  PROVE  UNCHANGED <<input, pool, i>>
BY DEF Aside, BuildPathGiven, FindDatabase, ListChecks, LoadDatabase,
       check_clang_apply_replacements_binary, StartThreads, Search, PutTimesOut,
       Join, ExportFixes, ApplyFixes, Interrupt

\* They keep the types.
LEMMA AsideTypeOK ==
  ASSUME TypeOK, Aside
  PROVE  TypeOK'
<1>1. UNCHANGED <<input, pool, i>>
  BY AsideLeaves
<1>2. main' \in {"start", "find", "list-checks", "options", "replacements", "threads",
                 "fill", "put", "export", "fix", "exit", "killed", "raised"}
  BY DEF TypeOK, Aside, BuildPathGiven, FindDatabase, ListChecks, LoadDatabase,
       check_clang_apply_replacements_binary, StartThreads, Search, PutTimesOut,
       Join, ExportFixes, ApplyFixes, Interrupt, Exit
<1>3. level' \in 0 .. Depth
  BY TidyAssumption DEF TypeOK, Aside, BuildPathGiven, FindDatabase, ListChecks, LoadDatabase,
       check_clang_apply_replacements_binary, StartThreads, Search, PutTimesOut,
       Join, ExportFixes, ApplyFixes, Interrupt
<1>4. return_code' \in {0, 1}
  BY DEF TypeOK, Aside, BuildPathGiven, FindDatabase, ListChecks, LoadDatabase,
       check_clang_apply_replacements_binary, StartThreads, Search, PutTimesOut,
       Join, ExportFixes, ApplyFixes, Interrupt, Exit, apply_fixes
<1>5. tmpdir' \in {"None", "made", "removed"}
  BY DEF TypeOK, Aside, BuildPathGiven, FindDatabase, ListChecks, LoadDatabase,
       check_clang_apply_replacements_binary, StartThreads, Search, PutTimesOut,
       Join, ExportFixes, ApplyFixes, Interrupt
<1>6. QED
  BY <1>1, <1>2, <1>3, <1>4, <1>5 DEF TypeOK, input, pool

\* Only Search leads to put, and only with a wanted file at hand.
LEMMA AsideChosen ==
  ASSUME ChosenInv, Aside
  PROVE  ChosenInv'
<1>1. UNCHANGED <<input, pool, i>>
  BY AsideLeaves
<1>2. main' = "put" => i < Len(Database) /\ Database[i + 1] \in selected
  BY DEF Aside, BuildPathGiven, FindDatabase, ListChecks, LoadDatabase,
       check_clang_apply_replacements_binary, StartThreads, Search, PutTimesOut,
       Join, ExportFixes, ApplyFixes, Interrupt, Exit
<1>3. QED
  BY <1>1, <1>2 DEF ChosenInv, input, pool

\* The exit code follows failed_files from join on.
LEMMA AsideJoin ==
  ASSUME TypeOK, JoinInv, Aside
  PROVE  JoinInv'
<1>1. UNCHANGED <<input, pool, i>>
  BY AsideLeaves
<1>2. CASE Join
  BY <1>1, <1>2 DEF Join, JoinInv, input, pool
<1>3. CASE ExportFixes
  BY <1>1, <1>3 DEF ExportFixes, JoinInv, input, pool
<1>4. CASE ApplyFixes
  BY <1>4 DEF ApplyFixes, JoinInv
<1>5. CASE BuildPathGiven \/ FindDatabase \/ ListChecks \/ LoadDatabase
           \/ check_clang_apply_replacements_binary
  BY <1>5 DEF BuildPathGiven, FindDatabase, ListChecks, LoadDatabase,
       check_clang_apply_replacements_binary, Exit, JoinInv
<1>6. CASE StartThreads \/ Search \/ PutTimesOut \/ Interrupt
  BY <1>6 DEF StartThreads, Search, PutTimesOut, Interrupt, Exit, JoinInv
<1>7. QED
  BY <1>2, <1>3, <1>4, <1>5, <1>6 DEF Aside

\* They keep the invariant.
LEMMA AsideInv ==
  ASSUME IInv, Aside
  PROVE  IInv'
<1>1. UNCHANGED <<input, pool, i>>
  BY AsideLeaves
<1>2. CountInv'
  BY <1>1 DEF IInv, CountInv, Busy, pool
<1>3. NamedInv'
  BY <1>1 DEF IInv, NamedInv, Queued, InWork, Named, ToReport, Fails, input, pool
<1>4. QED
  BY <1>2, <1>3, AsideTypeOK, AsideChosen, AsideJoin DEF IInv

------------------------------------------------------------------------------
(* The main thread puts a file into the queue. *)

\* The new task is counted, wanted and queued.
LEMMA PutInv ==
  ASSUME IInv, Put
  PROVE  IInv'
<1> PICK f : f = Database[i + 1]
  OBVIOUS
<1>1. TypeOK /\ CountInv /\ ChosenInv /\ NamedInv /\ JoinInv
  BY DEF IInv
<1>2. i \in Nat /\ i < Len(Database) /\ f \in Files /\ f \in selected
  <2>1. i \in Nat /\ i < Len(Database) /\ f \in selected
    BY <1>1 DEF ChosenInv, TypeOK, Put
  <2>2. i + 1 \in 1 .. Len(Database)
    BY <2>1, TidyAssumption
  <2>3. QED
    BY <2>1, <2>2, TidyAssumption
<1>3. /\ queue \in Seq(Files) /\ Len(queue) \in Nat
      /\ queue' = Append(queue, f) /\ queue' \in Seq(Files)
      /\ Len(queue') = Len(queue) + 1
      /\ queue'[Len(queue) + 1] = f
      /\ \A k \in 1 .. Len(queue) : queue'[k] = queue[k]
  BY <1>1, <1>2 DEF TypeOK, Put
<1>4. /\ UNCHANGED <<input, worker, failed_files, return_code>>
      /\ main = "put" /\ main' = "fill"
      /\ i' = i + 1 /\ unfinished' = unfinished + 1
  BY DEF Put
<1>5. TypeOK'
  <2>1. Len(queue') <= max_task
    BY <1>3, TidyAssumption DEF Put
  <2>2. i' \in 0 .. Len(Database)
    BY <1>2, <1>4, TidyAssumption
  <2>3. QED
    BY <1>1, <1>3, <2>1, <2>2 DEF TypeOK, Put, input
<1>6. CountInv'
  <2>1. Busy' = Busy
    BY <1>4 DEF Busy
  <2>2. Cardinality(Busy) \in Nat
    BY BusyIsFinite
  <2>3. QED
    BY <1>1, <1>3, <1>4, <2>1, <2>2 DEF CountInv
<1>7. ChosenInv'
  <2>1. \A k \in 1 .. Len(queue') : queue'[k] \in selected
    BY <1>1, <1>2, <1>3 DEF ChosenInv
  <2>2. QED
    BY <1>1, <1>4, <2>1 DEF ChosenInv, input
<1>8. NamedInv'
  <2>1. ToReport' = ToReport
    BY <1>4 DEF ToReport, Fails, input
  <2>2. \A j \in 1 .. Len(failed_files') : failed_files'[j] \in ToReport'
    BY <1>1, <1>4, <2>1 DEF NamedInv
  <2>3. ASSUME NEW g, Queued(g) \/ InWork(g) \/ Named(g)
        PROVE  Queued(g)' \/ InWork(g)' \/ Named(g)'
    <3>1. CASE Queued(g)
      BY <1>3, <3>1 DEF Queued
    <3>2. CASE InWork(g)
      BY <1>4, <3>2 DEF InWork
    <3>3. CASE Named(g)
      BY <1>4, <3>3 DEF Named
    <3>4. QED
      BY <2>3, <3>1, <3>2, <3>3
  <2>4. Queued(f)'
    BY <1>3 DEF Queued
  <2>5. ASSUME NEW k \in 1 .. i', Database[k] \in ToReport'
        PROVE  Queued(Database[k])' \/ InWork(Database[k])' \/ Named(Database[k])'
    <3>1. CASE k = i + 1
      BY <2>4, <3>1
    <3>2. CASE k # i + 1
      <4>1. k \in 1 .. i
        BY <1>2, <1>4, <3>2
      <4>2. Queued(Database[k]) \/ InWork(Database[k]) \/ Named(Database[k])
        BY <1>1, <2>1, <2>5, <4>1 DEF NamedInv
      <4>3. QED
        BY <2>3, <4>2
    <3>3. QED
      BY <3>1, <3>2
  <2>6. QED
    BY <2>2, <2>5 DEF NamedInv
<1>9. JoinInv'
  BY <1>1, <1>4 DEF JoinInv
<1>10. QED
  BY <1>5, <1>6, <1>7, <1>8, <1>9 DEF IInv

------------------------------------------------------------------------------
(* The threads. *)

\* One thread moves and the others stay: what becomes of the number of busy ones.
LEMMA BecomesBusy ==
  ASSUME NEW w \in Workers, worker[w].pc = "get", worker'[w].pc # "get",
         \A v \in Workers \ {w} : worker'[v] = worker[v]
  PROVE  Cardinality(Busy') = Cardinality(Busy) + 1
<1>1. Busy' = Busy \cup {w} /\ w \notin Busy
  BY DEF Busy
<1>2. QED
  BY <1>1, BusyIsFinite, FS_AddElement

\* A thread that goes back to get() is busy no longer.
LEMMA BecomesIdle ==
  ASSUME NEW w \in Workers, worker[w].pc # "get", worker'[w].pc = "get",
         \A v \in Workers \ {w} : worker'[v] = worker[v]
  PROVE  Cardinality(Busy') = Cardinality(Busy) - 1
<1>1. Busy' = Busy \ {w} /\ w \in Busy
  BY DEF Busy
<1>2. QED
  BY <1>1, BusyIsFinite, FS_RemoveElement

\* A busy thread that goes on stays busy.
LEMMA StaysBusy ==
  ASSUME NEW w \in Workers, worker[w].pc # "get", worker'[w].pc # "get",
         \A v \in Workers \ {w} : worker'[v] = worker[v]
  PROVE  Busy' = Busy
BY DEF Busy

\* What join and the exit code promise is not touched: no thread has anything to
\* do after join, and before it failed_files may grow.
LEMMA ThreadJoin ==
  ASSUME IInv, NEW w \in Workers, run_tidy(w)
  PROVE  main \notin {"export", "fix"} /\ JoinInv'
<1>1. TypeOK /\ CountInv /\ JoinInv
  BY DEF IInv
<1>2. UNCHANGED <<main, i, return_code>>
  BY DEF run_tidy
<1>3. main \notin {"export", "fix"}
  <2>1. SUFFICES ASSUME main \in {"export", "fix"} PROVE FALSE
    OBVIOUS
  <2>2. unfinished = 0
    BY <1>1, <2>1 DEF JoinInv
  <2>3. queue = << >> /\ worker[w].pc = "get"
    BY <1>1, <2>2, NothingUnderWay
  <2>4. QED
    BY <2>3 DEF run_tidy, Get, Invoke, RunTidy, PrintOutput, TaskDone
<1>4. QED
  BY <1>1, <1>2, <1>3 DEF JoinInv

\* A thread takes the head of the queue.
LEMMA GetInv ==
  ASSUME IInv, NEW w \in Workers, run_tidy(w), Get(w)
  PROVE  IInv'
<1>1. TypeOK /\ CountInv /\ ChosenInv /\ NamedInv
  BY DEF IInv
<1>2. /\ UNCHANGED <<input, main, level, i, return_code, tmpdir, unfinished, failed_files, yaml>>
      /\ worker[w].pc = "get" /\ queue # << >>
  BY DEF run_tidy, Get
<1>3. /\ queue \in Seq(Files) /\ Len(queue) \in Nat \ {0}
      /\ Head(queue) \in Files /\ Head(queue) = queue[1]
      /\ queue' \in Seq(Files) /\ Len(queue') = Len(queue) - 1
      /\ \A k \in 1 .. Len(queue') : queue'[k] = queue[k + 1]
  BY <1>1, <1>2 DEF TypeOK, Get
<1>4. /\ worker' \in [Workers -> {Idle} \cup
            [pc : {"invoke", "tidy", "print", "done", "dead"}, file : Files]]
      /\ worker'[w].pc = "invoke" /\ worker'[w].file = queue[1]
      /\ \A v \in Workers \ {w} : worker'[v] = worker[v]
  BY <1>1, <1>3 DEF TypeOK, Get, At
<1>5. TypeOK'
  BY <1>1, <1>2, <1>3, <1>4, TidyAssumption DEF TypeOK, input
<1>6. CountInv'
  <2>1. Cardinality(Busy') = Cardinality(Busy) + 1
    BY <1>2, <1>4, BecomesBusy
  <2>2. Cardinality(Busy) \in Nat
    BY BusyIsFinite
  <2>3. QED
    BY <1>1, <1>2, <1>3, <2>1, <2>2 DEF CountInv
<1>7. ChosenInv'
  <2>1. \A k \in 1 .. Len(queue') : queue'[k] \in selected
    BY <1>1, <1>3 DEF ChosenInv
  <2>2. queue[1] \in selected
    BY <1>1, <1>3 DEF ChosenInv
  <2>3. QED
    BY <1>1, <1>2, <1>4, <2>1, <2>2 DEF ChosenInv, input
<1>8. NamedInv'
  <2>1. ToReport' = ToReport
    BY <1>2 DEF ToReport, Fails, input
  <2>2. ASSUME NEW g, Queued(g) \/ InWork(g) \/ Named(g)
        PROVE  Queued(g)' \/ InWork(g)' \/ Named(g)'
    <3>1. CASE Queued(g)
      <4>1. PICK k \in 1 .. Len(queue) : queue[k] = g
        BY <3>1 DEF Queued
      <4>2. CASE k = 1
        BY <1>4, <4>1, <4>2 DEF InWork
      <4>3. CASE k # 1
        <5>1. k - 1 \in 1 .. Len(queue') /\ queue'[k - 1] = g
          BY <1>3, <4>1, <4>3
        <5>2. QED
          BY <5>1 DEF Queued
      <4>4. QED
        BY <4>2, <4>3
    <3>2. CASE InWork(g)
      BY <1>2, <1>4, <3>2 DEF InWork
    <3>3. CASE Named(g)
      BY <1>2, <3>3 DEF Named
    <3>4. QED
      BY <2>2, <3>1, <3>2, <3>3
  <2>3. \A k \in 1 .. i' : Database[k] \in ToReport' =>
          Queued(Database[k])' \/ InWork(Database[k])' \/ Named(Database[k])'
    BY <1>1, <1>2, <2>1, <2>2 DEF NamedInv
  <2>4. QED
    BY <1>1, <1>2, <2>1, <2>3 DEF NamedInv
<1>9. QED
  BY <1>5, <1>6, <1>7, <1>8, ThreadJoin DEF IInv

\* A thread passes a file on to clang-tidy, prints, or is done with a task: what
\* these steps have in common.
LEMMA MovesOnInv ==
  ASSUME IInv, NEW w \in Workers, run_tidy(w),
         UNCHANGED <<queue, failed_files>>,
         worker[w].pc # "get", yaml' \in BOOLEAN,
         worker' \in [Workers -> {Idle} \cup
            [pc : {"invoke", "tidy", "print", "done", "dead"}, file : Files]],
         \A v \in Workers \ {w} : worker'[v] = worker[v],
         \/ worker'[w].pc # "get" /\ unfinished' = unfinished
         \/ worker'[w].pc = "get" /\ unfinished' = unfinished - 1,
         \* what a thread at work drops is of third_party, what it keeps is not
         worker[w].pc \in {"invoke", "tidy"} =>
            \/ worker'[w].pc = "tidy" /\ worker'[w].file = worker[w].file
            \/ worker[w].file \in Skipped,
         worker'[w].pc # "invoke",
         worker'[w].pc = "tidy" =>
            /\ worker[w].pc \in {"invoke", "tidy"}
            /\ worker'[w].file = worker[w].file
            /\ worker[w].file \notin Skipped
  PROVE  IInv'
<1>1. TypeOK /\ CountInv /\ ChosenInv /\ NamedInv
  BY DEF IInv
<1>2. UNCHANGED <<input, main, level, i, return_code, tmpdir>>
  BY DEF run_tidy
<1>3. TypeOK'
  <2>1. unfinished \in Nat /\ unfinished >= 1
    BY <1>1, BusyIsCounted DEF TypeOK
  <2>2. unfinished' \in Nat
    BY <2>1
  <2>3. QED
    BY <1>1, <1>2, <2>2 DEF TypeOK, input
<1>4. CountInv'
  <2>1. Cardinality(Busy) \in Nat /\ Len(queue) \in Nat
    BY <1>1, BusyIsFinite DEF TypeOK
  <2>2. CASE worker'[w].pc # "get"
    BY <1>1, <2>2, StaysBusy DEF CountInv
  <2>3. CASE worker'[w].pc = "get"
    <3>1. Cardinality(Busy') = Cardinality(Busy) - 1
      BY <2>3, BecomesIdle
    <3>2. QED
      BY <1>1, <2>1, <2>3, <3>1 DEF CountInv
  <2>4. QED
    BY <2>2, <2>3
<1>5. ChosenInv'
  BY <1>1, <1>2 DEF ChosenInv, input
<1>6. NamedInv'
  <2>1. ToReport' = ToReport /\ ToReport \cap Skipped = {}
    BY <1>2 DEF ToReport, Fails, input
  <2>2. ASSUME NEW g \in ToReport, InWork(g)
        PROVE  InWork(g)'
    <3>1. PICK v \in Workers : worker[v].pc \in {"invoke", "tidy"} /\ worker[v].file = g
      BY <2>2 DEF InWork
    <3>2. CASE v = w
      <4>1. worker'[w].pc = "tidy" /\ worker'[w].file = g
        BY <2>1, <2>2, <3>1, <3>2
      <4>2. QED
        BY <4>1 DEF InWork
    <3>3. CASE v # w
      BY <3>1, <3>3 DEF InWork
    <3>4. QED
      BY <3>2, <3>3
  <2>3. \A g : Queued(g)' = Queued(g) /\ Named(g)' = Named(g)
    BY DEF Queued, Named
  <2>4. ASSUME NEW k \in 1 .. i', Database[k] \in ToReport'
        PROVE  Queued(Database[k])' \/ InWork(Database[k])' \/ Named(Database[k])'
    <3>1. Queued(Database[k]) \/ InWork(Database[k]) \/ Named(Database[k])
      BY <1>1, <1>2, <2>1, <2>4 DEF NamedInv
    <3>2. QED
      BY <2>1, <2>2, <2>3, <2>4, <3>1
  <2>5. QED
    BY <1>1, <2>1, <2>4 DEF NamedInv
<1>7. QED
  BY <1>3, <1>4, <1>5, <1>6, ThreadJoin DEF IInv

\* get_tidy_invocation, the output and task_done.
LEMMA InvokePrintDoneInv ==
  ASSUME IInv, NEW w \in Workers, run_tidy(w), Invoke(w) \/ PrintOutput(w) \/ TaskDone(w)
  PROVE  IInv'
<1>1. TypeOK
  BY DEF IInv
<1>2. worker[w].pc # "get" /\ UNCHANGED <<queue, failed_files>>
  BY DEF Invoke, PrintOutput, TaskDone
<1>3. worker[w] \in [pc : {"invoke", "tidy", "print", "done", "dead"}, file : Files]
  BY <1>1, <1>2, HoldsFile
<1>4. yaml' \in BOOLEAN
  BY <1>1 DEF TypeOK, Invoke, PrintOutput, TaskDone, get_tidy_invocation
<1>5. CASE Invoke(w)
  <2>1. CASE worker[w].file \in Skipped
    <3>1. worker' = [worker EXCEPT ![w] = Idle] /\ unfinished' = unfinished - 1
      BY <1>5, <2>1 DEF Invoke, should_skip
    <3>2. QED
      BY <1>1, <1>2, <1>4, <2>1, <3>1, MovesOnInv DEF TypeOK, Idle
  <2>2. CASE worker[w].file \notin Skipped
    <3>1. worker' = [worker EXCEPT ![w].pc = "tidy"] /\ unfinished' = unfinished
          /\ worker[w].pc = "invoke"
      BY <1>5, <2>2 DEF Invoke, should_skip
    <3>2. worker'[w] \in [pc : {"invoke", "tidy", "print", "done", "dead"}, file : Files]
          /\ worker'[w].pc = "tidy" /\ worker'[w].file = worker[w].file
      BY <1>1, <1>3, <3>1 DEF TypeOK
    <3>3. worker' \in [Workers -> {Idle} \cup
              [pc : {"invoke", "tidy", "print", "done", "dead"}, file : Files]]
          /\ \A v \in Workers \ {w} : worker'[v] = worker[v]
      BY <1>1, <3>1, <3>2 DEF TypeOK
    <3>4. QED
      BY <1>2, <1>4, <2>2, <3>1, <3>2, <3>3, MovesOnInv
  <2>3. QED
    BY <2>1, <2>2
<1>6. CASE PrintOutput(w)
  <2>1. PICK p \in {"dead", "done"} :
          worker' = [worker EXCEPT ![w].pc = p] /\ unfinished' = unfinished
          /\ worker[w].pc = "print"
    BY <1>6 DEF PrintOutput
  <2>2. worker'[w] \in [pc : {"invoke", "tidy", "print", "done", "dead"}, file : Files]
        /\ worker'[w].pc = p
    BY <1>1, <1>3, <2>1 DEF TypeOK
  <2>3. worker' \in [Workers -> {Idle} \cup
            [pc : {"invoke", "tidy", "print", "done", "dead"}, file : Files]]
        /\ \A v \in Workers \ {w} : worker'[v] = worker[v]
    BY <1>1, <2>1, <2>2 DEF TypeOK
  <2>4. QED
    BY <1>2, <1>4, <2>1, <2>2, <2>3, MovesOnInv
<1>7. CASE TaskDone(w)
  <2>1. worker' = [worker EXCEPT ![w] = Idle] /\ unfinished' = unfinished - 1
        /\ worker[w].pc = "done"
    BY <1>7 DEF TaskDone
  <2>2. QED
    BY <1>1, <1>2, <1>4, <2>1, MovesOnInv DEF TypeOK, Idle
<1>8. QED
  BY <1>5, <1>6, <1>7

\* clang-tidy ends on a file: a failure is named before the thread goes on.
LEMMA RunTidyInv ==
  ASSUME IInv, NEW w \in Workers, run_tidy(w), RunTidy(w)
  PROVE  IInv'
<1>1. TypeOK /\ CountInv /\ ChosenInv /\ NamedInv
  BY DEF IInv
<1>2. PICK f : f = worker[w].file
  OBVIOUS
<1>3. /\ UNCHANGED <<input, main, level, i, return_code, tmpdir, queue, unfinished, yaml>>
      /\ worker[w].pc = "tidy" /\ worker[w].pc # "get"
  BY DEF run_tidy, RunTidy
<1>4. worker[w] \in [pc : {"invoke", "tidy", "print", "done", "dead"}, file : Files]
  BY <1>1, <1>3, HoldsFile
<1>5. PICK p \in {"dead", "print"} : worker' = [worker EXCEPT ![w].pc = p]
  BY DEF RunTidy
<1>6. worker'[w] \in [pc : {"invoke", "tidy", "print", "done", "dead"}, file : Files]
      /\ worker'[w].pc = p
  BY <1>1, <1>4, <1>5 DEF TypeOK
<1>7. worker' \in [Workers -> {Idle} \cup
          [pc : {"invoke", "tidy", "print", "done", "dead"}, file : Files]]
      /\ \A v \in Workers \ {w} : worker'[v] = worker[v]
  BY <1>1, <1>5, <1>6 DEF TypeOK
<1>8. f \in Files /\ f \in selected /\ f \notin Skipped
  BY <1>1, <1>2, <1>3, <1>4 DEF ChosenInv
<1>9. failed_files' = IF Fails(f) THEN Append(failed_files, f) ELSE failed_files
  BY <1>2 DEF RunTidy
<1>10. /\ failed_files \in Seq(Files) /\ failed_files' \in Seq(Files)
       /\ Len(failed_files) \in Nat
       /\ \A j \in 1 .. Len(failed_files) :
            j \in 1 .. Len(failed_files') /\ failed_files'[j] = failed_files[j]
       /\ \A j \in 1 .. Len(failed_files') :
            j \in 1 .. Len(failed_files) \/ (failed_files'[j] = f /\ Fails(f))
       /\ Fails(f) => Len(failed_files') \in 1 .. Len(failed_files')
                      /\ failed_files'[Len(failed_files')] = f
  <2>1. CASE Fails(f)
    BY <1>1, <1>8, <1>9, <2>1 DEF TypeOK
  <2>2. CASE ~Fails(f)
    BY <1>1, <1>9, <2>2 DEF TypeOK
  <2>3. QED
    BY <2>1, <2>2
<1>11. TypeOK'
  BY <1>1, <1>3, <1>7, <1>10 DEF TypeOK, input
<1>12. CountInv'
  <2>1. Busy' = Busy
    BY <1>3, <1>6, <1>7, StaysBusy
  <2>2. QED
    BY <1>1, <1>3, <2>1 DEF CountInv
<1>13. ChosenInv'
  BY <1>1, <1>3, <1>6, <1>7 DEF ChosenInv, input
<1>14. NamedInv'
  <2>1. ToReport' = ToReport
    BY <1>3 DEF ToReport, Fails, input
  <2>2. f \in ToReport <=> Fails(f)
    BY <1>8 DEF ToReport
  <2>3. \A j \in 1 .. Len(failed_files') : failed_files'[j] \in ToReport'
    BY <1>1, <1>10, <2>1, <2>2 DEF NamedInv
  <2>4. ASSUME NEW g \in ToReport, Queued(g) \/ InWork(g) \/ Named(g)
        PROVE  Queued(g)' \/ InWork(g)' \/ Named(g)'
    <3>1. CASE Queued(g)
      BY <1>3, <3>1 DEF Queued
    <3>2. CASE InWork(g)
      <4>1. PICK v \in Workers : worker[v].pc \in {"invoke", "tidy"} /\ worker[v].file = g
        BY <3>2 DEF InWork
      <4>2. CASE v = w
        <5>1. Fails(f) /\ f = g
          BY <1>2, <2>2, <2>4, <4>1, <4>2
        <5>2. QED
          BY <1>10, <5>1 DEF Named
      <4>3. CASE v # w
        BY <1>7, <4>1, <4>3 DEF InWork
      <4>4. QED
        BY <4>2, <4>3
    <3>3. CASE Named(g)
      BY <1>10, <3>3 DEF Named
    <3>4. QED
      BY <2>4, <3>1, <3>2, <3>3
  <2>5. \A k \in 1 .. i' : Database[k] \in ToReport' =>
          Queued(Database[k])' \/ InWork(Database[k])' \/ Named(Database[k])'
    BY <1>1, <1>3, <2>1, <2>4 DEF NamedInv
  <2>6. QED
    BY <2>3, <2>5 DEF NamedInv
<1>15. QED
  BY <1>11, <1>12, <1>13, <1>14, ThreadJoin DEF IInv

------------------------------------------------------------------------------
(* The results. *)

\* Every step keeps the invariant.
LEMMA NextInv ==
  ASSUME IInv, [Next]_vars
  PROVE  IInv'
<1>1. CASE Aside
  BY <1>1, AsideInv
<1>2. CASE Put
  BY <1>2, PutInv
<1>3. ASSUME NEW w \in Workers, run_tidy(w)
      PROVE  IInv'
  <2>1. Get(w) \/ Invoke(w) \/ RunTidy(w) \/ PrintOutput(w) \/ TaskDone(w)
    BY <1>3 DEF run_tidy
  <2>2. QED
    BY <1>3, <2>1, GetInv, InvokePrintDoneInv, RunTidyInv
<1>4. CASE UNCHANGED vars
  BY <1>4 DEF vars, IInv, TypeOK, CountInv, Busy, ChosenInv, NamedInv, Queued, InWork,
     Named, ToReport, Fails, JoinInv
<1>5. QED
  BY <1>1, <1>2, <1>3, <1>4 DEF Next, Main, Aside

\* The variables have their types, and the queue its bound.
THEOREM TypeCorrect == Spec => []TypeOK
<1>1. IInv => TypeOK
  BY DEF IInv
<1>2. QED
  BY InitInv, NextInv, <1>1, PTL DEF Spec

\* What the queue still held when join returned is nothing: every wanted file on
\* which clang-tidy failed is named, and nothing else is.
LEMMA InvIsEnough == IInv => VerdictIsComplete
<1>1. SUFFICES ASSUME IInv, main \in {"export", "fix"}
               PROVE  /\ ToSet(failed_files) = ToReport
                      /\ ToReport # {} => return_code = 1
                      /\ args = {} /\ ToReport = {} => return_code = 0
  BY DEF VerdictIsComplete
<1>2. TypeOK /\ CountInv /\ NamedInv /\ JoinInv
  BY <1>1 DEF IInv
<1>3. i = Len(Database) /\ unfinished = 0
  BY <1>1, <1>2 DEF JoinInv
<1>4. queue = << >> /\ \A w \in Workers : worker[w].pc = "get"
  BY <1>2, <1>3, NothingUnderWay
<1>5. \A f : ~Queued(f) /\ ~InWork(f)
  BY <1>4 DEF Queued, InWork
<1>6. ASSUME NEW f \in ToReport
      PROVE  f \in ToSet(failed_files)
  <2>1. PICK k \in 1 .. Len(Database) : Database[k] = f
    BY TidyAssumption DEF ToReport, Files, ToSet
  <2>2. Named(f)
    BY <1>2, <1>3, <1>5, <2>1 DEF NamedInv
  <2>3. QED
    BY <1>2, <2>2 DEF Named, ToSet, TypeOK
<1>7. ASSUME NEW f \in ToSet(failed_files)
      PROVE  f \in ToReport
  BY <1>2, <1>7 DEF NamedInv, ToSet, TypeOK
<1>8. ToSet(failed_files) = ToReport
  BY <1>6, <1>7
<1>9. failed_files = << >> <=> ToReport = {}
  <2>1. failed_files \in Seq(Files)
    BY <1>2 DEF TypeOK
  <2>2. CASE failed_files = << >>
    BY <1>8, <2>2 DEF ToSet
  <2>3. CASE failed_files # << >>
    <3>1. 1 \in DOMAIN failed_files
      BY <2>1, <2>3
    <3>2. QED
      BY <1>8, <2>3, <3>1 DEF ToSet
  <2>4. QED
    BY <2>2, <2>3
<1>10. QED
  BY <1>1, <1>2, <1>8, <1>9 DEF JoinInv

\* After join, failed_files and the exit code tell exactly the files that failed,
\* for any number of threads and any database.
THEOREM VerdictHolds == Spec => []VerdictIsComplete
BY InitInv, NextInv, InvIsEnough, PTL DEF Spec

------------------------------------------------------------------------------
(* cpplint.py: the blocks that are open. *)

\* A nonempty set of numbers has a least one.
LEMMA LeastNumber ==
  ASSUME NEW T \in SUBSET Nat, T # {}
  PROVE  \E m \in T : \A k \in T : m <= k
<1> DEFINE Less == {ss \in Nat \X Nat : ss[1] < ss[2]}
<1>1. IsWellFoundedOn(Less, Nat)
  BY NatLessThanWellFounded DEF OpToRel
<1>2. \A j, k \in Nat : j < k => <<j, k>> \in Less
  OBVIOUS
<1> HIDE DEF Less
<1>3. PICK m \in T : \A k \in T : ~ (<<k, m>> \in Less)
  BY <1>1, WFMin
<1>4. ASSUME NEW k \in T
      PROVE  m <= k
  <2>1. k \in Nat /\ m \in Nat /\ ~(<<k, m>> \in Less)
    BY <1>3
  <2>2. ~(k < m)
    BY <1>2, <2>1
  <2>3. QED
    BY <2>1, <2>2
<1>5. QED
  BY <1>4

\* Induction, over a set of numbers.
LEMMA AllNumbers ==
  ASSUME NEW T \in SUBSET Nat, 0 \in T, \A n \in T : n + 1 \in T
  PROVE  T = Nat
<1>1. SUFFICES ASSUME Nat \ T # {}
               PROVE  FALSE
  OBVIOUS
<1>2. PICK m \in Nat \ T : \A k \in Nat \ T : m <= k
  BY <1>1, LeastNumber
<1>3. m - 1 \in Nat /\ m - 1 \in T
  BY <1>2
<1>4. QED
  BY <1>2, <1>3

\* The function g goes on from f with the value v.
Longer(g, f, n, v) == /\ g = [k \in 0 .. n + 1 |-> g[k]]
                      /\ \A k \in 0 .. n : g[k] = f[k]
                      /\ g[n + 1] = v

\* There is such a function.
LEMMA LongerFunction ==
  ASSUME NEW n \in Nat, NEW f, NEW v
  PROVE  \E g : Longer(g, f, n, v)
<1> DEFINE g == [k \in 0 .. n + 1 |-> IF k = n + 1 THEN v ELSE f[k]]
<1>1. g = [k \in 0 .. n + 1 |-> g[k]] /\ (\A k \in 0 .. n : g[k] = f[k]) /\ g[n + 1] = v
  OBVIOUS
<1> HIDE DEF g
<1>2. Longer(g, f, n, v)
  BY <1>1 DEF Longer
<1>3. QED
  BY <1>2

------------------------------------------------------------------------------
(* Branches and BlocksOf, by their recursive definitions. *)

BranchesUpto(f, doc0, n) ==
  f = [k \in 0 .. n |-> IF k = 0 THEN << >> ELSE Branched(f[k - 1], doc0.elided[k].dir, k)]

\* There is a function that obeys the recursion of Branches, however long the text.
LEMMA BranchesExist ==
  ASSUME NEW doc0
  PROVE  \A n \in Nat : \E f : BranchesUpto(f, doc0, n)
<1> DEFINE T == {n \in Nat : \E f : BranchesUpto(f, doc0, n)}
<1>1. 0 \in T
  <2>1. BranchesUpto([k \in 0 .. 0 |-> << >>], doc0, 0)
    BY DEF BranchesUpto
  <2>2. QED
    BY <2>1
<1>2. ASSUME NEW n \in T
      PROVE  n + 1 \in T
  <2>1. PICK f : BranchesUpto(f, doc0, n)
    OBVIOUS
  <2>2. PICK g : Longer(g, f, n, Branched(f[n], doc0.elided[n + 1].dir, n + 1))
    BY LongerFunction, Zenon
  <2>3. \A k \in 0 .. n : f[k] = IF k = 0 THEN << >> ELSE Branched(f[k - 1], doc0.elided[k].dir, k)
    BY <2>1, Zenon DEF BranchesUpto
  <2>4. ASSUME NEW k \in 0 .. n + 1
        PROVE  g[k] = IF k = 0 THEN << >> ELSE Branched(g[k - 1], doc0.elided[k].dir, k)
    <3>1. CASE k \in 0 .. n
      <4>1. g[k] = f[k] /\ (k # 0 => g[k - 1] = f[k - 1])
        <5>1. k - 1 \in 0 .. n \/ k = 0
          BY <3>1
        <5>2. QED
          BY <2>2, <3>1, <5>1, Zenon DEF Longer
      <4>2. QED
        BY <2>3, <3>1, <4>1, Zenon
    <3>2. CASE k = n + 1
      <4>1. k # 0 /\ n \in 0 .. n /\ k - 1 = n
        BY <3>2
      <4>2. QED
        BY <2>2, <3>2, <4>1, Zenon DEF Longer
    <3>3. QED
      BY <3>1, <3>2
  <2>5. g = [k \in 0 .. n + 1 |-> IF k = 0 THEN << >> ELSE Branched(g[k - 1], doc0.elided[k].dir, k)]
    BY <2>2, <2>4, Zenon DEF Longer
  <2>6. BranchesUpto(g, doc0, n + 1)
    BY <2>5, Zenon DEF BranchesUpto
  <2>7. QED
    BY <2>6
<1>3. QED
  BY <1>1, <1>2, AllNumbers

\* Branches obeys its recursion.
LEMMA BranchesDef ==
  ASSUME NEW doc0, NumLines(doc0) \in Nat
  PROVE  \A k \in 0 .. NumLines(doc0) :
           Branches(doc0)[k] = IF k = 0 THEN << >> ELSE Branched(Branches(doc0)[k - 1], doc0.elided[k].dir, k)
<1>1. PICK n \in Nat : n = NumLines(doc0)
  OBVIOUS
<1>2. \E f : BranchesUpto(f, doc0, n)
  BY BranchesExist
<1>3. Branches(doc0) = CHOOSE f : BranchesUpto(f, doc0, n)
  BY <1>1, Zenon DEF Branches, BranchesUpto
<1>4. BranchesUpto(Branches(doc0), doc0, n)
  BY <1>2, <1>3, Zenon
<1>5. QED
  BY <1>1, <1>4, Zenon DEF BranchesUpto

\* The blocks after a line, from those before it.
BlocksStep(stack, doc0, now, k) ==
  IF Live(doc0, now, k) THEN UpdateBlocks(stack, doc0, k).stack ELSE stack

BlocksUpto(f, doc0, now, n) ==
  f = [k \in 0 .. n |-> IF k = 0 THEN << >> ELSE BlocksStep(f[k - 1], doc0, now, k)]

\* There is a function that obeys the recursion of BlocksOf.
LEMMA BlocksExist ==
  ASSUME NEW doc0, NEW now
  PROVE  \A n \in Nat : \E f : BlocksUpto(f, doc0, now, n)
<1> DEFINE T == {n \in Nat : \E f : BlocksUpto(f, doc0, now, n)}
<1>1. 0 \in T
  <2>1. BlocksUpto([k \in 0 .. 0 |-> << >>], doc0, now, 0)
    BY DEF BlocksUpto
  <2>2. QED
    BY <2>1
<1>2. ASSUME NEW n \in T
      PROVE  n + 1 \in T
  <2>1. PICK f : BlocksUpto(f, doc0, now, n)
    OBVIOUS
  <2>2. PICK g : Longer(g, f, n, BlocksStep(f[n], doc0, now, n + 1))
    BY LongerFunction, Zenon
  <2>3. \A k \in 0 .. n : f[k] = IF k = 0 THEN << >> ELSE BlocksStep(f[k - 1], doc0, now, k)
    BY <2>1, Zenon DEF BlocksUpto
  <2>4. ASSUME NEW k \in 0 .. n + 1
        PROVE  g[k] = IF k = 0 THEN << >> ELSE BlocksStep(g[k - 1], doc0, now, k)
    <3>1. CASE k \in 0 .. n
      <4>1. g[k] = f[k] /\ (k # 0 => g[k - 1] = f[k - 1])
        <5>1. k - 1 \in 0 .. n \/ k = 0
          BY <3>1
        <5>2. QED
          BY <2>2, <3>1, <5>1, Zenon DEF Longer
      <4>2. QED
        BY <2>3, <3>1, <4>1, Zenon
    <3>2. CASE k = n + 1
      <4>1. k # 0 /\ n \in 0 .. n /\ k - 1 = n
        BY <3>2
      <4>2. QED
        BY <2>2, <3>2, <4>1, Zenon DEF Longer
    <3>3. QED
      BY <3>1, <3>2
  <2>5. g = [k \in 0 .. n + 1 |-> IF k = 0 THEN << >> ELSE BlocksStep(g[k - 1], doc0, now, k)]
    BY <2>2, <2>4, Zenon DEF Longer
  <2>6. BlocksUpto(g, doc0, now, n + 1)
    BY <2>5, Zenon DEF BlocksUpto
  <2>7. QED
    BY <2>6
<1>3. QED
  BY <1>1, <1>2, AllNumbers

\* BlocksOf obeys its recursion.
LEMMA BlocksDef ==
  ASSUME NEW doc0, NEW now, NumLines(doc0) \in Nat
  PROVE  \A k \in 0 .. NumLines(doc0) :
           BlocksOf(doc0, now)[k] = IF k = 0 THEN << >> ELSE BlocksStep(BlocksOf(doc0, now)[k - 1], doc0, now, k)
<1>1. PICK n \in Nat : n = NumLines(doc0)
  OBVIOUS
<1>2. \E f : BlocksUpto(f, doc0, now, n)
  BY BlocksExist
<1>3. BlocksOf(doc0, now) = CHOOSE f : BlocksUpto(f, doc0, now, n)
  BY <1>1, Zenon DEF BlocksOf, BlocksStep, BlocksUpto
<1>4. BlocksUpto(BlocksOf(doc0, now), doc0, now, n)
  BY <1>2, <1>3, Zenon
<1>5. QED
  BY <1>1, <1>4, Zenon DEF BlocksUpto

------------------------------------------------------------------------------
(* What a line does to the open groups. *)

Groups == Seq(Nat \X Nat)

Opens(b, c, k) == /\ Len(c) = Len(b) + 1
                  /\ \A m \in 1 .. Len(b) : c[m] = b[m]
                  /\ c[Len(c)] = <<k, 0>>
Turns(b, c) == /\ Len(b) > 0 /\ Len(c) = Len(b)
               /\ \A m \in 1 .. Len(b) - 1 : c[m] = b[m]
               /\ c[Len(c)] = <<b[Len(b)][1], b[Len(b)][2] + 1>>
Closes(b, c) == /\ Len(b) > 0 /\ Len(c) = Len(b) - 1
                /\ \A m \in 1 .. Len(c) : c[m] = b[m]

IfDir(dir) == dir \in {"if", "ifdef", "ifndef"}
ElseDir(dir) == dir \in {"else", "elif"}
EndDir(dir) == dir = "endif"

\* What it means to be a stack of groups.
LEMMA GroupsTyped ==
  ASSUME NEW b \in Groups
  PROVE  /\ Len(b) \in Nat /\ DOMAIN b = 1 .. Len(b) /\ (b # << >> => Len(b) > 0)
         /\ \A m \in 1 .. Len(b) : b[m] \in Nat \X Nat /\ b[m][1] \in Nat /\ b[m][2] \in Nat
<1>1. Len(b) \in Nat /\ DOMAIN b = 1 .. Len(b) /\ (b # << >> => Len(b) > 0)
  BY DEF Groups
<1>2. \A m \in 1 .. Len(b) : b[m] \in Nat \X Nat
  BY DEF Groups
<1>3. QED
  BY <1>1, <1>2

\* All but the last element.
LEMMA PopIs ==
  ASSUME NEW S, NEW s \in Seq(S), s # << >>
  PROVE  /\ Pop(s) \in Seq(S) /\ Len(Pop(s)) = Len(s) - 1 /\ Len(s) > 0
         /\ \A m \in 1 .. Len(s) - 1 : Pop(s)[m] = s[m]
<1>1. Len(s) \in Nat /\ Len(s) > 0
  OBVIOUS
<1>2. Len(s) - 1 \in Int /\ 1 \in Int /\ \A m \in 1 .. Len(s) - 1 : s[m] \in S
  BY <1>1
<1>3. /\ SubSeq(s, 1, Len(s) - 1) \in Seq(S)
      /\ Len(SubSeq(s, 1, Len(s) - 1)) = IF 1 <= Len(s) - 1 THEN Len(s) - 1 - 1 + 1 ELSE 0
      /\ \A m \in 1 .. Len(s) - 1 - 1 + 1 : SubSeq(s, 1, Len(s) - 1)[m] = s[1 + m - 1]
  BY <1>2, SubSeqProperties
<1>4. Len(SubSeq(s, 1, Len(s) - 1)) = Len(s) - 1
  <2>1. PICK n \in Nat : n = Len(s) /\ n > 0
    BY <1>1
  <2>2. PICK q : q = Len(SubSeq(s, 1, Len(s) - 1))
    OBVIOUS
  <2>3. q = IF 1 <= n - 1 THEN n - 1 - 1 + 1 ELSE 0
    BY <1>3, <2>1, <2>2, Zenon
  <2>4. q = n - 1
    BY <2>1, <2>3
  <2>5. QED
    BY <2>1, <2>2, <2>4, Zenon
<1>5. \A m \in 1 .. Len(s) - 1 : SubSeq(s, 1, Len(s) - 1)[m] = s[m]
  <2>1. TAKE m \in 1 .. Len(s) - 1
  <2>2. m \in 1 .. Len(s) - 1 - 1 + 1 /\ 1 + m - 1 = m
    BY <1>1
  <2>3. QED
    BY <1>3, <2>2
<1>6. QED
  BY <1>1, <1>3, <1>4, <1>5 DEF Pop

\* A directive opens a group, turns the innermost one to its next branch, closes it, or
\* leaves the groups alone.
LEMMA BranchedShape ==
  ASSUME NEW b \in Groups, NEW dir, NEW k \in Nat
  PROVE  /\ Branched(b, dir, k) \in Groups
         /\ IfDir(dir) => Opens(b, Branched(b, dir, k), k)
         /\ ElseDir(dir) /\ b # << >> => Turns(b, Branched(b, dir, k))
         /\ EndDir(dir) /\ b # << >> => Closes(b, Branched(b, dir, k))
         /\ ~IfDir(dir) /\ ~(b # << >> /\ (ElseDir(dir) \/ EndDir(dir))) => Branched(b, dir, k) = b
<1> USE DEF Branched, IfDir, ElseDir, EndDir
<1>1. /\ Len(b) \in Nat /\ (b # << >> => Len(b) > 0)
      /\ \A m \in 1 .. Len(b) : b[m] \in Nat \X Nat /\ b[m][1] \in Nat /\ b[m][2] \in Nat
  BY GroupsTyped
<1>2. CASE IfDir(dir)
  <2>1. Branched(b, dir, k) = Append(b, <<k, 0>>) /\ <<k, 0>> \in Nat \X Nat
    BY <1>2
  <2>2. /\ Append(b, <<k, 0>>) \in Groups /\ Len(Append(b, <<k, 0>>)) = Len(b) + 1
        /\ \A m \in 1 .. Len(b) : Append(b, <<k, 0>>)[m] = b[m]
        /\ Append(b, <<k, 0>>)[Len(b) + 1] = <<k, 0>>
    BY <2>1, AppendProperties DEF Groups
  <2>3. Opens(b, Append(b, <<k, 0>>), k)
    BY <2>2, Zenon DEF Opens
  <2>4. QED
    BY <1>2, <2>1, <2>2, <2>3
<1>3. CASE ElseDir(dir) /\ b # << >>
  <2>1. PICK last : last = <<b[Len(b)][1], b[Len(b)][2] + 1>>
    OBVIOUS
  <2>2. Branched(b, dir, k) = Append(Pop(b), last)
    BY <1>3, <2>1 DEF Top
  <2>3. last \in Nat \X Nat
    <3>1. Len(b) \in 1 .. Len(b)
      BY <1>1, <1>3
    <3>2. QED
      BY <1>1, <2>1, <3>1
  <2>4. PICK p : p = Pop(b)
    OBVIOUS
  <2>5. /\ p \in Groups /\ Len(p) = Len(b) - 1 /\ Len(b) > 0
        /\ \A m \in 1 .. Len(b) - 1 : p[m] = b[m]
    BY <1>3, <2>4, PopIs DEF Groups
  <2>6. /\ Append(p, last) \in Groups /\ Len(Append(p, last)) = Len(b)
        /\ \A m \in 1 .. Len(b) - 1 : Append(p, last)[m] = p[m]
        /\ Append(p, last)[Len(b)] = last
    BY <1>1, <2>3, <2>5 DEF Groups
  <2>7. Turns(b, Append(p, last))
    BY <2>1, <2>5, <2>6 DEF Turns
  <2>8. QED
    BY <1>3, <2>2, <2>4, <2>6, <2>7
<1>4. CASE EndDir(dir) /\ b # << >>
  <2>1. Branched(b, dir, k) = Pop(b)
    BY <1>4
  <2>2. /\ Pop(b) \in Groups /\ Len(Pop(b)) = Len(b) - 1 /\ Len(b) > 0
        /\ \A m \in 1 .. Len(b) - 1 : Pop(b)[m] = b[m]
    BY <1>4, PopIs DEF Groups
  <2>3. Closes(b, Pop(b))
    BY <2>2 DEF Closes
  <2>4. QED
    BY <1>4, <2>1, <2>2, <2>3
<1>5. CASE ~IfDir(dir) /\ ~(b # << >> /\ (ElseDir(dir) \/ EndDir(dir)))
  BY <1>5
<1>6. QED
  BY <1>2, <1>3, <1>4, <1>5

\* What the groups that are open after line n say of the lines up to it.
InOrder(b, n) ==
  /\ b \in Groups
  /\ \A m \in DOMAIN b : b[m][1] \in 1 .. n
  /\ \A m, p \in DOMAIN b : m < p => b[m][1] < b[p][1]

\* In all lines from that of its #if on, a group has been open, in this branch or an earlier.
Since(doc0, g, n) ==
  \A k \in g[1] .. n : \E m \in DOMAIN Branches(doc0)[k] :
    /\ Branches(doc0)[k][m] \in Nat \X Nat
    /\ Branches(doc0)[k][m][1] = g[1] /\ Branches(doc0)[k][m][2] <= g[2]

WellBranched(doc0, n) ==
  /\ InOrder(Branches(doc0)[n], n)
  /\ \A m \in DOMAIN Branches(doc0)[n] : Since(doc0, Branches(doc0)[n][m], n)

\* A directive keeps the groups in the order of their first lines.
LEMMA InOrderKept ==
  ASSUME NEW b, NEW c \in Groups, NEW n \in Nat, InOrder(b, n),
         Opens(b, c, n + 1) \/ Turns(b, c) \/ Closes(b, c) \/ c = b
  PROVE  InOrder(c, n + 1)
<1>1. b \in Groups
  BY DEF InOrder
<1>2. /\ Len(b) \in Nat /\ DOMAIN b = 1 .. Len(b) /\ Len(c) \in Nat /\ DOMAIN c = 1 .. Len(c)
      /\ \A m \in 1 .. Len(b) : b[m][1] \in Nat
  BY <1>1, GroupsTyped
<1>3. /\ \A m \in 1 .. Len(b) : b[m][1] \in 1 .. n
      /\ \A m, p \in 1 .. Len(b) : m < p => b[m][1] < b[p][1]
  BY <1>2 DEF InOrder
<1>4. SUFFICES /\ \A m \in 1 .. Len(c) : c[m][1] \in 1 .. n + 1
               /\ \A m, p \in 1 .. Len(c) : m < p => c[m][1] < c[p][1]
  BY <1>2 DEF InOrder
<1>5. CASE Opens(b, c, n + 1)
  <2>1. \A m \in 1 .. Len(c) : m \in 1 .. Len(b) \/ m = Len(c)
    BY <1>2, <1>5 DEF Opens
  <2>2. c[Len(c)][1] = n + 1 /\ \A m \in 1 .. Len(b) : c[m][1] = b[m][1]
    BY <1>5 DEF Opens
  <2>3. \A m \in 1 .. Len(c) : c[m][1] \in 1 .. n + 1
    BY <1>3, <2>1, <2>2
  <2>4. ASSUME NEW m \in 1 .. Len(c), NEW p \in 1 .. Len(c), m < p
        PROVE  c[m][1] < c[p][1]
    <3>1. m \in 1 .. Len(b)
      BY <1>2, <1>5, <2>4 DEF Opens
    <3>2. CASE p \in 1 .. Len(b)
      BY <1>3, <2>2, <2>4, <3>1, <3>2
    <3>3. CASE p = Len(c)
      <4>1. b[m][1] < n + 1
        BY <1>3, <3>1
      <4>2. QED
        BY <2>2, <3>1, <3>3, <4>1
    <3>4. QED
      BY <2>1, <3>2, <3>3
  <2>5. QED
    BY <2>3, <2>4
<1>6. ASSUME \A m \in 1 .. Len(c) : m \in 1 .. Len(b) /\ c[m][1] = b[m][1]
      PROVE  /\ \A m \in 1 .. Len(c) : c[m][1] \in 1 .. n + 1
             /\ \A m, p \in 1 .. Len(c) : m < p => c[m][1] < c[p][1]
  BY <1>2, <1>3, <1>6
<1>7. CASE Turns(b, c)
  <2>1. Len(c) = Len(b) /\ c[Len(c)][1] = b[Len(b)][1] /\ \A m \in 1 .. Len(b) - 1 : c[m] = b[m]
    BY <1>7 DEF Turns
  <2>2. \A m \in 1 .. Len(b) : m \in 1 .. Len(b) - 1 \/ m = Len(b)
    <3>1. PICK l \in Nat : l = Len(b)
      BY <1>2
    <3>2. \A m \in 1 .. l : m \in 1 .. l - 1 \/ m = l
      OBVIOUS
    <3>3. QED
      BY <3>1, <3>2, Zenon
  <2>3. \A m \in 1 .. Len(c) : m \in 1 .. Len(b) /\ c[m][1] = b[m][1]
    BY <2>1, <2>2
  <2>4. QED
    BY <1>6, <2>3
<1>8. CASE Closes(b, c)
  <2>1. Len(c) = Len(b) - 1 /\ \A m \in 1 .. Len(c) : c[m] = b[m]
    BY <1>8 DEF Closes
  <2>2. \A m \in 1 .. Len(c) : m \in 1 .. Len(b) /\ c[m][1] = b[m][1]
    BY <1>2, <2>1
  <2>3. QED
    BY <1>6, <2>2
<1>9. CASE c = b
  BY <1>6, <1>9
<1>10. QED
  BY <1>5, <1>7, <1>8, <1>9

\* What holds since a group was opened still holds after one more line.
LEMMA SinceKept ==
  ASSUME NEW doc0, NEW n \in Nat, NEW b, NEW c, b = Branches(doc0)[n], c = Branches(doc0)[n + 1],
         InOrder(b, n), c \in Groups,
         \A m \in DOMAIN b : Since(doc0, b[m], n),
         Opens(b, c, n + 1) \/ Turns(b, c) \/ Closes(b, c) \/ c = b,
         NEW p \in DOMAIN c
  PROVE  Since(doc0, c[p], n + 1)
<1>1. b \in Groups
  BY DEF InOrder
<1>2. /\ Len(b) \in Nat /\ DOMAIN b = 1 .. Len(b) /\ Len(c) \in Nat /\ DOMAIN c = 1 .. Len(c)
      /\ \A m \in 1 .. Len(b) : b[m][1] \in Nat /\ b[m][2] \in Nat
      /\ c[p] \in Nat \X Nat /\ c[p][1] \in Nat /\ c[p][2] \in Nat
  BY <1>1, GroupsTyped
<1>3. /\ c[p][1] = c[p][1] /\ c[p][2] <= c[p][2]
  BY <1>2
<1>4. ASSUME NEW m \in DOMAIN b, b[m][1] = c[p][1], b[m][2] <= c[p][2]
      PROVE  Since(doc0, c[p], n + 1)
  <2>1. Since(doc0, b[m], n)
    OBVIOUS
  <2>2. SUFFICES ASSUME NEW k \in c[p][1] .. n + 1
                 PROVE  \E q \in DOMAIN Branches(doc0)[k] :
                          /\ Branches(doc0)[k][q] \in Nat \X Nat
                          /\ Branches(doc0)[k][q][1] = c[p][1] /\ Branches(doc0)[k][q][2] <= c[p][2]
    BY DEF Since
  <2>3. CASE k = n + 1
    BY <1>2, <1>3, <2>3
  <2>4. CASE k # n + 1
    <3>1. k \in b[m][1] .. n
      BY <1>2, <1>4, <2>4
    <3>2. PICK q \in DOMAIN Branches(doc0)[k] : /\ Branches(doc0)[k][q] \in Nat \X Nat
                                                /\ Branches(doc0)[k][q][1] = b[m][1] /\ Branches(doc0)[k][q][2] <= b[m][2]
      BY <2>1, <3>1 DEF Since
    <3>3. PICK x : x = Branches(doc0)[k][q]
      OBVIOUS
    <3>4. x[2] \in Nat /\ x[2] <= b[m][2] /\ b[m][2] \in Nat
      BY <1>2, <3>2, <3>3
    <3>5. x[2] <= c[p][2]
      <4>1. PICK y, z : y = c[p][2] /\ z = b[m][2]
        OBVIOUS
      <4>2. x[2] \in Nat /\ x[2] <= z /\ z \in Nat /\ y \in Nat /\ z <= y
        BY <1>2, <1>4, <3>4, <4>1
      <4>3. x[2] <= y
        BY <4>2
      <4>4. QED
        BY <4>1, <4>3
    <3>6. QED
      BY <1>4, <3>2, <3>3, <3>5
  <2>5. QED
    BY <2>3, <2>4
<1>5. CASE Opens(b, c, n + 1)
  <2>1. CASE p \in 1 .. Len(b)
    <3>1. c[p] = b[p] /\ p \in DOMAIN b
      BY <1>2, <1>5, <2>1 DEF Opens
    <3>2. QED
      BY <1>3, <1>4, <3>1
  <2>2. CASE p = Len(c)
    <3>1. c[p][1] = n + 1
      BY <1>5, <2>2 DEF Opens
    <3>2. \A k \in c[p][1] .. n + 1 : k = n + 1
      BY <3>1
    <3>3. QED
      BY <1>2, <1>3, <3>2 DEF Since
  <2>3. QED
    BY <1>2, <1>5, <2>1, <2>2 DEF Opens
<1>6. CASE Turns(b, c)
  <2>1. /\ Len(c) = Len(b) /\ Len(b) > 0 /\ c[Len(c)] = <<b[Len(b)][1], b[Len(b)][2] + 1>>
        /\ \A m \in 1 .. Len(b) - 1 : c[m] = b[m]
    BY <1>6 DEF Turns
  <2>2. CASE p \in 1 .. Len(b) - 1
    <3>1. c[p] = b[p] /\ p \in DOMAIN b
      BY <1>2, <2>1, <2>2
    <3>2. QED
      BY <1>3, <1>4, <3>1
  <2>3. CASE p = Len(b)
    <3>1. p \in DOMAIN b /\ b[p][1] = c[p][1] /\ c[p][2] = b[p][2] + 1 /\ b[p][2] \in Nat
      BY <1>2, <2>1, <2>3
    <3>2. b[p][2] <= c[p][2]
      BY <3>1
    <3>3. QED
      BY <1>4, <3>1, <3>2
  <2>4. QED
    BY <1>2, <2>1, <2>2, <2>3
<1>7. CASE Closes(b, c)
  <2>1. Len(c) = Len(b) - 1 /\ \A m \in 1 .. Len(c) : c[m] = b[m]
    BY <1>7 DEF Closes
  <2>2. c[p] = b[p] /\ p \in DOMAIN b
    BY <1>2, <2>1, SMTT(30)
  <2>3. QED
    BY <1>3, <1>4, <2>2
<1>8. CASE c = b
  BY <1>3, <1>4, <1>8
<1>9. QED
  BY <1>5, <1>6, <1>7, <1>8

\* The groups of every line are in the order of their lines, and have been open since.
LEMMA AlwaysWellBranched ==
  ASSUME NEW doc0, NumLines(doc0) \in Nat
  PROVE  \A n \in 0 .. NumLines(doc0) : WellBranched(doc0, n)
<1> DEFINE T == {n \in Nat : n <= NumLines(doc0) => WellBranched(doc0, n)}
<1>1. 0 \in T
  <2>1. Branches(doc0)[0] = << >>
    BY BranchesDef
  <2>2. << >> \in Groups /\ DOMAIN << >> = {}
    BY DEF Groups
  <2>3. WellBranched(doc0, 0)
    BY <2>1, <2>2 DEF WellBranched, InOrder
  <2>4. QED
    BY <2>3
<1>2. ASSUME NEW n \in T
      PROVE  n + 1 \in T
  <2>1. SUFFICES ASSUME n + 1 <= NumLines(doc0)
                 PROVE  WellBranched(doc0, n + 1)
    OBVIOUS
  <2>2. PICK b, c, dir : b = Branches(doc0)[n] /\ c = Branches(doc0)[n + 1] /\ dir = doc0.elided[n + 1].dir
    OBVIOUS
  <2>3. n \in Nat /\ n + 1 \in Nat /\ n + 1 \in 0 .. NumLines(doc0) /\ n + 1 # 0 /\ n + 1 - 1 = n /\ n <= NumLines(doc0)
    BY <2>1
  <2>4. c = Branched(b, dir, n + 1)
    BY <2>2, <2>3, BranchesDef
  <2>5. InOrder(b, n) /\ \A m \in DOMAIN b : Since(doc0, b[m], n)
    BY <2>2, <2>3 DEF WellBranched
  <2>6. b \in Groups
    BY <2>5 DEF InOrder
  <2>7. c \in Groups /\ (Opens(b, c, n + 1) \/ Turns(b, c) \/ Closes(b, c) \/ c = b)
    <3>1. /\ c \in Groups
          /\ IfDir(dir) => Opens(b, c, n + 1)
          /\ ElseDir(dir) /\ b # << >> => Turns(b, c)
          /\ EndDir(dir) /\ b # << >> => Closes(b, c)
          /\ ~IfDir(dir) /\ ~(b # << >> /\ (ElseDir(dir) \/ EndDir(dir))) => c = b
      BY <2>3, <2>4, <2>6, BranchedShape
    <3>2. QED
      BY <3>1
  <2>8. InOrder(c, n + 1)
    BY <2>3, <2>5, <2>7, InOrderKept
  <2>9. \A p \in DOMAIN c : Since(doc0, c[p], n + 1)
    BY <2>2, <2>3, <2>5, <2>7, SinceKept
  <2>10. QED
    BY <2>2, <2>8, <2>9 DEF WellBranched
<1>3. T = Nat
  BY <1>1, <1>2, AllNumbers
<1>4. QED
  BY <1>3

------------------------------------------------------------------------------
(* Which lines count. *)

\* A line is live in the branches that are being read at it.
LEMMA LiveInItself ==
  ASSUME NEW doc0, NEW k
  PROVE  Live(doc0, ToSet(Branches(doc0)[k]), k)
BY DEF Live

\* A group that was not among those that are open joins them in its first branch,
\* or after the line.
LEMMA LiveWithGroup ==
  ASSUME NEW doc0, NEW k, NEW now, NEW g0, \A h \in now : h[1] # g0[1],
         \A g \in ToSet(Branches(doc0)[k]) : g[1] = g0[1] => (g[2] = 0 <=> g = g0)
  PROVE  Live(doc0, now \cup {g0}, k) <=> Live(doc0, now, k)
<1>1. ASSUME NEW g \in ToSet(Branches(doc0)[k])
      PROVE  (IF \E h \in now \cup {g0} : h[1] = g[1] THEN g \in now \cup {g0} ELSE g[2] = 0)
             <=> (IF \E h \in now : h[1] = g[1] THEN g \in now ELSE g[2] = 0)
  <2>1. CASE g[1] = g0[1]
    BY <2>1
  <2>2. CASE g[1] # g0[1]
    BY <2>2
  <2>3. QED
    BY <2>1, <2>2
<1>2. QED
  BY <1>1 DEF Live

\* A line of another branch than the one that is read does not count.
LEMMA DeadInGroup ==
  ASSUME NEW doc0, NEW k, NEW now, NEW g0 \in now, \A h \in now : h[1] = g0[1] => h = g0,
         NEW g \in ToSet(Branches(doc0)[k]), g[1] = g0[1], g[2] # g0[2]
  PROVE  ~Live(doc0, now, k)
BY DEF Live

\* Nor does a line of a later branch of a group that has ended.
LEMMA DeadAfterGroup ==
  ASSUME NEW doc0, NEW k, NEW now,
         NEW g \in ToSet(Branches(doc0)[k]), \A h \in now : h[1] # g[1], g[2] # 0
  PROVE  ~Live(doc0, now, k)
BY DEF Live

\* The blocks depend on which lines count alone.
LEMMA SameBlocks ==
  ASSUME NEW doc0, NumLines(doc0) \in Nat, NEW now, NEW then, NEW n \in 0 .. NumLines(doc0),
         \A k \in 1 .. n : Live(doc0, now, k) <=> Live(doc0, then, k)
  PROVE  BlocksOf(doc0, now)[n] = BlocksOf(doc0, then)[n]
<1> DEFINE T == {k \in Nat : k <= n => BlocksOf(doc0, now)[k] = BlocksOf(doc0, then)[k]}
<1>1. 0 \in T
  BY BlocksDef
<1>2. ASSUME NEW k \in T
      PROVE  k + 1 \in T
  <2>1. SUFFICES ASSUME k + 1 <= n
                 PROVE  BlocksOf(doc0, now)[k + 1] = BlocksOf(doc0, then)[k + 1]
    OBVIOUS
  <2>2. /\ k + 1 \in 0 .. NumLines(doc0) /\ k + 1 \in 1 .. n /\ k + 1 # 0 /\ k + 1 - 1 = k
        /\ BlocksOf(doc0, now)[k] = BlocksOf(doc0, then)[k]
    BY <2>1
  <2>3. /\ BlocksOf(doc0, now)[k + 1] = BlocksStep(BlocksOf(doc0, now)[k], doc0, now, k + 1)
        /\ BlocksOf(doc0, then)[k + 1] = BlocksStep(BlocksOf(doc0, then)[k], doc0, then, k + 1)
    BY <2>2, BlocksDef
  <2>4. Live(doc0, now, k + 1) <=> Live(doc0, then, k + 1)
    BY <2>2
  <2>5. QED
    BY <2>2, <2>3, <2>4 DEF BlocksStep
<1>3. T = Nat
  BY <1>1, <1>2, AllNumbers
<1>4. QED
  BY <1>3

\* Lines that do not count leave the blocks alone.
LEMMA DeadLines ==
  ASSUME NEW doc0, NumLines(doc0) \in Nat, NEW now, NEW n \in 0 .. NumLines(doc0), NEW m \in 0 .. n,
         \A k \in m + 1 .. n : ~Live(doc0, now, k)
  PROVE  BlocksOf(doc0, now)[n] = BlocksOf(doc0, now)[m]
<1> DEFINE T == {k \in Nat : m + k <= n => BlocksOf(doc0, now)[m + k] = BlocksOf(doc0, now)[m]}
<1>1. 0 \in T
  OBVIOUS
<1>2. ASSUME NEW k \in T
      PROVE  k + 1 \in T
  <2>1. SUFFICES ASSUME m + (k + 1) <= n
                 PROVE  BlocksOf(doc0, now)[m + (k + 1)] = BlocksOf(doc0, now)[m]
    OBVIOUS
  <2>2. PICK q : q = m + (k + 1)
    OBVIOUS
  <2>3. /\ q \in 0 .. NumLines(doc0) /\ q \in m + 1 .. n /\ q # 0 /\ q - 1 = m + k
        /\ BlocksOf(doc0, now)[m + k] = BlocksOf(doc0, now)[m]
    BY <2>1, <2>2
  <2>4. BlocksOf(doc0, now)[q] = BlocksStep(BlocksOf(doc0, now)[q - 1], doc0, now, q)
    BY <2>3, BlocksDef
  <2>5. QED
    BY <2>2, <2>3, <2>4 DEF BlocksStep
<1>3. T = Nat
  BY <1>1, <1>2, AllNumbers
<1>4. n - m \in Nat /\ m + (n - m) = n /\ m + (n - m) <= n
  OBVIOUS
<1>5. n - m \in T
  BY <1>3, <1>4, Zenon
<1>6. BlocksOf(doc0, now)[m + (n - m)] = BlocksOf(doc0, now)[m]
  BY <1>4, <1>5
<1>7. QED
  BY <1>4, <1>6, Zenon

------------------------------------------------------------------------------
(* The checkpoints. *)

\* The groups around the innermost one, before and after a directive.
LEMMA OuterFacts ==
  ASSUME NEW b \in Groups, NEW c \in Groups, NEW n \in Nat
  PROVE  /\ Len(b) > 0 => ToSet(b) = Outer(b, Len(b)) \cup {b[Len(b)]}
         /\ Opens(b, c, n) => Outer(c, Len(c)) = ToSet(b)
         /\ Turns(b, c) => Outer(c, Len(c)) = Outer(b, Len(b))
         /\ Closes(b, c) => ToSet(c) = Outer(b, Len(b))
         /\ \A m \in 1 .. Len(b) : (\A p \in 1 .. m : c[p] = b[p]) => Outer(c, m) = Outer(b, m)
<1>1. /\ Len(b) \in Nat /\ DOMAIN b = 1 .. Len(b) /\ Len(c) \in Nat /\ DOMAIN c = 1 .. Len(c)
  BY GroupsTyped
<1>2. /\ ToSet(b) = {b[p] : p \in 1 .. Len(b)} /\ ToSet(c) = {c[p] : p \in 1 .. Len(c)}
  BY <1>1 DEF ToSet
<1>3. ASSUME Len(b) > 0
      PROVE  ToSet(b) = Outer(b, Len(b)) \cup {b[Len(b)]}
  <2>1. \A p \in 1 .. Len(b) : p \in 1 .. Len(b) - 1 \/ p = Len(b)
    <3>1. PICK l \in Nat : l = Len(b)
      BY <1>1
    <3>2. \A p \in 1 .. l : p \in 1 .. l - 1 \/ p = l
      OBVIOUS
    <3>3. QED
      BY <3>1, <3>2, Zenon
  <2>2. Len(b) \in 1 .. Len(b) /\ 1 .. Len(b) - 1 \subseteq 1 .. Len(b)
    BY <1>1, <1>3
  <2>3. QED
    BY <1>2, <2>1, <2>2 DEF Outer
<1>4. ASSUME Opens(b, c, n)
      PROVE  Outer(c, Len(c)) = ToSet(b)
  <2>1. 1 .. Len(c) - 1 = 1 .. Len(b) /\ \A p \in 1 .. Len(b) : c[p] = b[p]
    BY <1>1, <1>4 DEF Opens
  <2>2. QED
    BY <1>2, <2>1 DEF Outer
<1>5. ASSUME Turns(b, c)
      PROVE  Outer(c, Len(c)) = Outer(b, Len(b))
  <2>1. Len(c) = Len(b) /\ \A p \in 1 .. Len(b) - 1 : c[p] = b[p]
    BY <1>5 DEF Turns
  <2>2. QED
    BY <2>1 DEF Outer
<1>6. ASSUME Closes(b, c)
      PROVE  ToSet(c) = Outer(b, Len(b))
  <2>1. Len(c) = Len(b) - 1 /\ \A p \in 1 .. Len(c) : c[p] = b[p]
    BY <1>6 DEF Closes
  <2>2. QED
    BY <1>2, <2>1 DEF Outer
<1>7. ASSUME NEW m \in 1 .. Len(b), \A p \in 1 .. m : c[p] = b[p]
      PROVE  Outer(c, m) = Outer(b, m)
  <2>1. \A p \in 1 .. m - 1 : c[p] = b[p]
    BY <1>1, <1>7
  <2>2. QED
    BY <2>1 DEF Outer
<1>8. QED
  BY <1>3, <1>4, <1>5, <1>6, <1>7

\* The groups outside another are of earlier lines.
LEMMA OuterIsBefore ==
  ASSUME NEW n \in Nat, NEW b, InOrder(b, n), NEW m \in 1 .. Len(b), NEW h \in Outer(b, m)
  PROVE  h[1] # b[m][1]
<1>1. b \in Groups
  BY DEF InOrder
<1>2. Len(b) \in Nat /\ DOMAIN b = 1 .. Len(b) /\ \A p \in 1 .. Len(b) : b[p][1] \in Nat
  BY <1>1, GroupsTyped
<1>3. PICK p \in 1 .. m - 1 : h = b[p]
  BY DEF Outer
<1>4. p \in 1 .. Len(b) /\ p < m
  BY <1>2
<1>5. b[p][1] < b[m][1] /\ b[p][1] \in Nat /\ b[m][1] \in Nat
  BY <1>2, <1>4 DEF InOrder
<1>6. PICK x, y : x = b[p][1] /\ y = b[m][1]
  OBVIOUS
<1>7. x # y
  BY <1>5, <1>6
<1>8. QED
  BY <1>3, <1>6, <1>7

\* A checkpoint of a group that the line leaves alone.
LEMMA CheckpointKept ==
  ASSUME NEW doc0, NumLines(doc0) \in Nat, NEW n \in 0 .. NumLines(doc0), n + 1 <= NumLines(doc0),
         NEW b, NEW c, b = Branches(doc0)[n], c = Branches(doc0)[n + 1],
         NEW m \in 1 .. Len(b), m <= Len(c), \A p \in 1 .. m : c[p] = b[p],
         NEW info, Checkpoint(doc0, info, b, m, n)
  PROVE  Checkpoint(doc0, info, c, m, n + 1)
<1>1. n \in Nat /\ n + 1 \in Nat /\ n + 1 \in 0 .. NumLines(doc0) /\ n + 1 # 0 /\ n + 1 - 1 = n
  OBVIOUS
<1>2. WellBranched(doc0, n) /\ WellBranched(doc0, n + 1)
  BY <1>1, AlwaysWellBranched
<1>3. InOrder(c, n + 1) /\ b \in Groups /\ c \in Groups
  BY <1>2 DEF WellBranched, InOrder
<1>4. Len(b) \in Nat /\ Len(c) \in Nat /\ DOMAIN c = 1 .. Len(c)
  BY <1>3, GroupsTyped
<1>5. m \in 1 .. Len(c) /\ m \in 1 .. m /\ c[m] = b[m]
  BY <1>4
<1>6. Outer(c, m) = Outer(b, m)
  BY <1>1, <1>3, OuterFacts
<1>7. ASSUME info.seen_else
      PROVE  BlocksOf(doc0, Outer(c, m))[n + 1] = BlocksOf(doc0, Outer(c, m))[n]
  <2>1. c[m][2] # 0
    BY <1>5, <1>7 DEF Checkpoint
  <2>2. c[m] \in ToSet(Branches(doc0)[n + 1])
    BY <1>4, <1>5 DEF ToSet
  <2>3. \A h \in Outer(c, m) : h[1] # c[m][1]
    BY <1>1, <1>3, <1>5, OuterIsBefore
  <2>4. ~Live(doc0, Outer(c, m), n + 1)
    BY <2>1, <2>2, <2>3, DeadAfterGroup
  <2>5. BlocksOf(doc0, Outer(c, m))[n + 1] = BlocksStep(BlocksOf(doc0, Outer(c, m))[n], doc0, Outer(c, m), n + 1)
    BY <1>1, BlocksDef
  <2>6. QED
    BY <2>4, <2>5 DEF BlocksStep
<1>8. QED
  BY <1>5, <1>6, <1>7 DEF Checkpoint

\* The blocks of the text without the later branches of the last group: what an
\* #else keeps, and what an #endif restores.
LEMMA FirstBranch ==
  ASSUME NEW doc0, NumLines(doc0) \in Nat, NEW n \in 0 .. NumLines(doc0),
         NEW ns, Checkpoints(doc0, ns, n), NEW b, b = Branches(doc0)[n], Len(b) > 0,
         NEW top, top = ns.pp_stack[Len(b)]
  PROVE  (IF top.seen_else THEN top.stack_before_else ELSE ns.stack) = BlocksOf(doc0, Outer(b, Len(b)))[n]
<1>1. WellBranched(doc0, n) /\ n \in Nat
  BY AlwaysWellBranched
<1>2. InOrder(b, n) /\ b \in Groups
  BY <1>1 DEF WellBranched, InOrder
<1>3. /\ Len(b) \in Nat /\ Len(b) \in 1 .. Len(b) /\ DOMAIN b = 1 .. Len(b)
      /\ b[Len(b)] \in Nat \X Nat
  BY <1>2, GroupsTyped
<1>4. Checkpoint(doc0, top, b, Len(b), n) /\ ns.stack = BlocksOf(doc0, ToSet(b))[n]
  BY <1>3 DEF Checkpoints
<1>5. CASE top.seen_else
  BY <1>4, <1>5 DEF Checkpoint
<1>6. CASE ~top.seen_else
  <2>1. PICK g0, outer : g0 = b[Len(b)] /\ outer = Outer(b, Len(b))
    OBVIOUS
  <2>2. g0 \in Nat \X Nat /\ g0[2] = 0 /\ g0 = <<g0[1], 0>>
    BY <1>3, <1>4, <1>6, <2>1 DEF Checkpoint
  <2>3. \A h \in outer : h[1] # g0[1]
    BY <1>1, <1>2, <1>3, <2>1, OuterIsBefore
  <2>4. ToSet(b) = outer \cup {g0}
    BY <1>1, <1>2, <1>3, <2>1, OuterFacts
  <2>5. ASSUME NEW k \in 1 .. n
        PROVE  Live(doc0, outer \cup {g0}, k) <=> Live(doc0, outer, k)
    <3>1. k \in 0 .. NumLines(doc0)
      OBVIOUS
    <3>2. Branches(doc0)[k] \in Groups
      BY <3>1, AlwaysWellBranched DEF WellBranched, InOrder
    <3>3. ASSUME NEW g \in ToSet(Branches(doc0)[k]), g[1] = g0[1]
          PROVE  g[2] = 0 <=> g = g0
      <4>1. g \in Nat \X Nat
        BY <3>2, GroupsTyped DEF ToSet
      <4>2. g = <<g[1], g[2]>>
        BY <4>1
      <4>3. QED
        BY <2>2, <3>3, <4>2
    <3>4. QED
      BY <2>3, <3>3, LiveWithGroup
  <2>6. BlocksOf(doc0, outer \cup {g0})[n] = BlocksOf(doc0, outer)[n]
    <3>1. PICK now : now = outer \cup {g0}
      OBVIOUS
    <3>2. \A k \in 1 .. n : Live(doc0, now, k) <=> Live(doc0, outer, k)
      BY <2>5, <3>1
    <3>3. BlocksOf(doc0, now)[n] = BlocksOf(doc0, outer)[n]
      BY <3>2, SameBlocks
    <3>4. QED
      BY <3>1, <3>3
  <2>7. QED
    BY <1>4, <1>6, <2>1, <2>4, <2>6
<1>7. QED
  BY <1>5, <1>6

\* The blocks of the text without the earlier branches of the last group: what an
\* #else goes on with.
LEMMA NextBranch ==
  ASSUME NEW doc0, NumLines(doc0) \in Nat, NEW n \in 0 .. NumLines(doc0), n + 1 <= NumLines(doc0),
         NEW b, NEW c, b = Branches(doc0)[n], c = Branches(doc0)[n + 1], Turns(b, c)
  PROVE  BlocksOf(doc0, ToSet(c))[n] = BlocksOf(doc0, Outer(b, Len(b)))[b[Len(b)][1] - 1]
<1>1. WellBranched(doc0, n) /\ WellBranched(doc0, n + 1) /\ n \in Nat /\ n + 1 \in Nat
  BY AlwaysWellBranched
<1>2. InOrder(b, n) /\ InOrder(c, n + 1) /\ b \in Groups /\ c \in Groups
  BY <1>1 DEF WellBranched, InOrder
<1>3. /\ Len(b) > 0 /\ Len(c) = Len(b)
      /\ c[Len(c)] = <<b[Len(b)][1], b[Len(b)][2] + 1>>
  BY DEF Turns
<1>4. /\ Len(b) \in Nat /\ Len(b) \in 1 .. Len(b) /\ DOMAIN b = 1 .. Len(b)
      /\ b[Len(b)][1] \in Nat /\ b[Len(b)][2] \in Nat
  BY <1>2, <1>3, GroupsTyped
<1>5. PICK g0, outer, line, turns : /\ g0 = c[Len(c)] /\ outer = Outer(b, Len(b))
                                    /\ line = b[Len(b)][1] /\ turns = b[Len(b)][2]
  OBVIOUS
<1>6. line \in Nat /\ turns \in Nat /\ g0 = <<line, turns + 1>> /\ g0[1] = line /\ g0[2] = turns + 1
  BY <1>3, <1>4, <1>5
<1>7. line \in 1 .. n
  BY <1>2, <1>4, <1>5 DEF InOrder
<1>8. ToSet(c) = outer \cup {g0} /\ outer = Outer(c, Len(c))
  BY <1>1, <1>2, <1>3, <1>5, OuterFacts
<1>9. \A h \in outer : h[1] # line
  <2>1. Len(c) \in 1 .. Len(c) /\ c[Len(c)][1] = line
    BY <1>3, <1>4, <1>5, <1>6
  <2>2. QED
    BY <1>1, <1>2, <1>8, <2>1, OuterIsBefore
<1>10. ASSUME NEW k \in 1 .. line - 1
       PROVE  Live(doc0, outer \cup {g0}, k) <=> Live(doc0, outer, k)
  <2>1. k \in 0 .. NumLines(doc0)
    BY <1>7
  <2>2. InOrder(Branches(doc0)[k], k) /\ Branches(doc0)[k] \in Groups
    BY <2>1, AlwaysWellBranched DEF WellBranched, InOrder
  <2>3. ASSUME NEW g \in ToSet(Branches(doc0)[k])
        PROVE  g[1] # g0[1]
    <3>1. g[1] \in 1 .. k
      BY <2>2 DEF InOrder, ToSet
    <3>2. QED
      BY <1>6, <1>7, <3>1
  <2>4. QED
    BY <1>6, <1>9, <2>3, LiveWithGroup
<1>11. BlocksOf(doc0, outer \cup {g0})[line - 1] = BlocksOf(doc0, outer)[line - 1]
  <2>1. line - 1 \in 0 .. NumLines(doc0)
    BY <1>7
  <2>2. QED
    <3>1. PICK now : now = outer \cup {g0}
      OBVIOUS
    <3>2. \A k \in 1 .. line - 1 : Live(doc0, now, k) <=> Live(doc0, outer, k)
      BY <1>10, <3>1
    <3>3. BlocksOf(doc0, now)[line - 1] = BlocksOf(doc0, outer)[line - 1]
      BY <2>1, <3>2, SameBlocks
    <3>4. QED
      BY <3>1, <3>3
<1>12. ASSUME NEW k \in (line - 1) + 1 .. n
       PROVE  ~Live(doc0, outer \cup {g0}, k)
  <2>1. k \in line .. n /\ (line - 1) + 1 = line
    BY <1>7
  <2>2. Since(doc0, b[Len(b)], n)
    BY <1>1, <1>4 DEF WellBranched
  <2>3. PICK q \in DOMAIN Branches(doc0)[k] : /\ Branches(doc0)[k][q] \in Nat \X Nat
                                              /\ Branches(doc0)[k][q][1] = line /\ Branches(doc0)[k][q][2] <= turns
    BY <1>5, <2>1, <2>2 DEF Since
  <2>4. PICK g : g = Branches(doc0)[k][q]
    OBVIOUS
  <2>5. g \in ToSet(Branches(doc0)[k])
    BY <2>4 DEF ToSet
  <2>6. g[1] = line /\ g[2] \in Nat /\ g[2] <= turns
    BY <2>3, <2>4
  <2>7. g[2] # g0[2]
    BY <1>6, <2>6
  <2>8. \A h \in outer \cup {g0} : h[1] = g0[1] => h = g0
    BY <1>6, <1>9
  <2>9. QED
    BY <1>6, <2>5, <2>6, <2>7, <2>8, DeadInGroup
<1>13. BlocksOf(doc0, outer \cup {g0})[n] = BlocksOf(doc0, outer \cup {g0})[line - 1]
  <2>1. line - 1 \in 0 .. n
    BY <1>7
  <2>2. QED
    BY <1>12, <2>1, DeadLines
<1>14. QED
  BY <1>5, <1>8, <1>11, <1>13

------------------------------------------------------------------------------
(* One line. *)

Turned(top, stack) == [top EXCEPT !.seen_else = TRUE, !.stack_before_else = SavedBeforeElse(top, stack)]

\* The stack and the checkpoints that a directive leaves for the rest of the line.
Preprocessed(ns, dir, start, pp) ==
  /\ IfDir(dir) => start = ns.stack /\ pp = Append(ns.pp_stack, _PreprocessorInfo(ns.stack))
  /\ ElseDir(dir) /\ ns.pp_stack # << >> =>
       start = Top(ns.pp_stack).stack_before_if /\ pp = Append(Pop(ns.pp_stack), Turned(Top(ns.pp_stack), ns.stack))
  /\ EndDir(dir) /\ ns.pp_stack # << >> =>
       /\ start = IF Top(ns.pp_stack).seen_else THEN Top(ns.pp_stack).stack_before_else ELSE ns.stack
       /\ pp = Pop(ns.pp_stack)
  /\ ~IfDir(dir) /\ ~(ns.pp_stack # << >> /\ (ElseDir(dir) \/ EndDir(dir))) => start = ns.stack /\ pp = ns.pp_stack

\* What Update makes of the state: UpdatePreprocessor first, then the braces of the line.
Shaped(st, ns, doc0, k) ==
  \E start, pp, prev : /\ Preprocessed(ns, doc0.elided[k].dir, start, pp)
                       /\ st = [stack |-> UpdateBlocks(start, doc0, k).stack, previous_stack_top |-> prev, pp_stack |-> pp]

\* UpdatePreprocessor, and then the braces of the line: what Update makes of the state.
LEMMA UpdateShape ==
  ASSUME NEW ns, NEW x, NEW y, NEW z, ns = [stack |-> x, previous_stack_top |-> y, pp_stack |-> z],
         NEW doc0, NEW k, NEW st, st = Update(ns, doc0, k).state
  PROVE  Shaped(st, ns, doc0, k)
<1>1. PICK l, dir, cp : l = doc0.elided[k] /\ dir = l.dir /\ cp = UpdatePreprocessor(ns, l)
  OBVIOUS
<1>2. ns.stack = x /\ ns.pp_stack = z
  OBVIOUS
<1>3. \E start, pp : Preprocessed(ns, dir, start, pp) /\ cp = [stack |-> start, previous_stack_top |-> y, pp_stack |-> pp]
  <2>1. CASE IfDir(dir)
    <3>1. cp = [ns EXCEPT !.pp_stack = Append(z, _PreprocessorInfo(x))]
      BY <1>1, <1>2, <2>1 DEF UpdatePreprocessor, IfDir
    <3>2. PICK pp : pp = Append(z, _PreprocessorInfo(x))
      OBVIOUS
    <3>3. cp = [stack |-> x, previous_stack_top |-> y, pp_stack |-> pp]
      BY <3>1, <3>2
    <3>4. Preprocessed(ns, dir, x, pp)
      BY <1>2, <2>1, <3>2 DEF Preprocessed, IfDir, ElseDir, EndDir
    <3>5. QED
      BY <3>3, <3>4
  <2>2. CASE ElseDir(dir) /\ z # << >>
    <3>1. cp = [ns EXCEPT !.stack = Top(z).stack_before_if, !.pp_stack = Append(Pop(z), Turned(Top(z), x))]
      BY <1>1, <1>2, <2>2 DEF UpdatePreprocessor, ElseDir, Turned
    <3>2. PICK start, pp : start = Top(z).stack_before_if /\ pp = Append(Pop(z), Turned(Top(z), x))
      OBVIOUS
    <3>3. cp = [stack |-> start, previous_stack_top |-> y, pp_stack |-> pp]
      BY <3>1, <3>2
    <3>4. Preprocessed(ns, dir, start, pp)
      BY <1>2, <2>2, <3>2 DEF Preprocessed, IfDir, ElseDir, EndDir
    <3>5. QED
      BY <3>3, <3>4
  <2>3. CASE EndDir(dir) /\ z # << >>
    <3>1. PICK start, pp : /\ start = IF Top(z).seen_else THEN Top(z).stack_before_else ELSE x
                           /\ pp = Pop(z)
      OBVIOUS
    <3>2. cp = [ns EXCEPT !.stack = start, !.pp_stack = pp]
      BY <1>1, <1>2, <2>3, <3>1 DEF UpdatePreprocessor, EndDir
    <3>3. cp = [stack |-> start, previous_stack_top |-> y, pp_stack |-> pp]
      BY <3>2
    <3>4. Preprocessed(ns, dir, start, pp)
      BY <1>2, <2>3, <3>1 DEF Preprocessed, IfDir, ElseDir, EndDir
    <3>5. QED
      BY <3>3, <3>4
  <2>4. CASE ~IfDir(dir) /\ ~(z # << >> /\ (ElseDir(dir) \/ EndDir(dir)))
    <3>1. cp = ns
      BY <1>1, <1>2, <2>4 DEF UpdatePreprocessor, IfDir, ElseDir, EndDir
    <3>2. Preprocessed(ns, dir, x, z)
      BY <1>2, <2>4 DEF Preprocessed
    <3>3. QED
      BY <3>1, <3>2
  <2>5. QED
    BY <2>1, <2>2, <2>3, <2>4
<1>4. PICK start, pp : Preprocessed(ns, dir, start, pp) /\ cp = [stack |-> start, previous_stack_top |-> y, pp_stack |-> pp]
  BY <1>3
<1>5. PICK prev, stack : /\ prev = IF ns.stack = << >> THEN << >> ELSE <<Top(ns.stack)>>
                         /\ stack = UpdateBlocks(start, doc0, k).stack
  OBVIOUS
<1>6. Update(ns, doc0, k).state = [cp EXCEPT !.previous_stack_top = prev, !.stack = stack]
  <2>1. cp.stack = start
    BY <1>4
  <2>2. UpdateBlocks(cp.stack, doc0, k).stack = stack
    BY <1>5, <2>1, Zenon
  <2>3. Update(ns, doc0, k).state =
          [cp EXCEPT !.previous_stack_top = IF ns.stack = << >> THEN << >> ELSE <<Top(ns.stack)>>,
                     !.stack = UpdateBlocks(cp.stack, doc0, k).stack]
    BY <1>1, Zenon DEF Update
  <2>4. QED
    BY <1>5, <2>2, <2>3, Zenon
<1>7. Update(ns, doc0, k).state = [stack |-> stack, previous_stack_top |-> prev, pp_stack |-> pp]
  BY <1>4, <1>6
<1>8. Preprocessed(ns, doc0.elided[k].dir, start, pp)
  BY <1>1, <1>4, Zenon
<1>9. st = [stack |-> UpdateBlocks(start, doc0, k).stack, previous_stack_top |-> prev, pp_stack |-> pp]
  BY <1>5, <1>7, Zenon
<1>10. QED
  BY <1>8, <1>9, Zenon DEF Shaped

\* A sequence, in the form that needs no set of its elements.
LEMMA SequenceOf ==
  ASSUME NEW s, NEW n \in Nat, s = [m \in 1 .. n |-> s[m]]
  PROVE  /\ s \in Seq({s[m] : m \in 1 .. n}) /\ Len(s) = n
         /\ s # << >> <=> n > 0
<1>1. \A m \in 1 .. n : s[m] \in {s[p] : p \in 1 .. n}
  OBVIOUS
<1>2. s \in [1 .. n -> {s[m] : m \in 1 .. n}]
  BY <1>1, Zenon
<1>3. s \in Seq({s[m] : m \in 1 .. n}) /\ Len(s) = n
  BY <1>2
<1>4. QED
  BY <1>3

\* A sequence as a function.
LEMMA FormOf ==
  ASSUME NEW S, NEW s \in Seq(S)
  PROVE  s = [m \in 1 .. Len(s) |-> s[m]] /\ Len(s) \in Nat
OBVIOUS

\* A sequence with one more element, and without its last.
LEMMA OneMore ==
  ASSUME NEW s, NEW n \in Nat, s = [m \in 1 .. n |-> s[m]], NEW e
  PROVE  /\ Len(Append(s, e)) = n + 1
         /\ Append(s, e) = [m \in 1 .. n + 1 |-> Append(s, e)[m]]
         /\ \A m \in 1 .. n : Append(s, e)[m] = s[m]
         /\ Append(s, e)[n + 1] = e
<1>1. PICK S : S = {s[m] : m \in 1 .. n} \cup {e}
  OBVIOUS
<1>2. s \in Seq({s[m] : m \in 1 .. n}) /\ Len(s) = n
  BY SequenceOf
<1>3. s \in Seq(S) /\ e \in S
  <2>1. \A m \in 1 .. n : s[m] \in S
    BY <1>1
  <2>2. s \in [1 .. n -> S]
    BY <2>1, Zenon
  <2>3. QED
    BY <1>1, <2>2
<1>4. /\ Append(s, e) \in Seq(S) /\ Len(Append(s, e)) = n + 1
      /\ \A m \in 1 .. n : Append(s, e)[m] = s[m]
      /\ Append(s, e)[n + 1] = e
  BY <1>2, <1>3, AppendProperties
<1>5. n + 1 \in Nat /\ Append(s, e) = [m \in 1 .. n + 1 |-> Append(s, e)[m]]
  BY <1>4, FormOf
<1>6. QED
  BY <1>4, <1>5

\* Pop takes the last element, whatever the elements are.
LEMMA OneLess ==
  ASSUME NEW s, NEW n \in Nat, s = [m \in 1 .. n |-> s[m]], n > 0
  PROVE  /\ Len(Pop(s)) = n - 1
         /\ Pop(s) = [m \in 1 .. n - 1 |-> Pop(s)[m]]
         /\ \A m \in 1 .. n - 1 : Pop(s)[m] = s[m]
<1>1. PICK S : S = {s[m] : m \in 1 .. n}
  OBVIOUS
<1>2. s \in Seq(S) /\ Len(s) = n /\ s # << >>
  BY <1>1, SequenceOf
<1>3. /\ Pop(s) \in Seq(S) /\ Len(Pop(s)) = Len(s) - 1
      /\ \A m \in 1 .. Len(s) - 1 : Pop(s)[m] = s[m]
  BY <1>2, PopIs
<1>4. Len(s) - 1 = n - 1 /\ 1 .. Len(s) - 1 = 1 .. n - 1
  BY <1>2
<1>5. Pop(s) = [m \in 1 .. Len(Pop(s)) |-> Pop(s)[m]]
  BY <1>3, FormOf
<1>6. QED
  BY <1>3, <1>4, <1>5

\* The blocks and the checkpoints that a directive leaves.
AllKept(doc0, pp, c, n) ==
  /\ Len(pp) = Len(c) /\ pp = [m \in 1 .. Len(c) |-> pp[m]]
  /\ \A m \in 1 .. Len(c) : Checkpoint(doc0, pp[m], c, m, n)

\* UpdatePreprocessor keeps every checkpoint: a new one is right, the turn to #else goes back to
\* the blocks before the #if, and #endif to those after its first branch.
LEMMA DirectiveKeeps ==
  ASSUME NEW doc0, NumLines(doc0) \in Nat, NEW n \in 0 .. NumLines(doc0), n + 1 <= NumLines(doc0),
         NEW ns, Checkpoints(doc0, ns, n), NEW b, NEW c, b = Branches(doc0)[n], c = Branches(doc0)[n + 1],
         NEW start, NEW pp, Preprocessed(ns, doc0.elided[n + 1].dir, start, pp)
  PROVE  start = BlocksOf(doc0, ToSet(c))[n] /\ AllKept(doc0, pp, c, n + 1)
<1>1. n \in Nat /\ n + 1 \in Nat /\ n + 1 \in 0 .. NumLines(doc0) /\ n + 1 # 0 /\ n + 1 - 1 = n
  OBVIOUS
<1>2. WellBranched(doc0, n) /\ WellBranched(doc0, n + 1)
  BY <1>1, AlwaysWellBranched
<1>3. InOrder(b, n) /\ InOrder(c, n + 1) /\ b \in Groups /\ c \in Groups
  BY <1>2 DEF WellBranched, InOrder
<1>4. /\ Len(b) \in Nat /\ Len(c) \in Nat /\ DOMAIN b = 1 .. Len(b) /\ DOMAIN c = 1 .. Len(c)
      /\ b # << >> => Len(b) > 0
      /\ \A m \in 1 .. Len(b) : b[m] \in Nat \X Nat /\ b[m][1] \in Nat /\ b[m][2] \in Nat
  BY <1>3, GroupsTyped
<1>5. PICK dir, old, l : dir = doc0.elided[n + 1].dir /\ old = ns.pp_stack /\ l = Len(b)
  OBVIOUS
<1>6. l \in Nat
  BY <1>4, <1>5
<1>7. c = Branched(b, dir, n + 1)
  BY <1>1, <1>5, BranchesDef
<1>8. /\ IfDir(dir) => Opens(b, c, n + 1)
      /\ ElseDir(dir) /\ b # << >> => Turns(b, c)
      /\ EndDir(dir) /\ b # << >> => Closes(b, c)
      /\ ~IfDir(dir) /\ ~(b # << >> /\ (ElseDir(dir) \/ EndDir(dir))) => c = b
  BY <1>1, <1>3, <1>7, BranchedShape
<1>9. /\ ns.stack = BlocksOf(doc0, ToSet(b))[n] /\ Len(old) = l /\ old = [m \in 1 .. l |-> old[m]]
      /\ \A m \in 1 .. l : Checkpoint(doc0, old[m], b, m, n)
  BY <1>5 DEF Checkpoints
<1>10. (old # << >> <=> l > 0) /\ (b # << >> <=> l > 0)
  <2>1. old # << >> <=> l > 0
    BY <1>6, <1>9, SequenceOf
  <2>2. b = << >> => l = 0
    BY <1>5
  <2>3. QED
    BY <1>4, <1>5, <1>6, <2>1, <2>2
<1>11. \A p \in 1 .. l : ~(p <= Len(c) /\ \A q \in 1 .. p : c[q] = b[q]) \/ Checkpoint(doc0, old[p], c, p, n + 1)
  <2>1. ASSUME NEW p \in 1 .. l, p <= Len(c), \A q \in 1 .. p : c[q] = b[q]
        PROVE  Checkpoint(doc0, old[p], c, p, n + 1)
    <3>1. p \in 1 .. Len(b) /\ Checkpoint(doc0, old[p], b, p, n)
      BY <1>5, <1>9
    <3>2. QED
      BY <2>1, <3>1, CheckpointKept
  <2>2. QED
    BY <2>1
<1>12. CASE IfDir(dir)
  <2>1. start = ns.stack /\ pp = Append(old, _PreprocessorInfo(ns.stack))
    BY <1>5, <1>12 DEF Preprocessed
  <2>2. PICK info : info = _PreprocessorInfo(ns.stack)
    OBVIOUS
  <2>3. /\ Len(pp) = l + 1 /\ pp = [m \in 1 .. l + 1 |-> pp[m]]
        /\ \A m \in 1 .. l : pp[m] = old[m]
        /\ pp[l + 1] = info
    BY <1>6, <1>9, <2>1, <2>2, OneMore
  <2>4. Len(c) = l + 1 /\ (\A m \in 1 .. l : c[m] = b[m]) /\ c[l + 1] = <<n + 1, 0>>
    BY <1>5, <1>8, <1>12 DEF Opens
  <2>5. Outer(c, l + 1) = ToSet(b)
    <3>1. Outer(c, Len(c)) = ToSet(b)
      BY <1>1, <1>3, <1>8, <1>12, OuterFacts
    <3>2. QED
      BY <2>4, <3>1
  <2>6. start = BlocksOf(doc0, ToSet(c))[n]
    <3>1. PICK g0, outer, now : g0 = <<n + 1, 0>> /\ outer = ToSet(b) /\ now = ToSet(c)
      OBVIOUS
    <3>2. now = outer \cup {g0}
      <4>1. Len(c) > 0
        BY <1>6, <2>4
      <4>2. ToSet(c) = Outer(c, Len(c)) \cup {c[Len(c)]}
        BY <1>1, <1>3, <4>1, OuterFacts
      <4>3. QED
        BY <2>4, <2>5, <3>1, <4>2
    <3>3. ASSUME NEW k \in 1 .. n
          PROVE  Live(doc0, outer \cup {g0}, k) <=> Live(doc0, outer, k)
      <4>1. k \in 0 .. NumLines(doc0)
        OBVIOUS
      <4>2. InOrder(Branches(doc0)[k], k) /\ Branches(doc0)[k] \in Groups
        BY <4>1, AlwaysWellBranched DEF WellBranched, InOrder
      <4>3. \A g \in ToSet(Branches(doc0)[k]) : g[1] # g0[1]
        <5>1. \A g \in ToSet(Branches(doc0)[k]) : g[1] \in 1 .. k
          BY <4>2 DEF InOrder, ToSet
        <5>2. g0[1] = n + 1
          BY <3>1
        <5>3. QED
          BY <1>1, <5>1, <5>2
      <4>4. \A h \in outer : h[1] # g0[1]
        <5>1. \A h \in outer : h[1] \in 1 .. n
          BY <1>3, <3>1 DEF InOrder, ToSet
        <5>2. g0[1] = n + 1
          BY <3>1
        <5>3. QED
          BY <1>1, <5>1, <5>2
      <4>5. QED
        BY <4>3, <4>4, LiveWithGroup
    <3>4. \A k \in 1 .. n : Live(doc0, now, k) <=> Live(doc0, outer, k)
      BY <3>2, <3>3
    <3>5. BlocksOf(doc0, now)[n] = BlocksOf(doc0, outer)[n]
      BY <3>4, SameBlocks
    <3>6. QED
      BY <1>9, <2>1, <3>1, <3>5
  <2>7. ASSUME NEW m \in 1 .. l + 1
        PROVE  Checkpoint(doc0, pp[m], c, m, n + 1)
    <3>1. CASE m \in 1 .. l
      <4>1. m <= Len(c) /\ \A q \in 1 .. m : c[q] = b[q]
        BY <1>6, <2>4, <3>1
      <4>2. QED
        BY <1>11, <2>3, <3>1, <4>1
    <3>2. CASE m = l + 1
      <4>1. info = [stack_before_if |-> ns.stack, stack_before_else |-> << >>, seen_else |-> FALSE]
        BY <2>2 DEF _PreprocessorInfo
      <4>2. c[m][1] = n + 1 /\ c[m][2] = 0 /\ c[m][1] - 1 = n
        BY <1>1, <2>4, <3>2
      <4>3. info.stack_before_if = BlocksOf(doc0, Outer(c, m))[c[m][1] - 1]
        BY <1>9, <2>5, <3>2, <4>1, <4>2
      <4>4. Checkpoint(doc0, info, c, m, n + 1)
        BY <4>1, <4>2, <4>3 DEF Checkpoint
      <4>5. QED
        BY <2>3, <3>2, <4>4
    <3>3. QED
      BY <1>6, <3>1, <3>2
  <2>8. QED
    BY <2>3, <2>4, <2>6, <2>7 DEF AllKept
<1>13. CASE ElseDir(dir) /\ b # << >>
  <2>1. PICK top, info, outer : top = old[l] /\ info = Turned(top, ns.stack) /\ outer = Outer(b, Len(b))
    OBVIOUS
  <2>2. l > 0 /\ l \in 1 .. l /\ l - 1 \in Nat
    BY <1>6, <1>10, <1>13
  <2>3. start = top.stack_before_if /\ pp = Append(Pop(old), info)
    <3>1. Top(old) = top
      BY <1>9, <2>1 DEF Top
    <3>2. QED
      BY <1>5, <1>10, <1>13, <2>1, <2>2, <3>1 DEF Preprocessed
  <2>4. /\ Len(pp) = l /\ pp = [m \in 1 .. l |-> pp[m]]
        /\ \A m \in 1 .. l - 1 : pp[m] = old[m]
        /\ pp[l] = info
    <3>1. PICK less, p : less = Pop(old) /\ p = l - 1
      OBVIOUS
    <3>2. p \in Nat /\ p + 1 = l
      BY <2>2, <3>1
    <3>3. less = [m \in 1 .. p |-> less[m]] /\ \A m \in 1 .. p : less[m] = old[m]
      BY <1>6, <1>9, <2>2, <3>1, OneLess
    <3>4. /\ Len(Append(less, info)) = p + 1 /\ Append(less, info) = [m \in 1 .. p + 1 |-> Append(less, info)[m]]
          /\ \A m \in 1 .. p : Append(less, info)[m] = less[m]
          /\ Append(less, info)[p + 1] = info
      BY <3>2, <3>3, OneMore
    <3>5. QED
      BY <2>3, <3>1, <3>2, <3>3, <3>4
  <2>5. Turns(b, c)
    BY <1>8, <1>13
  <2>6. /\ Len(c) = l /\ (\A m \in 1 .. l - 1 : c[m] = b[m])
        /\ c[l] = <<b[l][1], b[l][2] + 1>>
    BY <1>5, <2>5 DEF Turns
  <2>7. Checkpoint(doc0, top, b, l, n) /\ outer = Outer(b, l) /\ outer = Outer(c, l)
    <3>1. Outer(c, Len(c)) = Outer(b, Len(b))
      BY <1>1, <1>3, <2>5, OuterFacts
    <3>2. QED
      BY <1>5, <1>9, <2>1, <2>2, <2>6, <3>1
  <2>8. BlocksOf(doc0, ToSet(c))[n] = BlocksOf(doc0, outer)[b[l][1] - 1]
    <3>1. BlocksOf(doc0, ToSet(c))[n] = BlocksOf(doc0, Outer(b, Len(b)))[b[Len(b)][1] - 1]
      BY <2>5, NextBranch
    <3>2. QED
      BY <1>5, <2>1, <3>1
  <2>9. start = BlocksOf(doc0, ToSet(c))[n]
    BY <2>3, <2>7, <2>8 DEF Checkpoint
  <2>10. Checkpoint(doc0, info, c, l, n + 1)
    <3>1. /\ c[l][1] = b[l][1] /\ c[l][2] # 0
      <4>1. b[l][1] \in Nat /\ b[l][2] \in Nat
        BY <1>4, <1>5, <2>2
      <4>2. QED
        BY <2>6, <4>1
    <3>2. PICK x, y, z : top = [stack_before_if |-> x, stack_before_else |-> y, seen_else |-> z]
      BY <2>7 DEF Checkpoint
    <3>3. PICK saved : saved = SavedBeforeElse(top, ns.stack)
      OBVIOUS
    <3>4. info = [top EXCEPT !.seen_else = TRUE, !.stack_before_else = saved]
      BY <2>1, <3>3 DEF Turned
    <3>5. info = [stack_before_if |-> x, stack_before_else |-> saved, seen_else |-> TRUE]
      BY <3>2, <3>4
    <3>6. saved = BlocksOf(doc0, outer)[n]
      <4>1. top = ns.pp_stack[Len(b)] /\ Len(b) > 0
        BY <1>5, <2>1, <2>2
      <4>2. (IF top.seen_else THEN top.stack_before_else ELSE ns.stack) = BlocksOf(doc0, Outer(b, Len(b)))[n]
        BY <4>1, FirstBranch
      <4>3. QED
        BY <2>1, <3>3, <4>2 DEF SavedBeforeElse
    <3>7. BlocksOf(doc0, outer)[n + 1] = BlocksOf(doc0, outer)[n]
      <4>1. c[l] \in ToSet(Branches(doc0)[n + 1])
        BY <1>4, <2>2, <2>6 DEF ToSet
      <4>2. \A h \in Outer(c, l) : h[1] # c[l][1]
        BY <1>1, <1>3, <2>2, <2>6, OuterIsBefore
      <4>3. ~Live(doc0, outer, n + 1)
        BY <2>7, <3>1, <4>1, <4>2, DeadAfterGroup
      <4>4. BlocksOf(doc0, outer)[n + 1] = BlocksStep(BlocksOf(doc0, outer)[n], doc0, outer, n + 1)
        BY <1>1, BlocksDef
      <4>5. QED
        BY <4>3, <4>4 DEF BlocksStep
    <3>8. x = BlocksOf(doc0, outer)[c[l][1] - 1]
      BY <2>7, <3>1, <3>2 DEF Checkpoint
    <3>9. QED
      BY <2>7, <3>1, <3>5, <3>6, <3>7, <3>8 DEF Checkpoint
  <2>11. ASSUME NEW m \in 1 .. l
         PROVE  Checkpoint(doc0, pp[m], c, m, n + 1)
    <3>1. CASE m \in 1 .. l - 1
      <4>1. m <= Len(c) /\ \A q \in 1 .. m : c[q] = b[q]
        BY <1>6, <2>6, <3>1
      <4>2. QED
        BY <1>11, <2>4, <3>1, <4>1
    <3>2. CASE m = l
      BY <2>4, <2>10, <3>2
    <3>3. QED
      BY <1>6, <3>1, <3>2
  <2>12. QED
    BY <2>4, <2>6, <2>9, <2>11 DEF AllKept
<1>14. CASE EndDir(dir) /\ b # << >>
  <2>1. PICK top : top = old[l]
    OBVIOUS
  <2>2. l > 0 /\ l \in 1 .. l /\ l - 1 \in Nat
    BY <1>6, <1>10, <1>14
  <2>3. start = (IF top.seen_else THEN top.stack_before_else ELSE ns.stack) /\ pp = Pop(old)
    <3>1. Top(old) = top
      BY <1>9, <2>1 DEF Top
    <3>2. QED
      BY <1>5, <1>10, <1>14, <2>2, <3>1 DEF Preprocessed
  <2>4. /\ Len(pp) = l - 1 /\ pp = [m \in 1 .. l - 1 |-> pp[m]]
        /\ \A m \in 1 .. l - 1 : pp[m] = old[m]
    BY <1>6, <1>9, <2>2, <2>3, OneLess
  <2>5. Closes(b, c)
    BY <1>8, <1>14
  <2>6. Len(c) = l - 1 /\ (\A m \in 1 .. l - 1 : c[m] = b[m])
    BY <1>5, <2>5 DEF Closes
  <2>7. start = BlocksOf(doc0, ToSet(c))[n]
    <3>1. top = ns.pp_stack[Len(b)] /\ Len(b) > 0
      BY <1>5, <2>1, <2>2
    <3>2. (IF top.seen_else THEN top.stack_before_else ELSE ns.stack) = BlocksOf(doc0, Outer(b, Len(b)))[n]
      BY <3>1, FirstBranch
    <3>3. ToSet(c) = Outer(b, Len(b))
      BY <1>1, <1>3, <2>5, OuterFacts
    <3>4. QED
      BY <2>3, <3>2, <3>3
  <2>8. ASSUME NEW m \in 1 .. l - 1
        PROVE  Checkpoint(doc0, pp[m], c, m, n + 1)
    <3>1. m \in 1 .. l /\ m <= Len(c) /\ \A q \in 1 .. m : c[q] = b[q]
      BY <1>6, <2>6
    <3>2. QED
      BY <1>11, <2>4, <3>1
  <2>9. QED
    BY <2>4, <2>6, <2>7, <2>8 DEF AllKept
<1>15. CASE ~IfDir(dir) /\ ~(b # << >> /\ (ElseDir(dir) \/ EndDir(dir)))
  <2>1. start = ns.stack /\ pp = old
    BY <1>5, <1>10, <1>15 DEF Preprocessed
  <2>2. c = b
    BY <1>8, <1>15
  <2>3. ASSUME NEW m \in 1 .. l
        PROVE  Checkpoint(doc0, pp[m], c, m, n + 1)
    <3>1. m <= Len(c) /\ \A q \in 1 .. m : c[q] = b[q]
      BY <1>5, <1>6, <2>2
    <3>2. QED
      BY <1>11, <2>1, <3>1
  <2>4. QED
    BY <1>5, <1>9, <2>1, <2>2, <2>3 DEF AllKept
<1>16. QED
  BY <1>12, <1>13, <1>14, <1>15

\* A line keeps the checkpoints.
LEMMA NestingStep ==
  ASSUME NEW doc0, NumLines(doc0) \in Nat, NEW n \in 0 .. NumLines(doc0), n + 1 <= NumLines(doc0),
         NEW ns, Checkpoints(doc0, ns, n)
  PROVE  Checkpoints(doc0, Update(ns, doc0, n + 1).state, n + 1)
<1>1. PICK b, c, st : b = Branches(doc0)[n] /\ c = Branches(doc0)[n + 1] /\ st = Update(ns, doc0, n + 1).state
  OBVIOUS
<1>2. n \in Nat /\ n + 1 \in Nat /\ n + 1 \in 0 .. NumLines(doc0) /\ n + 1 # 0 /\ n + 1 - 1 = n
  OBVIOUS
<1>3. PICK x, y, z : ns = [stack |-> x, previous_stack_top |-> y, pp_stack |-> z]
  BY DEF Checkpoints
<1>4. \E start, pp, prev : /\ Preprocessed(ns, doc0.elided[n + 1].dir, start, pp)
                           /\ st = [stack |-> UpdateBlocks(start, doc0, n + 1).stack, previous_stack_top |-> prev, pp_stack |-> pp]
  <2>1. PICK k : k = n + 1
    OBVIOUS
  <2>2. st = Update(ns, doc0, k).state
    BY <1>1, <2>1
  <2>3. Shaped(st, ns, doc0, k)
    BY <1>3, <2>2, UpdateShape
  <2>4. QED
    BY <2>1, <2>3, Zenon DEF Shaped
<1>5. PICK start, pp, prev : /\ Preprocessed(ns, doc0.elided[n + 1].dir, start, pp)
                             /\ st = [stack |-> UpdateBlocks(start, doc0, n + 1).stack, previous_stack_top |-> prev, pp_stack |-> pp]
  BY <1>4
<1>6. PICK stack : stack = UpdateBlocks(start, doc0, n + 1).stack
  OBVIOUS
<1>7. st = [stack |-> stack, previous_stack_top |-> prev, pp_stack |-> pp]
  BY <1>5, <1>6
<1>8. start = BlocksOf(doc0, ToSet(c))[n] /\ AllKept(doc0, pp, c, n + 1)
  <2>1. /\ NumLines(doc0) \in Nat /\ n \in 0 .. NumLines(doc0) /\ n + 1 <= NumLines(doc0) /\ Checkpoints(doc0, ns, n)
        /\ b = Branches(doc0)[n] /\ c = Branches(doc0)[n + 1] /\ Preprocessed(ns, doc0.elided[n + 1].dir, start, pp)
    BY <1>1, <1>5
  <2>2. QED
    BY ONLY <2>1, DirectiveKeeps
<1>9. stack = BlocksOf(doc0, ToSet(c))[n + 1]
  <2>1. Live(doc0, ToSet(c), n + 1)
    BY <1>1, LiveInItself
  <2>2. BlocksOf(doc0, ToSet(c))[n + 1] = BlocksStep(BlocksOf(doc0, ToSet(c))[n], doc0, ToSet(c), n + 1)
    BY <1>2, BlocksDef
  <2>3. QED
    BY <1>6, <1>8, <2>1, <2>2 DEF BlocksStep
<1>10. Checkpoints(doc0, st, n + 1)
  <2>1. st.stack = stack /\ st.previous_stack_top = prev /\ st.pp_stack = pp
    BY <1>7
  <2>2. QED
    BY <1>1, <1>7, <1>8, <1>9, <2>1, Zenon DEF Checkpoints, AllKept
<1>11. QED
  BY <1>1, <1>10

------------------------------------------------------------------------------
(* Only. *)

OnlyStep(was, e, S) == IF e \in S THEN Append(was, e) ELSE was

OnlyUpto(f, s, S, n) ==
  f = [k \in 0 .. n |-> IF k = 0 THEN << >> ELSE OnlyStep(f[k - 1], s[k], S)]

\* There is a function that obeys the recursion of Only.
LEMMA OnlyExist ==
  ASSUME NEW s, NEW S
  PROVE  \A n \in Nat : \E f : OnlyUpto(f, s, S, n)
<1> DEFINE T == {n \in Nat : \E f : OnlyUpto(f, s, S, n)}
<1>1. 0 \in T
  <2>1. OnlyUpto([k \in 0 .. 0 |-> << >>], s, S, 0)
    BY DEF OnlyUpto
  <2>2. QED
    BY <2>1
<1>2. ASSUME NEW n \in T
      PROVE  n + 1 \in T
  <2>1. PICK f : OnlyUpto(f, s, S, n)
    OBVIOUS
  <2>2. PICK g : Longer(g, f, n, OnlyStep(f[n], s[n + 1], S))
    BY LongerFunction, Zenon
  <2>3. \A k \in 0 .. n : f[k] = IF k = 0 THEN << >> ELSE OnlyStep(f[k - 1], s[k], S)
    BY <2>1, Zenon DEF OnlyUpto
  <2>4. ASSUME NEW k \in 0 .. n + 1
        PROVE  g[k] = IF k = 0 THEN << >> ELSE OnlyStep(g[k - 1], s[k], S)
    <3>1. CASE k \in 0 .. n
      <4>1. g[k] = f[k] /\ (k # 0 => g[k - 1] = f[k - 1])
        <5>1. k - 1 \in 0 .. n \/ k = 0
          BY <3>1
        <5>2. QED
          BY <2>2, <3>1, <5>1, Zenon DEF Longer
      <4>2. QED
        BY <2>3, <3>1, <4>1, Zenon
    <3>2. CASE k = n + 1
      <4>1. k # 0 /\ n \in 0 .. n /\ k - 1 = n
        BY <3>2
      <4>2. QED
        BY <2>2, <3>2, <4>1, Zenon DEF Longer
    <3>3. QED
      BY <3>1, <3>2
  <2>5. g = [k \in 0 .. n + 1 |-> IF k = 0 THEN << >> ELSE OnlyStep(g[k - 1], s[k], S)]
    BY <2>2, <2>4, Zenon DEF Longer
  <2>6. OnlyUpto(g, s, S, n + 1)
    BY <2>5, Zenon DEF OnlyUpto
  <2>7. QED
    BY <2>6
<1>3. QED
  BY <1>1, <1>2, AllNumbers

\* Only obeys its recursion.
LEMMA OnlyDef ==
  ASSUME NEW s, NEW S, NEW n \in Nat, Len(s) = n
  PROVE  \E f : OnlyUpto(f, s, S, n) /\ Only(s, S) = f[n]
<1>1. \E f : OnlyUpto(f, s, S, n)
  BY OnlyExist
<1>2. PICK g : g = CHOOSE f : OnlyUpto(f, s, S, n)
  OBVIOUS
<1>3. Only(s, S) = g[n]
  BY <1>2, Zenon DEF Only, OnlyStep, OnlyUpto
<1>4. OnlyUpto(g, s, S, n)
  BY <1>1, <1>2, Zenon
<1>5. QED
  BY <1>3, <1>4

\* Only chooses among the elements.
LEMMA OnlyIn ==
  ASSUME NEW U, NEW s \in Seq(U), NEW S
  PROVE  Only(s, S) \in Seq(U)
<1>1. PICK n \in Nat : n = Len(s)
  OBVIOUS
<1>2. PICK f : OnlyUpto(f, s, S, n) /\ Only(s, S) = f[n]
  BY <1>1, OnlyDef
<1>3. \A k \in 0 .. n : f[k] = IF k = 0 THEN << >> ELSE OnlyStep(f[k - 1], s[k], S)
  BY <1>2, Zenon DEF OnlyUpto
<1> DEFINE T == {k \in Nat : k <= n => f[k] \in Seq(U)}
<1>4. 0 \in T
  <2>1. 0 \in 0 .. n
    OBVIOUS
  <2>2. f[0] = << >>
    BY <1>3, <2>1
  <2>3. << >> \in Seq(U)
    OBVIOUS
  <2>4. f[0] \in Seq(U)
    BY <2>2, <2>3, Zenon
  <2>5. QED
    BY <2>4
<1>5. ASSUME NEW k \in T
      PROVE  k + 1 \in T
  <2>1. SUFFICES ASSUME k + 1 <= n
                 PROVE  f[k + 1] \in Seq(U)
    OBVIOUS
  <2>2. k + 1 \in 0 .. n /\ k + 1 # 0 /\ k + 1 - 1 = k /\ f[k] \in Seq(U)
    BY <2>1
  <2>3. s[k + 1] \in U
    BY <1>1, <2>1
  <2>4. f[k + 1] = OnlyStep(f[k], s[k + 1], S)
    BY <1>3, <2>2
  <2>5. QED
    BY <2>2, <2>3, <2>4 DEF OnlyStep
<1>6. n \in T
  BY <1>4, <1>5, AllNumbers
<1>7. QED
  BY <1>2, <1>6

------------------------------------------------------------------------------
(* The text that is gone through. *)

\* The lines as a document: as many, each with the NOLINT comment it has or none.
LEMMA DocFacts ==
  ASSUME NEW U, NEW lines \in Seq(U), NEW doc0, doc0 = CleansedLines(RemoveMultiLineComments(lines).lines)
  PROVE  /\ NumLines(doc0) = Len(lines) /\ NumLines(doc0) \in Nat
         /\ DOMAIN doc0.raw_lines = 1 .. NumLines(doc0) /\ DOMAIN doc0.elided = 1 .. NumLines(doc0)
<1>1. PICK raw : raw = RemoveMultiLineComments(lines).lines
  OBVIOUS
<1>2. DOMAIN raw = 1 .. Len(lines)
  BY <1>1 DEF RemoveMultiLineComments
<1>3. PICK elided : elided = CleanseRawStrings(raw)
  OBVIOUS
<1>4. elided = [k \in 1 .. Len(lines) |-> elided[k]]
  BY <1>2, <1>3 DEF CleanseRawStrings
<1>5. doc0.raw_lines = raw /\ doc0.elided = elided
  BY <1>1, <1>3 DEF CleansedLines
<1>6. Len(elided) = Len(lines) /\ DOMAIN elided = 1 .. Len(lines)
  BY <1>4
<1>7. QED
  BY <1>2, <1>5, <1>6 DEF NumLines

\* The lines of a file that may be linted.
LEMMA LinesOfText ==
  ASSUME LintTyped, NEW path \in Reachable(scenario)
  PROVE  TextLines(path) \in Seq({Line[k] : k \in DOMAIN Line})
<1>1. text[path] \in Seq(DOMAIN Line)
  BY LintAssumption DEF LintTyped
<1>2. QED
  BY <1>1 DEF TextLines

\* The lines of the text that is gone through, and their numbers.
LEMMA DocOfText ==
  ASSUME LintTyped, DocInv, InText
  PROVE  /\ NumLines(doc) \in Nat
         /\ DOMAIN doc.raw_lines = 1 .. NumLines(doc) /\ DOMAIN doc.elided = 1 .. NumLines(doc)
<1>1. file \in Reachable(scenario) /\ doc = CleansedLines(RemoveMultiLineComments(TextLines(file)).lines)
  BY DEF DocInv
<1>2. TextLines(file) \in Seq({Line[k] : k \in DOMAIN Line})
  BY <1>1, LinesOfText
<1>3. PICK lines : lines = TextLines(file)
  OBVIOUS
<1>4. QED
  BY <1>1, <1>2, <1>3, DocFacts

\* A file whose lines are gone through is one of those that remained.
LEMMA FileIsReachable ==
  ASSUME LintTyped, ProcessFile
  PROVE  Head(filenames) \in Reachable(scenario) /\ Tail(filenames) \in Seq(Reachable(scenario))
<1>1. filenames # << >>
  BY DEF ProcessFile
<1>2. QED
  BY <1>1 DEF LintTyped

\* The files that the command line gives are files that may be linted.
LEMMA GivenIsReachable ==
  ASSUME LintTyped, ParseArguments
  PROVE  filenames' \in Seq(Reachable(scenario))
<1> USE DEF LintTyped
<1>1. CASE options.filenames = << >>
  BY <1>1 DEF ParseArguments
<1>2. CASE options.filenames # << >>
  <2>1. PICK given \in IF options.recursive
                       THEN _ExpandDirectories(options.filenames, options.extensions, options.headers)
                       ELSE {options.filenames} :
                filenames' = _FilterExcludedFiles(given)
    BY <1>2 DEF ParseArguments
  <2>2. given \in Seq(Reachable(scenario))
    <3>1. CASE options.recursive
      <4>1. PICK S : given \in SetToSeqs(S) /\ S \subseteq DOMAIN files
        BY <2>1, <3>1 DEF _ExpandDirectories
      <4>2. IsFiniteSet(DOMAIN files)
        BY LintAssumption DEF files
      <4>3. Cardinality(S) \in Nat
        BY <4>1, <4>2, FS_Subset, FS_CardinalityType
      <4>4. given \in [1 .. Cardinality(S) -> S]
        BY <4>1 DEF SetToSeqs
      <4>5. given \in Seq(S)
        BY <4>3, <4>4
      <4>6. Reachable(scenario) = DOMAIN files
        BY <3>1 DEF Reachable, options, files
      <4>7. QED
        BY <4>1, <4>5, <4>6
    <3>2. CASE ~options.recursive
      <4>1. given = options.filenames /\ Reachable(scenario) = ToSet(options.filenames)
        BY <2>1, <3>2 DEF Reachable, options
      <4>2. options.filenames \in Seq(Seq(STRING))
        BY LintAssumption DEF options
      <4>3. PICK n \in Nat : n = Len(given) /\ DOMAIN given = 1 .. n
        BY <4>1, <4>2
      <4>4. \A k \in 1 .. n : given[k] \in ToSet(given)
        BY <4>3 DEF ToSet
      <4>5. given \in [1 .. n -> ToSet(given)]
        <5>1. given = [k \in 1 .. n |-> given[k]]
          BY <4>1, <4>2, <4>3
        <5>2. QED
          BY <4>4, <5>1, Zenon
      <4>6. QED
        BY <4>1, <4>5
    <3>3. QED
      BY <3>1, <3>2
  <2>3. Only(given, ToSet(given) \ options.exclude) \in Seq(Reachable(scenario))
    BY <2>2, OnlyIn
  <2>4. QED
    BY <2>1, <2>3 DEF _FilterExcludedFiles
<1>3. QED
  BY <1>1, <1>2

\* No step leaves the files that may be linted.
LEMMA TypedStep ==
  ASSUME LintTyped, [LintNext]_lintVars
  PROVE  LintTyped'
<1>1. CASE ParseArguments
  BY <1>1, GivenIsReachable DEF LintTyped, ParseArguments, lintInput
<1>2. CASE ProcessFile
  <2>1. scenario' = scenario /\ text' = text /\ filenames' = Tail(filenames)
    BY <1>2 DEF ProcessFile, lintInput
  <2>2. QED
    BY <1>2, <2>1, FileIsReachable DEF LintTyped
<1>3. CASE ProcessLine
  BY <1>3 DEF LintTyped, ProcessLine, lintInput
<1>4. CASE FinishFile
  BY <1>4 DEF LintTyped, FinishFile, lintInput
<1>5. CASE MainEnds
  BY <1>5 DEF LintTyped, MainEnds, lintInput
<1>6. CASE UNCHANGED lintVars
  BY <1>6 DEF LintTyped, lintVars, lintInput
<1>7. QED
  BY <1>1, <1>2, <1>3, <1>4, <1>5, <1>6 DEF LintNext

\* The files that main has still to go through are among those that the command line stands for:
\* directories are expanded to files below them, and excluding files adds none.
THEOREM LintAlwaysTyped == LintSpec => []LintTyped
<1>1. LintInit => LintTyped
  BY DEF LintInit, LintTyped
<1>2. LintTyped /\ [LintNext]_lintVars => LintTyped'
  BY TypedStep
<1>3. QED
  BY <1>1, <1>2, PTL DEF LintSpec

------------------------------------------------------------------------------
(* A file begins. *)

\* What ProcessFile does with a file that it passes over, and with one it goes through.
Filtered(cfg) == [BackupFilters(state) EXCEPT !.filters = @ \o cfg.filters]
PassedOver(cfg) ==
  /\ pc' = "files" /\ found' = << >>
  /\ state' \in {RestoreFilters(BackupFilters(state)), RestoreFilters(Filtered(cfg))}
Begun(cfg, head) ==
  /\ head = CheckHead([state |-> Filtered(cfg), found |-> << >>, reported |-> << >>], files[file'],
                      TextLines(file'), GetHeaderExtensions(cfg.valid, cfg.hpp))
  /\ ~cfg.excluded /\ ~BadFilter(Filtered(cfg).filters)
  /\ pc' = "lines" /\ linenum' = 1 /\ doc' = head.doc /\ nesting_state' = NewNestingState
  /\ include_state' = NewIncludeState /\ suppress' = head.suppress /\ state' = head.log.state
  /\ found' = head.log.found /\ reported' = head.log.reported

\* The ways in which ProcessFile ends.
LEMMA FileBegins ==
  ASSUME ProcessFile
  PROVE  /\ filenames # << >> /\ file' = Head(filenames) /\ UNCHANGED lintInput
         /\ \E cfg : /\ cfg = ProcessConfigOverrides(file')
                     /\ _valid_extensions' = cfg.valid /\ _hpp_headers' = cfg.hpp
                     /\ pc' = "crash" \/ PassedOver(cfg) \/ \E head : Begun(cfg, head)
<1>1. filenames # << >> /\ file' = Head(filenames) /\ UNCHANGED lintInput
  BY DEF ProcessFile
<1>2. PICK path, f, lines, cfg, filtered, head :
        /\ path = Head(filenames) /\ f = files[path] /\ lines = TextLines(path)
        /\ cfg = ProcessConfigOverrides(path) /\ filtered = Filtered(cfg)
        /\ head = CheckHead([state |-> filtered, found |-> << >>, reported |-> << >>], f, lines,
                            GetHeaderExtensions(cfg.valid, cfg.hpp))
  OBVIOUS
<1>3. _valid_extensions' = cfg.valid /\ _hpp_headers' = cfg.hpp
  BY <1>2 DEF ProcessFile
<1>4. pc' = "crash" \/ PassedOver(cfg) \/ Begun(cfg, head)
  <2>1. CASE cfg.excluded
    <3>1. pc' = "files" /\ state' = RestoreFilters(BackupFilters(state)) /\ found' = << >>
      BY <1>2, <2>1 DEF ProcessFile
    <3>2. QED
      BY <3>1 DEF PassedOver
  <2>2. CASE ~cfg.excluded /\ BadFilter(filtered.filters)
    BY <1>2, <2>2 DEF ProcessFile, Filtered
  <2>3. CASE ~cfg.excluded /\ ~BadFilter(filtered.filters) /\ ~f.readable
    <3>1. pc' = "files" /\ state' = RestoreFilters(filtered) /\ found' = << >>
      BY <1>2, <2>3 DEF ProcessFile, Filtered
    <3>2. QED
      BY <1>2, <3>1 DEF PassedOver
  <2>4. CASE ~cfg.excluded /\ ~BadFilter(filtered.filters) /\ f.readable /\ f.ext \notin GetAllExtensions(cfg.valid, cfg.hpp)
    <3>1. pc' = "files" /\ state' = RestoreFilters(filtered) /\ found' = << >>
      BY <1>2, <2>4 DEF ProcessFile, Filtered
    <3>2. QED
      BY <1>2, <3>1 DEF PassedOver
  <2>5. CASE ~cfg.excluded /\ ~BadFilter(filtered.filters) /\ f.readable /\ f.ext \in GetAllExtensions(cfg.valid, cfg.hpp)
    <3>1. /\ pc' = "lines" /\ linenum' = 1 /\ doc' = head.doc /\ nesting_state' = NewNestingState
          /\ include_state' = NewIncludeState /\ suppress' = head.suppress /\ state' = head.log.state
          /\ found' = head.log.found /\ reported' = head.log.reported
      BY <1>2, <2>5 DEF ProcessFile, Filtered
    <3>2. QED
      BY <1>1, <1>2, <2>5, <3>1 DEF Begun
  <2>6. QED
    BY <2>1, <2>2, <2>3, <2>4, <2>5
<1>5. QED
  BY <1>1, <1>2, <1>3, <1>4

\* What the head of the check makes of the text.
LEMMA HeadDoc ==
  ASSUME NEW log, NEW f, NEW lines, NEW extensions
  PROVE  CheckHead(log, f, lines, extensions).doc = CleansedLines(RemoveMultiLineComments(lines).lines)
BY DEF CheckHead

\* Every step keeps DocInv.
LEMMA DocStep ==
  ASSUME LintTyped, DocInv, [LintNext]_lintVars
  PROVE  DocInv'
<1> USE DEF InText
<1>1. CASE ParseArguments
  <2>1. pc' # "lines" /\ (pc' = "files" => found' = found)
    BY <1>1 DEF ParseArguments
  <2>2. QED
    BY <1>1, <2>1 DEF DocInv, ParseArguments
<1>2. CASE ProcessFile
  <2>1. /\ Head(filenames) \in Reachable(scenario) /\ file' = Head(filenames) /\ UNCHANGED <<scenario, text>>
        /\ \E cfg : pc' = "crash" \/ PassedOver(cfg) \/ \E head : Begun(cfg, head)
    BY <1>2, FileIsReachable, FileBegins DEF lintInput
  <2>2. CASE pc' = "crash"
    BY <2>2 DEF DocInv
  <2>3. CASE \E cfg : PassedOver(cfg)
    BY <2>3 DEF DocInv, PassedOver
  <2>4. CASE \E cfg : \E head : Begun(cfg, head)
    <3>1. PICK cfg, head : Begun(cfg, head)
      BY <2>4
    <3>2. PICK lines : lines = TextLines(file')
      OBVIOUS
    <3>3. doc' = CleansedLines(RemoveMultiLineComments(lines).lines)
      BY <3>1, <3>2, HeadDoc DEF Begun
    <3>4. lines \in Seq({Line[k] : k \in DOMAIN Line})
      BY <2>1, <3>2, LinesOfText
    <3>5. PICK d : d = doc'
      OBVIOUS
    <3>6. NumLines(d) \in Nat
      BY <3>3, <3>4, <3>5, DocFacts
    <3>7. linenum' \in 1 .. NumLines(doc') + 1
      BY <3>1, <3>5, <3>6 DEF Begun
    <3>8. TextLines(file)' = lines
      BY <2>1, <3>2 DEF TextLines
    <3>9. pc' = "lines" /\ file' \in Reachable(scenario')
      BY <2>1, <3>1 DEF Begun
    <3>10. QED
      BY <3>3, <3>7, <3>8, <3>9 DEF DocInv
  <2>5. QED
    BY <2>1, <2>2, <2>3, <2>4
<1>3. CASE ProcessLine
  <2>1. /\ UNCHANGED <<scenario, text, file, doc, pc>> /\ pc = "lines"
        /\ linenum <= NumLines(doc) /\ linenum' = linenum + 1
    BY <1>3 DEF ProcessLine, lintInput
  <2>2. NumLines(doc) \in Nat
    BY <2>1, DocOfText
  <2>3. linenum' \in 1 .. NumLines(doc) + 1
    BY <2>1, <2>2 DEF DocInv
  <2>4. file' \in Reachable(scenario') /\ doc' = CleansedLines(RemoveMultiLineComments(TextLines(file)').lines)
    BY <2>1 DEF DocInv, TextLines
  <2>5. QED
    BY <2>1, <2>3, <2>4 DEF DocInv
<1>4. CASE FinishFile
  <2>1. pc = "lines" /\ pc' = "files" /\ UNCHANGED <<scenario, text, file, doc>>
    BY <1>4 DEF FinishFile, lintInput, perFile
  <2>2. QED
    BY <2>1 DEF DocInv, TextLines
<1>5. CASE MainEnds
  BY <1>5 DEF DocInv, MainEnds
<1>6. CASE UNCHANGED lintVars
  BY <1>6 DEF DocInv, lintVars, lintInput, perFile, TextLines
<1>7. QED
  BY <1>1, <1>2, <1>3, <1>4, <1>5, <1>6 DEF LintNext

\* Every step keeps the checkpoints of the nesting state.
LEMMA NestingKept ==
  ASSUME LintTyped, DocInv, NestingInv, [LintNext]_lintVars
  PROVE  NestingInv'
<1>1. CASE ParseArguments
  BY <1>1 DEF NestingInv, ParseArguments
<1>2. CASE ProcessFile
  <2>1. /\ Head(filenames) \in Reachable(scenario) /\ file' = Head(filenames) /\ UNCHANGED <<scenario, text>>
        /\ \E cfg : pc' = "crash" \/ PassedOver(cfg) \/ \E head : Begun(cfg, head)
    BY <1>2, FileIsReachable, FileBegins DEF lintInput
  <2>2. CASE pc' = "crash" \/ \E cfg : PassedOver(cfg)
    BY <2>2 DEF NestingInv, PassedOver
  <2>3. CASE \E cfg : \E head : Begun(cfg, head)
    <3>1. PICK cfg, head : Begun(cfg, head)
      BY <2>3
    <3>2. PICK lines, d, ns : lines = TextLines(file') /\ d = doc' /\ ns = nesting_state'
      OBVIOUS
    <3>3. d = CleansedLines(RemoveMultiLineComments(lines).lines)
      BY <3>1, <3>2, HeadDoc DEF Begun
    <3>4. lines \in Seq({Line[k] : k \in DOMAIN Line})
      BY <2>1, <3>2, LinesOfText
    <3>5. NumLines(d) \in Nat
      BY <3>3, <3>4, DocFacts
    <3>6. Branches(d)[0] = << >> /\ BlocksOf(d, ToSet(Branches(d)[0]))[0] = << >>
      <4>1. 0 \in 0 .. NumLines(d)
        BY <3>5
      <4>2. QED
        BY <3>5, <4>1, BranchesDef, BlocksDef
    <3>7. ns = NewNestingState /\ linenum' = 1 /\ pc' = "lines"
      BY <3>1, <3>2 DEF Begun
    <3>8. Checkpoints(d, ns, 0)
      BY <3>6, <3>7 DEF Checkpoints, NewNestingState
    <3>9. Checkpoints(doc', nesting_state', linenum' - 1)
      BY <3>2, <3>7, <3>8
    <3>10. QED
      BY <3>9 DEF NestingInv
  <2>4. QED
    BY <2>1, <2>2, <2>3
<1>3. CASE ProcessLine
  <2>1. /\ doc' = doc /\ pc' = pc /\ pc = "lines" /\ linenum <= NumLines(doc) /\ linenum' = linenum + 1
        /\ nesting_state' = Update(nesting_state, doc, linenum).state
    BY <1>3 DEF ProcessLine
  <2>2. NumLines(doc) \in Nat
    BY <2>1, DocOfText DEF InText
  <2>3. PICK n : n = linenum - 1
    OBVIOUS
  <2>4. n \in 0 .. NumLines(doc) /\ n + 1 <= NumLines(doc) /\ linenum = n + 1 /\ linenum' - 1 = n + 1
    BY <2>1, <2>2, <2>3 DEF DocInv
  <2>5. Checkpoints(doc, nesting_state, n)
    BY <2>1, <2>3 DEF NestingInv
  <2>6. Checkpoints(doc, Update(nesting_state, doc, n + 1).state, n + 1)
    BY <2>2, <2>4, <2>5, NestingStep
  <2>7. QED
    BY <2>1, <2>4, <2>6 DEF NestingInv
<1>4. CASE FinishFile
  BY <1>4 DEF NestingInv, FinishFile
<1>5. CASE MainEnds
  BY <1>5 DEF NestingInv, MainEnds
<1>6. CASE UNCHANGED lintVars
  BY <1>6 DEF NestingInv, lintVars, perFile
<1>7. QED
  BY <1>1, <1>2, <1>3, <1>4, <1>5, <1>6 DEF LintNext

\* The invariants hold at the start.
LEMMA DocStarts == LintInit => LintTyped /\ DocInv /\ NestingInv
BY DEF LintInit, LintTyped, DocInv, NestingInv, InText

\* ProcessFileData goes through the lines of the file that was opened last, and not past their end.
THEOREM LintAlwaysInText == LintSpec => []DocInv
<1>1. LintInit => DocInv
  BY DocStarts
<1>2. LintTyped /\ LintTyped' /\ DocInv /\ [LintNext]_lintVars => DocInv'
  BY DocStep
<1>3. QED
  BY <1>1, <1>2, LintAlwaysTyped, PTL DEF LintSpec

\* At every line of every text the stack of NestingState holds the blocks that are open when the
\* first branch of each #if group that has ended is kept and, of a group that has not, the branch
\* that is being read: what the comment of UpdatePreprocessor promises of its stack of checkpoints.
THEOREM LintNestingIsRight == LintSpec => []NestingFollowsFirstBranch
<1>1. LintInit => NestingInv
  BY DocStarts
<1>2. LintTyped /\ DocInv /\ NestingInv /\ [LintNext]_lintVars => NestingInv'
  BY NestingKept
<1>3. NestingInv => NestingFollowsFirstBranch
  BY DEF NestingInv, NestingFollowsFirstBranch, Checkpoints
<1>4. QED
  BY <1>1, <1>2, <1>3, LintAlwaysTyped, LintAlwaysInText, PTL DEF LintSpec

------------------------------------------------------------------------------
(* FlattenSeq. *)

FlatStep(was, x, k) == IF k = 1 THEN x ELSE was \o x

FlatUpto(f, s, n) ==
  f = [k \in 0 .. n |-> IF k = 0 THEN << >> ELSE FlatStep(f[k - 1], s[k], k)]

\* There is a function that obeys the recursion of FlattenSeq.
LEMMA FlatExist ==
  ASSUME NEW s
  PROVE  \A n \in Nat : \E f : FlatUpto(f, s, n)
<1> DEFINE T == {n \in Nat : \E f : FlatUpto(f, s, n)}
<1>1. 0 \in T
  <2>1. FlatUpto([k \in 0 .. 0 |-> << >>], s, 0)
    BY DEF FlatUpto
  <2>2. QED
    BY <2>1
<1>2. ASSUME NEW n \in T
      PROVE  n + 1 \in T
  <2>1. PICK f : FlatUpto(f, s, n)
    OBVIOUS
  <2>2. PICK g : Longer(g, f, n, FlatStep(f[n], s[n + 1], n + 1))
    BY LongerFunction, Zenon
  <2>3. \A k \in 0 .. n : f[k] = IF k = 0 THEN << >> ELSE FlatStep(f[k - 1], s[k], k)
    BY <2>1, Zenon DEF FlatUpto
  <2>4. ASSUME NEW k \in 0 .. n + 1
        PROVE  g[k] = IF k = 0 THEN << >> ELSE FlatStep(g[k - 1], s[k], k)
    <3>1. CASE k \in 0 .. n
      <4>1. g[k] = f[k] /\ (k # 0 => g[k - 1] = f[k - 1])
        <5>1. k - 1 \in 0 .. n \/ k = 0
          BY <3>1
        <5>2. QED
          BY <2>2, <3>1, <5>1, Zenon DEF Longer
      <4>2. QED
        BY <2>3, <3>1, <4>1, Zenon
    <3>2. CASE k = n + 1
      <4>1. k # 0 /\ n \in 0 .. n /\ k - 1 = n
        BY <3>2
      <4>2. QED
        BY <2>2, <3>2, <4>1, Zenon DEF Longer
    <3>3. QED
      BY <3>1, <3>2
  <2>5. g = [k \in 0 .. n + 1 |-> IF k = 0 THEN << >> ELSE FlatStep(g[k - 1], s[k], k)]
    BY <2>2, <2>4, Zenon DEF Longer
  <2>6. FlatUpto(g, s, n + 1)
    BY <2>5, Zenon DEF FlatUpto
  <2>7. QED
    BY <2>6
<1>3. QED
  BY <1>1, <1>2, AllNumbers

Flattens(h, U, s, n) == /\ h[0] = << >> /\ h[n] = FlattenSeq(s)
                        /\ \A k \in 0 .. n : h[k] \in Seq(U)
                        /\ \A k \in 0 .. n - 1 : h[k + 1] = h[k] \o s[k + 1]

\* FlattenSeq obeys its recursion, and yields a sequence.
LEMMA FlattenDef ==
  ASSUME NEW U, NEW s \in Seq(Seq(U)), NEW n \in Nat, n = Len(s)
  PROVE  \E h : Flattens(h, U, s, n)
<1>1. PICK h : FlatUpto(h, s, n)
  BY FlatExist
<1>2. \A k \in 0 .. n : h[k] = IF k = 0 THEN << >> ELSE FlatStep(h[k - 1], s[k], k)
  BY <1>1, Zenon DEF FlatUpto
<1>3. h[0] = << >> /\ << >> \in Seq(U) /\ \A k \in 1 .. n : s[k] \in Seq(U)
  BY <1>2
<1> DEFINE T == {k \in Nat : k <= n => h[k] \in Seq(U)}
<1>4. 0 \in T
  BY <1>3, Zenon
<1>5. ASSUME NEW k \in T
      PROVE  k + 1 \in T
  <2>1. SUFFICES ASSUME k + 1 <= n
                 PROVE  h[k + 1] \in Seq(U)
    OBVIOUS
  <2>2. k + 1 \in 0 .. n /\ k + 1 # 0 /\ k + 1 - 1 = k /\ h[k] \in Seq(U) /\ s[k + 1] \in Seq(U)
    BY <1>3, <2>1
  <2>3. h[k + 1] = FlatStep(h[k], s[k + 1], k + 1)
    BY <1>2, <2>2
  <2>4. QED
    BY <2>2, <2>3 DEF FlatStep
<1>6. \A k \in 0 .. n : h[k] \in Seq(U)
  <2>1. T = Nat
    BY <1>4, <1>5, AllNumbers
  <2>2. QED
    BY <2>1
<1>7. ASSUME NEW k \in 0 .. n - 1
      PROVE  h[k + 1] = h[k] \o s[k + 1]
  <2>1. k + 1 \in 0 .. n /\ k + 1 # 0 /\ k + 1 - 1 = k /\ h[k] \in Seq(U) /\ s[k + 1] \in Seq(U)
    BY <1>3, <1>6
  <2>2. h[k + 1] = FlatStep(h[k], s[k + 1], k + 1)
    BY <1>2, <2>1
  <2>3. CASE k = 0
    <3>1. h[k] \o s[k + 1] = s[k + 1]
      BY <1>3, <2>1, <2>3, ConcatEmptySeq
    <3>2. QED
      BY <2>2, <2>3, <3>1 DEF FlatStep
  <2>4. CASE k # 0
    <3>1. k + 1 # 1
      BY <2>4
    <3>2. QED
      BY <2>2, <3>1, Zenon DEF FlatStep
  <2>5. QED
    BY <2>3, <2>4
<1>8. h[n] = FlattenSeq(s)
  <2>1. CASE n = 0
    <3>1. s = << >>
      BY <2>1, EmptySeq
    <3>2. QED
      BY <1>3, <2>1, <3>1 DEF FlattenSeq
  <2>2. CASE n > 0
    <3> DEFINE Is(f) == f = [k \in 1 .. Len(s) |-> IF k = 1 THEN s[k] ELSE f[k - 1] \o s[k]]
    <3> DEFINE h1 == [k \in 1 .. n |-> h[k]]
    <3>1. ASSUME NEW k \in 1 .. n
          PROVE  h1[k] = IF k = 1 THEN s[k] ELSE h1[k - 1] \o s[k]
      <4>1. k \in 0 .. n /\ k # 0 /\ h[k] = FlatStep(h[k - 1], s[k], k)
        BY <1>2
      <4>2. h1[k] = h[k] /\ (k # 1 => h1[k - 1] = h[k - 1])
        OBVIOUS
      <4>3. QED
        BY <4>1, <4>2 DEF FlatStep
    <3>2. h1 = [k \in 1 .. n |-> h1[k]]
      OBVIOUS
    <3>3. h1[n] = h[n]
      BY <2>2
    <3> HIDE DEF h1
    <3>4. Is(h1)
      BY <3>1, <3>2, Zenon
    <3>5. PICK g : g = CHOOSE f : Is(f)
      OBVIOUS
    <3>6. Is(g)
      BY <3>4, <3>5, Zenon
    <3>7. ASSUME NEW k \in 1 .. n
          PROVE  g[k] = IF k = 1 THEN s[k] ELSE g[k - 1] \o s[k]
      BY <3>6, Zenon
    <3> HIDE DEF Is
    <3>8. \A k \in Nat : k + 1 <= n => g[k + 1] = h1[k + 1]
      <4> DEFINE E == {k \in Nat : k + 1 <= n => g[k + 1] = h1[k + 1]}
      <4>1. 0 \in E
        <5>1. 1 \in 1 .. n
          BY <2>2
        <5>2. QED
          BY <3>1, <3>7, <5>1
      <4>2. ASSUME NEW k \in E
            PROVE  k + 1 \in E
        <5>1. SUFFICES ASSUME k + 1 + 1 <= n
                       PROVE  g[k + 1 + 1] = h1[k + 1 + 1]
          OBVIOUS
        <5>2. k + 1 + 1 \in 1 .. n /\ k + 1 + 1 # 1 /\ k + 1 + 1 - 1 = k + 1 /\ g[k + 1] = h1[k + 1]
          BY <5>1
        <5>3. QED
          BY <3>1, <3>7, <5>2
      <4>3. E = Nat
        BY <4>1, <4>2, AllNumbers
      <4>4. QED
        BY <4>3
    <3>9. g[n] = h[n]
      <4>1. n - 1 \in Nat /\ n - 1 + 1 = n /\ n - 1 + 1 <= n
        BY <2>2
      <4>2. g[n - 1 + 1] = h1[n - 1 + 1]
        BY <3>8, <4>1
      <4>3. QED
        BY <3>3, <4>1, <4>2
    <3>10. FlattenSeq(s) = g[n]
      <4>1. Len(s) # 0
        BY <2>2
      <4>2. QED
        BY <3>5, <4>1, Zenon DEF FlattenSeq, Is
    <3>11. QED
      BY <3>9, <3>10
  <2>3. QED
    BY <2>1, <2>2
<1>9. QED
  BY <1>3, <1>6, <1>7, <1>8 DEF Flattens

\* Put together from the last element to the first, before what there is.
FromBehind(g, s, n, e) == g[0] = e /\ \A k \in 0 .. n - 1 : g[k + 1] = s[n - k] \o g[k]

\* Putting the sequences one after another in front of e, the last first, gives all of them and e.
LEMMA FlattenFromBehind ==
  ASSUME NEW U, NEW s \in Seq(Seq(U)), NEW n \in Nat, n = Len(s), NEW g, NEW e \in Seq(U), FromBehind(g, s, n, e)
  PROVE  g[n] = FlattenSeq(s) \o e /\ FlattenSeq(s) \in Seq(U)
<1>1. PICK h : Flattens(h, U, s, n)
  BY FlattenDef
<1>2. \A k \in 1 .. n : s[k] \in Seq(U)
  OBVIOUS
<1>3. /\ h[0] = << >> /\ h[n] = FlattenSeq(s)
      /\ \A k \in 0 .. n : h[k] \in Seq(U)
      /\ \A k \in 0 .. n - 1 : h[k + 1] = h[k] \o s[k + 1]
      /\ g[0] = e
      /\ \A k \in 0 .. n - 1 : g[k + 1] = s[n - k] \o g[k]
  BY <1>1, Zenon DEF Flattens, FromBehind
<1> DEFINE P(k) == g[k] \in Seq(U) /\ h[n - k] \o g[k] = h[n] \o e
<1> DEFINE T == {k \in Nat : k <= n => P(k)}
<1>4. P(0)
  <2>1. n - 0 = n
    OBVIOUS
  <2>2. QED
    BY <1>3, <2>1, Zenon
<1>5. ASSUME NEW k \in Nat, k + 1 <= n, P(k)
      PROVE  P(k + 1)
  <2>1. PICK p, x, y, z : p = n - (k + 1) /\ x = h[p] /\ y = s[n - k] /\ z = g[k]
    OBVIOUS
  <2>2. p \in 0 .. n - 1 /\ p \in 0 .. n /\ p + 1 = n - k /\ k \in 0 .. n - 1 /\ n - k \in 1 .. n
    BY <1>5, <2>1, SMTT(30)
  <2>3. x \in Seq(U) /\ y \in Seq(U)
    BY <1>2, <1>3, <2>1, <2>2, Zenon
  <2>4. z \in Seq(U) /\ h[n - k] \o z = h[n] \o e
    BY <1>5, <2>1, Zenon
  <2>5. h[n - k] = x \o y
    BY <1>3, <2>1, <2>2, Zenon
  <2>6. g[k + 1] = y \o z
    BY <1>3, <2>1, <2>2, Zenon
  <2>7. (x \o y) \o z = x \o (y \o z) /\ y \o z \in Seq(U)
    <3>1. \A a, b, c \in Seq(U) : (a \o b) \o c = a \o (b \o c)
      BY ConcatAssociative, SMTT(60)
    <3>2. (x \o y) \o z = x \o (y \o z)
      BY <2>3, <2>4, <3>1, Zenon
    <3>3. y \o z \in Seq(U)
      BY ONLY <2>3, <2>4, ConcatProperties
    <3>4. QED
      BY <3>2, <3>3
  <2>8. QED
    BY <2>1, <2>4, <2>5, <2>6, <2>7, Zenon
<1> HIDE DEF P
<1>6. T = Nat
  <2>1. 0 \in T
    BY <1>4
  <2>2. ASSUME NEW k \in T
        PROVE  k + 1 \in T
    <3>1. k \in Nat /\ k + 1 \in Nat /\ (k + 1 <= n => k <= n)
      OBVIOUS
    <3>2. k + 1 <= n => P(k + 1)
      BY <1>5, <3>1
    <3>3. QED
      BY <3>1, <3>2
  <2>3. QED
    BY <2>1, <2>2, AllNumbers
<1>7. P(n) /\ n - n = 0
  BY <1>6
<1>8. g[n] \in Seq(U) /\ << >> \o g[n] = FlattenSeq(s) \o e
  BY <1>3, <1>7, Zenon DEF P
<1>9. << >> \o g[n] = g[n]
  BY <1>8, ConcatEmptySeq
<1>10. FlattenSeq(s) \in Seq(U)
  <2>1. n \in 0 .. n
    OBVIOUS
  <2>2. QED
    BY <1>3, <2>1, Zenon
<1>11. QED
  BY <1>8, <1>9, <1>10, Zenon

------------------------------------------------------------------------------
(* The CPPLINT.cfg of one directory. *)

AccForm(a) == a = [excluded |-> a.excluded, filters |-> a.filters, line_length |-> a.line_length,
                   valid |-> a.valid, hpp |-> a.hpp, over |-> a.over]
FiltersIn(o) == IF o.name = "filter" THEN o.filters ELSE << >>

\* An option adds its filters in front, if it is one.
LEMMA ConfigureIs ==
  ASSUME NEW a, AccForm(a), a.filters \in Seq(Rule), NEW o \in Option, NEW base_name,
         NEW c, c = Configure(a, o, base_name)
  PROVE  AccForm(c) /\ c.filters = FiltersIn(o) \o a.filters /\ c.filters \in Seq(Rule) /\ c.over = a.over
<1>1. PICK x, y, z, u, v, w : /\ a = [excluded |-> x, filters |-> y, line_length |-> z, valid |-> u, hpp |-> v, over |-> w]
                              /\ y \in Seq(Rule)
  BY DEF AccForm
<1>2. o.filters \in Seq(Rule)
  BY DEF Option
<1>3. << >> \o y = y
  BY <1>1, ConcatEmptySeq
<1>4. CASE o.name = "filter"
  <2>1. PICK q : q = o.filters \o y
    OBVIOUS
  <2>2. c = [a EXCEPT !.filters = q]
    BY <1>1, <1>4, <2>1 DEF Configure
  <2>3. c = [excluded |-> x, filters |-> q, line_length |-> z, valid |-> u, hpp |-> v, over |-> w]
    BY <1>1, <2>2
  <2>4. q \in Seq(Rule)
    BY <1>1, <1>2, <2>1, ConcatProperties
  <2>5. AccForm(c) /\ c.filters = q /\ c.over = w /\ a.over = w /\ a.filters = y
    BY <1>1, <2>3 DEF AccForm
  <2>6. FiltersIn(o) \o y = q
    BY <1>4, <2>1 DEF FiltersIn
  <2>7. QED
    BY <2>4, <2>5, <2>6
<1>5. CASE o.name # "filter"
  <2>1. /\ c = [excluded |-> c.excluded, filters |-> y, line_length |-> c.line_length, valid |-> c.valid, hpp |-> c.hpp, over |-> w]
    BY <1>1, <1>5 DEF Configure
  <2>2. AccForm(c) /\ c.filters = y /\ c.over = w /\ a.over = w /\ a.filters = y
    BY <1>1, <2>1 DEF AccForm
  <2>3. FiltersIn(o) = << >>
    BY <1>5 DEF FiltersIn
  <2>4. QED
    BY <1>1, <1>3, <2>2, <2>3
<1>6. QED
  BY <1>4, <1>5

ConfigStep(was, o, base_name) == IF was.excluded THEN was ELSE Configure(was, o, base_name)

ConfigUpto(f, acc, lines, base_name, n) ==
  f = [k \in 0 .. n |-> IF k = 0 THEN acc ELSE ConfigStep(f[k - 1], lines[k], base_name)]

\* There is a function that obeys the recursion of ProcessConfig.
LEMMA ConfigExist ==
  ASSUME NEW acc, NEW lines, NEW base_name
  PROVE  \A n \in Nat : \E f : ConfigUpto(f, acc, lines, base_name, n)
<1> DEFINE T == {n \in Nat : \E f : ConfigUpto(f, acc, lines, base_name, n)}
<1>1. 0 \in T
  <2>1. ConfigUpto([k \in 0 .. 0 |-> acc], acc, lines, base_name, 0)
    BY DEF ConfigUpto
  <2>2. QED
    BY <2>1
<1>2. ASSUME NEW n \in T
      PROVE  n + 1 \in T
  <2>1. PICK f : ConfigUpto(f, acc, lines, base_name, n)
    OBVIOUS
  <2>2. PICK g : Longer(g, f, n, ConfigStep(f[n], lines[n + 1], base_name))
    BY LongerFunction, Zenon
  <2>3. \A k \in 0 .. n : f[k] = IF k = 0 THEN acc ELSE ConfigStep(f[k - 1], lines[k], base_name)
    BY <2>1, Zenon DEF ConfigUpto
  <2>4. ASSUME NEW k \in 0 .. n + 1
        PROVE  g[k] = IF k = 0 THEN acc ELSE ConfigStep(g[k - 1], lines[k], base_name)
    <3>1. CASE k \in 0 .. n
      <4>1. g[k] = f[k] /\ (k # 0 => g[k - 1] = f[k - 1])
        <5>1. k - 1 \in 0 .. n \/ k = 0
          BY <3>1
        <5>2. QED
          BY <2>2, <3>1, <5>1, Zenon DEF Longer
      <4>2. QED
        BY <2>3, <3>1, <4>1, Zenon
    <3>2. CASE k = n + 1
      <4>1. k # 0 /\ n \in 0 .. n /\ k - 1 = n
        BY <3>2
      <4>2. QED
        BY <2>2, <3>2, <4>1, Zenon DEF Longer
    <3>3. QED
      BY <3>1, <3>2
  <2>5. g = [k \in 0 .. n + 1 |-> IF k = 0 THEN acc ELSE ConfigStep(g[k - 1], lines[k], base_name)]
    BY <2>2, <2>4, Zenon DEF Longer
  <2>6. ConfigUpto(g, acc, lines, base_name, n + 1)
    BY <2>5, Zenon DEF ConfigUpto
  <2>7. QED
    BY <2>6
<1>3. QED
  BY <1>1, <1>2, AllNumbers

Top_down(lines) == [k \in DOMAIN lines |-> FiltersIn(lines[Len(lines) + 1 - k])]
NoParent(lines) == \E k \in DOMAIN lines : lines[k].name = "set noparent"

\* ProcessConfig obeys its recursion.
LEMMA ConfigDef ==
  ASSUME NEW acc, NEW cfg, NEW base_name, NEW n \in Nat, n = Len(cfg.lines)
  PROVE  \E f : /\ ConfigUpto(f, acc, cfg.lines, base_name, n)
                /\ cfg.readable => ProcessConfig(acc, cfg, base_name) = [f[n] EXCEPT !.over = f[n].excluded \/ NoParent(cfg.lines)]
                /\ ~cfg.readable => ProcessConfig(acc, cfg, base_name) = [acc EXCEPT !.over = TRUE]
<1>1. \E f : ConfigUpto(f, acc, cfg.lines, base_name, n)
  BY ConfigExist
<1>2. PICK g : g = CHOOSE f : ConfigUpto(f, acc, cfg.lines, base_name, n)
  OBVIOUS
<1>3. ConfigUpto(g, acc, cfg.lines, base_name, n)
  BY <1>1, <1>2, Zenon
<1>4. cfg.readable => ProcessConfig(acc, cfg, base_name) = [g[n] EXCEPT !.over = g[n].excluded \/ NoParent(cfg.lines)]
  BY <1>2, Zenon DEF ProcessConfig, ConfigStep, ConfigUpto, NoParent
<1>5. ~cfg.readable => ProcessConfig(acc, cfg, base_name) = [acc EXCEPT !.over = TRUE]
  BY Zenon DEF ProcessConfig
<1>6. QED
  BY <1>3, <1>4, <1>5, Zenon

\* What the file of one directory adds, if it does not exclude the entry.
Adds(all, acc, cfg) ==
  /\ AccForm(all) /\ all.filters \in Seq(Rule)
  /\ all.excluded => all.over
  /\ cfg.readable /\ ~all.excluded => all.filters = FlattenSeq(Top_down(cfg.lines)) \o acc.filters
  /\ ~cfg.readable => all.filters = acc.filters
  /\ ~all.excluded => (all.over <=> ~cfg.readable \/ NoParent(cfg.lines))

\* The file of one directory adds its filters, the last line first, unless it excludes the path.
LEMMA ConfigAdds ==
  ASSUME NEW acc, AccForm(acc), acc.filters \in Seq(Rule), ~acc.excluded,
         NEW cfg, cfg.lines \in Seq(Option), NEW base_name
  PROVE  Adds(ProcessConfig(acc, cfg, base_name), acc, cfg) /\ FlattenSeq(Top_down(cfg.lines)) \in Seq(Rule)
<1>1. PICK lines, n, all : lines = cfg.lines /\ n = Len(cfg.lines) /\ all = ProcessConfig(acc, cfg, base_name)
  OBVIOUS
<1>2. n \in Nat /\ DOMAIN lines = 1 .. n /\ (\A k \in 1 .. n : lines[k] \in Option) /\ lines \in Seq(Option)
  BY <1>1
<1>3. PICK f : /\ ConfigUpto(f, acc, lines, base_name, n)
               /\ cfg.readable => all = [f[n] EXCEPT !.over = f[n].excluded \/ NoParent(lines)]
               /\ ~cfg.readable => all = [acc EXCEPT !.over = TRUE]
  BY <1>1, <1>2, ConfigDef
<1>4. \A k \in 0 .. n : f[k] = IF k = 0 THEN acc ELSE ConfigStep(f[k - 1], lines[k], base_name)
  BY <1>3, Zenon DEF ConfigUpto
<1> DEFINE P(k) == AccForm(f[k]) /\ f[k].filters \in Seq(Rule)
<1>5. f[0] = acc /\ P(0)
  BY <1>2, <1>4
<1>6. ASSUME NEW k \in Nat, k + 1 <= n, P(k)
      PROVE  /\ P(k + 1)
             /\ f[k].excluded => f[k + 1].excluded
             /\ ~f[k].excluded => f[k + 1].filters = FiltersIn(lines[k + 1]) \o f[k].filters
  <2>1. k + 1 \in 0 .. n /\ k + 1 # 0 /\ k + 1 - 1 = k /\ lines[k + 1] \in Option
    BY <1>2, <1>6
  <2>2. f[k + 1] = ConfigStep(f[k], lines[k + 1], base_name)
    BY <1>4, <2>1
  <2>3. PICK c : c = Configure(f[k], lines[k + 1], base_name)
    OBVIOUS
  <2>4. AccForm(c) /\ c.filters = FiltersIn(lines[k + 1]) \o f[k].filters /\ c.filters \in Seq(Rule)
    BY <1>6, <2>1, <2>3, ConfigureIs
  <2>5. QED
    BY <1>6, <2>2, <2>3, <2>4 DEF ConfigStep
<1> HIDE DEF P
<1>7. \A k \in 0 .. n : P(k)
  <2> DEFINE T == {k \in Nat : k <= n => P(k)}
  <2>1. 0 \in T
    BY <1>5
  <2>2. ASSUME NEW k \in T
        PROVE  k + 1 \in T
    <3>1. k \in Nat /\ k + 1 \in Nat /\ (k + 1 <= n => k <= n)
      BY <1>2
    <3>2. k + 1 <= n => P(k + 1)
      BY <1>6, <3>1
    <3>3. QED
      BY <3>1, <3>2
  <2>3. T = Nat
    BY <2>1, <2>2, AllNumbers
  <2>4. QED
    BY <2>3
<1>8. ASSUME ~f[n].excluded
      PROVE  \A k \in 0 .. n : ~f[k].excluded
  <2> DEFINE T == {k \in Nat : k <= n => ~f[n - k].excluded}
  <2>1. 0 \in T
    <3>1. n - 0 = n
      BY <1>2
    <3>2. QED
      BY <1>8, <3>1
  <2>2. ASSUME NEW k \in T
        PROVE  k + 1 \in T
    <3>1. SUFFICES ASSUME k + 1 <= n
                   PROVE  ~f[n - (k + 1)].excluded
      OBVIOUS
    <3>2. PICK p : p = n - (k + 1)
      OBVIOUS
    <3>3. p \in Nat /\ p \in 0 .. n /\ p + 1 = n - k /\ p + 1 <= n /\ ~f[p + 1].excluded
      BY <1>2, <3>1, <3>2
    <3>4. P(p)
      BY <1>7, <3>3
    <3>5. QED
      BY <1>6, <3>2, <3>3, <3>4
  <2>3. T = Nat
    BY <2>1, <2>2, AllNumbers
  <2>4. ASSUME NEW k \in 0 .. n
        PROVE  ~f[k].excluded
    <3>1. n - k \in Nat /\ n - k <= n /\ n - (n - k) = k
      BY <1>2
    <3>2. n - k \in T
      BY <2>3, <3>1
    <3>3. QED
      BY <3>1, <3>2
  <2>5. QED
    BY <2>4
<1>9. PICK down : down = Top_down(lines)
  OBVIOUS
<1>10. down \in Seq(Seq(Rule)) /\ Len(down) = n /\ \A k \in 0 .. n - 1 : down[n - k] = FiltersIn(lines[k + 1])
  <2>1. \A k \in 1 .. n : FiltersIn(lines[k]) \in Seq(Rule)
    <3>1. \A k \in 1 .. n : lines[k].filters \in Seq(Rule)
      BY <1>2 DEF Option
    <3>2. << >> \in Seq(Rule)
      OBVIOUS
    <3>3. QED
      BY <3>1, <3>2, Zenon DEF FiltersIn
  <2>2. down = [k \in 1 .. n |-> FiltersIn(lines[n + 1 - k])]
    BY <1>1, <1>2, <1>9 DEF Top_down
  <2>3. \A k \in 1 .. n : n + 1 - k \in 1 .. n
    BY <1>2
  <2>4. down \in [1 .. n -> Seq(Rule)]
    BY <2>1, <2>2, <2>3
  <2>5. \A k \in 0 .. n - 1 : n - k \in 1 .. n /\ n + 1 - (n - k) = k + 1
    BY <1>2
  <2>6. \A k \in 0 .. n - 1 : down[n - k] = FiltersIn(lines[k + 1])
    BY <2>2, <2>5
  <2>7. down \in Seq(Seq(Rule)) /\ Len(down) = n
    BY <1>2, <2>4
  <2>8. QED
    BY <2>6, <2>7
<1>11. FlattenSeq(down) \in Seq(Rule) /\ (~f[n].excluded => f[n].filters = FlattenSeq(down) \o acc.filters)
  <2>1. FlattenSeq(down) \in Seq(Rule)
    <3>1. PICK h : Flattens(h, Rule, down, n)
      BY <1>2, <1>10, FlattenDef
    <3>2. n \in 0 .. n
      BY <1>2
    <3>3. QED
      BY <3>1, <3>2, Zenon DEF Flattens
  <2>2. ASSUME ~f[n].excluded
        PROVE  f[n].filters = FlattenSeq(down) \o acc.filters
    <3> DEFINE g == [k \in 0 .. n |-> f[k].filters]
    <3>1. g[0] = acc.filters /\ g[n] = f[n].filters
      BY <1>2, <1>5
    <3>2. ASSUME NEW k \in 0 .. n - 1
          PROVE  g[k + 1] = down[n - k] \o g[k]
      <4>1. k \in Nat /\ k + 1 <= n /\ k \in 0 .. n /\ k + 1 \in 0 .. n
        BY <1>2
      <4>2. P(k) /\ ~f[k].excluded
        BY <1>7, <1>8, <2>2, <4>1
      <4>3. f[k + 1].filters = FiltersIn(lines[k + 1]) \o f[k].filters
        BY <1>6, <4>1, <4>2
      <4>4. QED
        BY <1>10, <4>1, <4>3
    <3> HIDE DEF g
    <3>3. g[n] = FlattenSeq(down) \o acc.filters
      <4>1. PICK e \in Seq(Rule) : e = acc.filters
        OBVIOUS
      <4>2. g[0] = e /\ n \in Nat /\ n = Len(down) /\ down \in Seq(Seq(Rule))
        BY <1>2, <1>10, <3>1, <4>1
      <4>3. g[n] = FlattenSeq(down) \o e
        <5>1. FromBehind(g, down, n, e)
          BY <3>2, <4>2, Zenon DEF FromBehind
        <5>2. QED
          BY <4>2, <5>1, FlattenFromBehind, SMTT(30)
      <4>4. QED
        BY <4>1, <4>3
    <3>4. QED
      BY <3>1, <3>3
  <2>3. QED
    BY <2>1, <2>2
<1>12. AccForm(f[n]) /\ f[n].filters \in Seq(Rule)
  <2>1. P(n)
    BY <1>2, <1>7
  <2>2. QED
    BY <2>1 DEF P
<1>13. CASE cfg.readable
  <2>1. PICK over : over = (f[n].excluded \/ NoParent(lines))
    OBVIOUS
  <2>2. all = [f[n] EXCEPT !.over = over]
    BY <1>3, <1>13, <2>1
  <2>3. /\ AccForm(all) /\ all.filters = f[n].filters /\ all.excluded = f[n].excluded
        /\ all.over = over
    BY <1>12, <2>2 DEF AccForm
  <2>4. QED
    BY <1>1, <1>9, <1>11, <1>12, <1>13, <2>1, <2>3 DEF Adds
<1>14. CASE ~cfg.readable
  <2>1. all = [acc EXCEPT !.over = TRUE]
    BY <1>3, <1>14
  <2>2. AccForm(all) /\ all.filters = acc.filters /\ all.excluded = acc.excluded /\ all.over = TRUE
    BY <2>1 DEF AccForm
  <2>3. QED
    BY <1>1, <1>9, <1>11, <1>14, <2>2 DEF Adds
<1>15. QED
  BY <1>13, <1>14

------------------------------------------------------------------------------
(* The CPPLINT.cfg files of all directories above a file. *)

Dir(path, d) == SubSeq(path, 1, d)
There(path, d) == Dir(path, d) \in DOMAIN configs
EndsAt(path, d) == There(path, d) /\ (~configs[Dir(path, d)].readable \/ NoParent(configs[Dir(path, d)].lines))
Counts(path, d) == There(path, d) /\ configs[Dir(path, d)].readable /\ \A e \in d + 1 .. Len(path) - 1 : ~EndsAt(path, e)
Added(path) == [k \in DOMAIN path |-> IF Counts(path, k - 1) THEN FlattenSeq(Top_down(configs[Dir(path, k - 1)].lines)) ELSE << >>]

\* FiltersOf, with the filters of each directory named.
LEMMA FiltersOfIs ==
  ASSUME NEW path
  PROVE  FiltersOf(path) = _DEFAULT_FILTERS \o options.filters \o FlattenSeq(Added(path))
BY Zenon DEF FiltersOf, Dir, There, EndsAt, Counts, Added, NoParent, Top_down, FiltersIn

OverrideStep(was, path, n) ==
  IF was.over \/ Dir(path, Len(path) - n) \notin DOMAIN configs THEN was
  ELSE ProcessConfig(was, configs[Dir(path, Len(path) - n)], path[Len(path) - n + 1])
Acc == [excluded |-> FALSE, filters |-> << >>, line_length |-> _line_length,
        valid |-> _valid_extensions, hpp |-> _hpp_headers, over |-> FALSE]

OverrideUpto(f, path, n) ==
  f = [k \in 0 .. n |-> IF k = 0 THEN Acc ELSE OverrideStep(f[k - 1], path, k)]

\* There is a function that obeys the recursion of ProcessConfigOverrides.
LEMMA OverrideExist ==
  ASSUME NEW path
  PROVE  \A n \in Nat : \E f : OverrideUpto(f, path, n)
<1> DEFINE T == {n \in Nat : \E f : OverrideUpto(f, path, n)}
<1>1. 0 \in T
  <2>1. OverrideUpto([k \in 0 .. 0 |-> Acc], path, 0)
    BY DEF OverrideUpto
  <2>2. QED
    BY <2>1
<1>2. ASSUME NEW n \in T
      PROVE  n + 1 \in T
  <2>1. PICK f : OverrideUpto(f, path, n)
    OBVIOUS
  <2>2. PICK g : Longer(g, f, n, OverrideStep(f[n], path, n + 1))
    BY LongerFunction, Zenon
  <2>3. \A k \in 0 .. n : f[k] = IF k = 0 THEN Acc ELSE OverrideStep(f[k - 1], path, k)
    BY <2>1, Zenon DEF OverrideUpto
  <2>4. ASSUME NEW k \in 0 .. n + 1
        PROVE  g[k] = IF k = 0 THEN Acc ELSE OverrideStep(g[k - 1], path, k)
    <3>1. CASE k \in 0 .. n
      <4>1. g[k] = f[k] /\ (k # 0 => g[k - 1] = f[k - 1])
        <5>1. k - 1 \in 0 .. n \/ k = 0
          BY <3>1
        <5>2. QED
          BY <2>2, <3>1, <5>1, Zenon DEF Longer
      <4>2. QED
        BY <2>3, <3>1, <4>1, Zenon
    <3>2. CASE k = n + 1
      <4>1. k # 0 /\ n \in 0 .. n /\ k - 1 = n
        BY <3>2
      <4>2. QED
        BY <2>2, <3>2, <4>1, Zenon DEF Longer
    <3>3. QED
      BY <3>1, <3>2
  <2>5. g = [k \in 0 .. n + 1 |-> IF k = 0 THEN Acc ELSE OverrideStep(g[k - 1], path, k)]
    BY <2>2, <2>4, Zenon DEF Longer
  <2>6. OverrideUpto(g, path, n + 1)
    BY <2>5, Zenon DEF OverrideUpto
  <2>7. QED
    BY <2>6
<1>3. QED
  BY <1>1, <1>2, AllNumbers

\* ProcessConfigOverrides obeys its recursion.
LEMMA OverrideDef ==
  ASSUME NEW path, NEW n \in Nat, n = Len(path)
  PROVE  \E f : OverrideUpto(f, path, n) /\ ProcessConfigOverrides(path) = f[n]
<1>1. \E f : OverrideUpto(f, path, n)
  BY OverrideExist
<1>2. PICK g : g = CHOOSE f : OverrideUpto(f, path, n)
  OBVIOUS
<1>3. OverrideUpto(g, path, n)
  BY <1>1, <1>2, Zenon
<1>4. ProcessConfigOverrides(path) = g[n]
  BY <1>2, Zenon DEF ProcessConfigOverrides, OverrideStep, OverrideUpto, Acc, Dir
<1>5. QED
  BY <1>3, <1>4

\* After the n nearest directories.
EndedBy(path, n) == \E e \in Len(path) - n .. Len(path) - 1 : EndsAt(path, e)
SoFar(was, path, n) ==
  /\ AccForm(was) /\ was.filters \in Seq(Rule)
  /\ was.excluded => was.over
  /\ ~was.excluded => (was.over <=> EndedBy(path, n))

Farther(now, was, path, n) ==
  /\ was.excluded => now.excluded
  /\ ~now.excluded => now.filters = Added(path)[Len(path) - n] \o was.filters
  /\ Added(path)[Len(path) - n] \in Seq(Rule)

\* One directory farther up: its filters come in front of those below, if they count.
LEMMA OneDirectory ==
  ASSUME LintTyped, NEW path \in Seq(STRING), NEW n \in Nat, n + 1 <= Len(path), NEW was, SoFar(was, path, n),
         NEW now, now = OverrideStep(was, path, n + 1)
  PROVE  SoFar(now, path, n + 1) /\ Farther(now, was, path, n)
<1>1. PICK l, d, added : l = Len(path) /\ d = l - (n + 1) /\ added = Added(path)[l - n]
  OBVIOUS
<1>2. /\ l \in Nat /\ DOMAIN path = 1 .. l /\ d \in Nat /\ l - n \in 1 .. l /\ l - n - 1 = d
      /\ l - n = d + 1 /\ d \in d .. l - 1
      /\ \A e : e \in d .. l - 1 <=> e = d \/ e \in d + 1 .. l - 1
  BY <1>1
<1>3. added = IF Counts(path, d) THEN FlattenSeq(Top_down(configs[Dir(path, d)].lines)) ELSE << >>
  BY <1>1, <1>2 DEF Added
<1>4. now = IF was.over \/ ~There(path, d) THEN was ELSE ProcessConfig(was, configs[Dir(path, d)], path[d + 1])
  BY <1>1 DEF OverrideStep, There
<1>5. /\ Counts(path, d) <=> There(path, d) /\ configs[Dir(path, d)].readable /\ ~EndedBy(path, n)
      /\ EndedBy(path, n + 1) <=> EndedBy(path, n) \/ EndsAt(path, d)
  <2>1. EndedBy(path, n) <=> \E e \in d + 1 .. l - 1 : EndsAt(path, e)
    BY <1>1, <1>2, Zenon DEF EndedBy
  <2>2. EndedBy(path, n + 1) <=> \E e \in d .. l - 1 : EndsAt(path, e)
    BY <1>1, Zenon DEF EndedBy
  <2>3. EndedBy(path, n + 1) <=> EndedBy(path, n) \/ EndsAt(path, d)
    BY <1>2, <2>1, <2>2, Zenon
  <2>4. QED
    BY <1>1, <2>1, <2>3, Zenon DEF Counts
<1>6. was.filters \in Seq(Rule) /\ << >> \o was.filters = was.filters /\ << >> \in Seq(Rule)
  <2>1. was.filters \in Seq(Rule)
    BY DEF SoFar
  <2>2. QED
    BY <2>1, ConcatEmptySeq
<1>7. CASE was.over \/ ~There(path, d)
  <2>1. now = was
    BY <1>4, <1>7
  <2>2. ~EndsAt(path, d) \/ was.over
    BY <1>7 DEF EndsAt
  <2>3. SoFar(now, path, n + 1)
    BY <1>5, <2>1, <2>2, Zenon DEF SoFar
  <2>4. ~was.excluded => ~Counts(path, d)
    BY <1>5, <1>7 DEF SoFar
  <2>5. ~now.excluded => added = << >>
    BY <1>3, <2>1, <2>4
  <2>6. added \in Seq(Rule)
    <3>1. CASE Counts(path, d)
      <4>1. There(path, d)
        BY <3>1 DEF Counts
      <4>2. configs[Dir(path, d)].lines \in Seq(Option)
        BY <4>1, LintAssumption DEF LintTyped, There, configs
      <4>3. PICK a : a = Acc
        OBVIOUS
      <4>4. AccForm(a) /\ a.filters = << >> /\ ~a.excluded
        BY <4>3 DEF AccForm, Acc
      <4>5. FlattenSeq(Top_down(configs[Dir(path, d)].lines)) \in Seq(Rule)
        BY <1>6, <4>2, <4>4, ConfigAdds
      <4>6. QED
        BY <1>3, <3>1, <4>5
    <3>2. CASE ~Counts(path, d)
      BY <1>3, <1>6, <3>2
    <3>3. QED
      BY <3>1, <3>2
  <2>7. QED
    BY <1>1, <1>6, <2>1, <2>3, <2>5, <2>6, Zenon DEF Farther
<1>8. CASE ~was.over /\ There(path, d)
  <2>1. PICK cfg : cfg = configs[Dir(path, d)]
    OBVIOUS
  <2>2. cfg.lines \in Seq(Option)
    BY <1>8, <2>1, LintAssumption DEF LintTyped, There, configs
  <2>3. ~was.excluded /\ AccForm(was) /\ ~EndedBy(path, n)
    BY <1>8 DEF SoFar
  <2>4. now = ProcessConfig(was, cfg, path[d + 1])
    BY <1>4, <1>8, <2>1
  <2>5. Adds(now, was, cfg) /\ FlattenSeq(Top_down(cfg.lines)) \in Seq(Rule)
    BY <1>6, <2>2, <2>3, <2>4, ConfigAdds
  <2>6. EndsAt(path, d) <=> ~cfg.readable \/ NoParent(cfg.lines)
    BY <1>8, <2>1 DEF EndsAt
  <2>7. Counts(path, d) <=> cfg.readable
    BY <1>5, <1>8, <2>1, <2>3
  <2>8. SoFar(now, path, n + 1)
    BY <1>5, <2>3, <2>5, <2>6, Zenon DEF SoFar, Adds
  <2>9. added \in Seq(Rule)
    BY <1>3, <1>6, <2>1, <2>5, Zenon
  <2>10. ~now.excluded => now.filters = added \o was.filters
    BY <1>3, <1>6, <2>1, <2>5, <2>7, Zenon DEF Adds
  <2>11. QED
    BY <1>1, <2>3, <2>8, <2>9, <2>10, Zenon DEF Farther
<1>9. QED
  BY <1>7, <1>8

\* A file that is not excluded has the filters of the directories above it.
LEMMA OverridesAreRight ==
  ASSUME LintTyped, NEW path \in Seq(STRING), NEW cfg, cfg = ProcessConfigOverrides(path), ~cfg.excluded
  PROVE  cfg.filters = FlattenSeq(Added(path)) /\ cfg.filters \in Seq(Rule)
<1>1. PICK l, added : l = Len(path) /\ added = Added(path)
  OBVIOUS
<1>2. l \in Nat /\ DOMAIN path = 1 .. l
  BY <1>1
<1>3. PICK f : OverrideUpto(f, path, l) /\ cfg = f[l]
  BY <1>1, <1>2, OverrideDef
<1>4. \A k \in 0 .. l : f[k] = IF k = 0 THEN Acc ELSE OverrideStep(f[k - 1], path, k)
  BY <1>3, Zenon DEF OverrideUpto
<1> DEFINE P(k) == SoFar(f[k], path, k)
<1>5. P(0)
  <2>1. f[0] = Acc
    BY <1>2, <1>4
  <2>2. ~EndedBy(path, 0)
    BY <1>1, <1>2 DEF EndedBy
  <2>3. QED
    BY <2>1, <2>2 DEF SoFar, Acc, AccForm
<1>6. ASSUME NEW k \in Nat, k + 1 <= l, P(k)
      PROVE  /\ P(k + 1)
             /\ f[k].excluded => f[k + 1].excluded
             /\ ~f[k + 1].excluded => f[k + 1].filters = added[l - k] \o f[k].filters
             /\ added[l - k] \in Seq(Rule)
  <2>1. k + 1 \in 0 .. l /\ k + 1 # 0 /\ k + 1 - 1 = k
    BY <1>2, <1>6
  <2>2. f[k + 1] = OverrideStep(f[k], path, k + 1)
    BY <1>4, <2>1
  <2>3. PICK was, now : was = f[k] /\ now = f[k + 1]
    OBVIOUS
  <2>4. SoFar(was, path, k) /\ now = OverrideStep(was, path, k + 1) /\ k + 1 <= Len(path)
    BY <1>1, <1>6, <2>2, <2>3
  <2>5. SoFar(now, path, k + 1) /\ Farther(now, was, path, k)
    BY <1>6, <2>4, OneDirectory
  <2>6. QED
    BY <1>1, <2>3, <2>5, Zenon DEF Farther
<1> HIDE DEF P
<1>7. \A k \in 0 .. l : P(k)
  <2> DEFINE T == {k \in Nat : k <= l => P(k)}
  <2>1. 0 \in T
    BY <1>5
  <2>2. ASSUME NEW k \in T
        PROVE  k + 1 \in T
    <3>1. k \in Nat /\ k + 1 \in Nat /\ (k + 1 <= l => k <= l)
      BY <1>2
    <3>2. k + 1 <= l => P(k + 1)
      BY <1>6, <3>1
    <3>3. QED
      BY <3>1, <3>2
  <2>3. T = Nat
    BY <2>1, <2>2, AllNumbers
  <2>4. QED
    BY <2>3
<1>8. \A k \in 0 .. l : ~f[k].excluded
  <2> DEFINE T == {k \in Nat : k <= l => ~f[l - k].excluded}
  <2>1. 0 \in T
    <3>1. l - 0 = l
      BY <1>2
    <3>2. QED
      BY <1>3, <3>1
  <2>2. ASSUME NEW k \in T
        PROVE  k + 1 \in T
    <3>1. SUFFICES ASSUME k + 1 <= l
                   PROVE  ~f[l - (k + 1)].excluded
      OBVIOUS
    <3>2. PICK p : p = l - (k + 1)
      OBVIOUS
    <3>3. p \in Nat /\ p \in 0 .. l /\ p + 1 = l - k /\ p + 1 <= l /\ ~f[p + 1].excluded
      BY <1>2, <3>1, <3>2
    <3>4. P(p)
      BY <1>7, <3>3
    <3>5. QED
      BY <1>6, <3>2, <3>3, <3>4
  <2>3. T = Nat
    BY <2>1, <2>2, AllNumbers
  <2>4. ASSUME NEW k \in 0 .. l
        PROVE  ~f[k].excluded
    <3>1. l - k \in Nat /\ l - k <= l /\ l - (l - k) = k
      BY <1>2
    <3>2. l - k \in T
      BY <2>3, <3>1
    <3>3. QED
      BY <3>1, <3>2
  <2>5. QED
    BY <2>4
<1>9. added \in Seq(Seq(Rule)) /\ Len(added) = l
  <2>1. added = [k \in 1 .. l |-> added[k]]
    BY <1>1, <1>2 DEF Added
  <2>2. ASSUME NEW k \in 1 .. l
        PROVE  added[k] \in Seq(Rule)
    <3>1. PICK p : p = l - k
      OBVIOUS
    <3>2. p \in Nat /\ p + 1 <= l /\ p \in 0 .. l /\ l - p = k
      BY <1>2, <3>1
    <3>3. QED
      BY <1>6, <1>7, <3>2
  <2>3. added \in [1 .. l -> Seq(Rule)]
    BY <2>1, <2>2, Zenon
  <2>4. QED
    BY <1>2, <2>3
<1> DEFINE g == [k \in 0 .. l |-> f[k].filters]
<1>10. g[0] = << >> /\ g[l] = cfg.filters
  BY <1>2, <1>3, <1>4 DEF Acc
<1>11. ASSUME NEW k \in 0 .. l - 1
       PROVE  g[k + 1] = added[l - k] \o g[k]
  <2>1. k \in Nat /\ k + 1 <= l /\ k \in 0 .. l /\ k + 1 \in 0 .. l
    BY <1>2
  <2>2. f[k + 1].filters = added[l - k] \o f[k].filters
    BY <1>6, <1>7, <1>8, <2>1
  <2>3. QED
    BY <2>1, <2>2
<1> HIDE DEF g
<1>12. g[l] = FlattenSeq(added) \o << >> /\ FlattenSeq(added) \in Seq(Rule)
  <2>0. << >> \in Seq(Rule)
    OBVIOUS
  <2>1. PICK e \in Seq(Rule) : e = << >>
    BY <2>0
  <2>2. FromBehind(g, added, l, e)
    BY <1>10, <1>11, <2>1, Zenon DEF FromBehind
  <2>3. g[l] = FlattenSeq(added) \o e /\ FlattenSeq(added) \in Seq(Rule)
    BY <1>2, <1>9, <2>2, FlattenFromBehind
  <2>4. QED
    BY <2>1, <2>3
<1>13. FlattenSeq(added) \o << >> = FlattenSeq(added)
  BY <1>12, ConcatEmptySeq
<1>14. QED
  BY <1>1, <1>10, <1>12, <1>13, Zenon

------------------------------------------------------------------------------
(* The counts, and where the suppressions come from. *)

Fields == {"verbose_level", "filters", "_filters_backup", "error_count", "errors_by_category", "counting", "quiet"}

\* Of the state, what Error leaves alone.
Alike(st, was) ==
  /\ DOMAIN st = Fields /\ st.filters = was.filters /\ st._filters_backup = was._filters_backup
  /\ st.verbose_level = was.verbose_level

\* Reporting changes no filter and no verbosity.
LEMMA ErrorKeeps ==
  ASSUME NEW log, NEW sup, NEW errors, NEW st, NEW was, st = log.state, Alike(st, was)
  PROVE  Alike(Error(log, sup, errors).state, was)
<1>1. PICK printed : Error(log, sup, errors).state = IncrementErrorCounts(st, printed)
  BY DEF Error
<1>2. PICK x, y : IncrementErrorCounts(st, printed) = [st EXCEPT !.error_count = x, !.errors_by_category = y]
  BY DEF IncrementErrorCounts
<1>3. Alike([st EXCEPT !.error_count = x, !.errors_by_category = y], was)
  BY DEF Alike, Fields
<1>4. QED
  BY <1>1, <1>2, <1>3, Zenon

\* Every suppression comes from a comment or a mark of the text.
ComeFrom(sup, raw, global) ==
  /\ sup = [lines |-> sup.lines, global |-> global]
  /\ \A s \in sup.lines : \E k \in DOMAIN raw : Speaks(raw[k], k, s[2]) /\ raw[k].nolint[2] = s[1]

\* A comment that is read adds a suppression that comes from it.
LEMMA CommentRead ==
  ASSUME NEW raw, NEW global, NEW sup, ComeFrom(sup, raw, global),
         NEW k, NEW l, l.nolint # << >> => k \in DOMAIN raw /\ raw[k].nolint = l.nolint,
         NEW now, now = ParseNolintSuppressions(sup, l, k).state
  PROVE  ComeFrom(now, raw, global)
<1>1. CASE now = sup
  BY <1>1
<1>2. CASE /\ l.nolint # << >>
           /\ now = [sup EXCEPT !.lines = @ \cup {<<l.nolint[2], SuppressedLine(l.nolint, k)>>}]
  <2>1. PICK j, category : j = SuppressedLine(l.nolint, k) /\ category = l.nolint[2]
    OBVIOUS
  <2>2. Speaks(raw[k], k, j) /\ raw[k].nolint[2] = category /\ k \in DOMAIN raw
    BY <1>2, <2>1 DEF Speaks, SuppressedLine
  <2>3. now.lines = sup.lines \cup {<<category, j>>} /\ now = [lines |-> now.lines, global |-> global]
    <3>1. PICK L : sup = [lines |-> L, global |-> global]
      BY DEF ComeFrom
    <3>2. now = [sup EXCEPT !.lines = @ \cup {<<category, j>>}]
      BY <1>2, <2>1
    <3>3. now = [lines |-> L \cup {<<category, j>>}, global |-> global]
      BY <3>1, <3>2
    <3>4. QED
      BY <3>1, <3>3
  <2>4. ASSUME NEW s \in now.lines
        PROVE  \E m \in DOMAIN raw : Speaks(raw[m], m, s[2]) /\ raw[m].nolint[2] = s[1]
    <3>1. CASE s \in sup.lines
      BY <3>1 DEF ComeFrom
    <3>2. CASE s = <<category, j>>
      BY <2>2, <3>2
    <3>3. QED
      BY <2>3, <3>1, <3>2
  <2>5. QED
    BY <2>3, <2>4 DEF ComeFrom
<1>3. QED
  BY <1>1, <1>2 DEF ParseNolintSuppressions

\* A line has the same NOLINT comment without its raw strings, or none.
LEMMA CommentsOfElided ==
  ASSUME NEW lines \in Seq({Line[n] : n \in DOMAIN Line}), NEW doc0,
         doc0 = CleansedLines(RemoveMultiLineComments(lines).lines), NEW k \in DOMAIN doc0.elided
  PROVE  doc0.elided[k].nolint = << >> \/ doc0.elided[k].nolint = doc0.raw_lines[k].nolint
<1>1. PICK raw : raw = RemoveMultiLineComments(lines).lines
  OBVIOUS
<1>2. DOMAIN raw = 1 .. Len(lines) /\ k \in 1 .. Len(lines)
  <2>1. DOMAIN raw = 1 .. Len(lines)
    <3>1. PICK comments : raw = [k2 \in DOMAIN lines |-> IF k2 \in comments THEN Comment ELSE lines[k2]]
      BY <1>1, Zenon DEF RemoveMultiLineComments
    <3>2. DOMAIN raw = DOMAIN lines
      BY <3>1
    <3>3. QED
      BY <3>2
  <2>2. NumLines(doc0) = Len(lines) /\ DOMAIN doc0.elided = 1 .. NumLines(doc0)
    BY DocFacts
  <2>3. QED
    BY <2>1, <2>2
<1>3. PICK l : l = raw[k]
  OBVIOUS
<1>4. PICK comments : raw = [j \in DOMAIN lines |-> IF j \in comments THEN Comment ELSE lines[j]]
  BY <1>1 DEF RemoveMultiLineComments
<1>5. l = Comment \/ l \in {Line[n] : n \in DOMAIN Line}
  BY <1>2, <1>3, <1>4
<1>6. "nolint" \in DOMAIN l
  <2>1. "nolint" \in DOMAIN Plain /\ "nolint" \in DOMAIN Comment
    BY DEF Plain, Comment
  <2>2. QED
    BY <1>5, <2>1, LineAssumption
<1>7. PICK e : e = doc0.elided[k]
  OBVIOUS
<1>8. e = CleanseRawStrings(raw)[k] /\ l = doc0.raw_lines[k]
  BY <1>1, <1>3, <1>7 DEF CleansedLines
<1>9. e = InRawString \/ e = l \/ \E toks : e = [l EXCEPT !.toks = toks]
  <2>1. PICK inside : CleanseRawStrings(raw) =
                        [j \in DOMAIN raw |-> IF inside[j - 1] /\ inside[j] THEN InRawString
                                              ELSE IF inside[j - 1] THEN [raw[j] EXCEPT !.toks = <<"str">> \o raw[j].tail]
                                              ELSE IF inside[j] THEN [raw[j] EXCEPT !.toks = @ \o <<"str">>]
                                              ELSE raw[j]]
    BY Zenon DEF CleanseRawStrings
  <2>2. e = IF inside[k - 1] /\ inside[k] THEN InRawString
            ELSE IF inside[k - 1] THEN [l EXCEPT !.toks = <<"str">> \o l.tail]
            ELSE IF inside[k] THEN [l EXCEPT !.toks = @ \o <<"str">>]
            ELSE l
    BY <1>2, <1>3, <1>8, <2>1
  <2>3. QED
    BY <2>2, Zenon
<1>10. e.nolint = << >> \/ e.nolint = l.nolint
  <2>1. CASE e = InRawString
    BY <2>1 DEF InRawString, Plain
  <2>2. CASE \E toks : e = [l EXCEPT !.toks = toks]
    BY <1>6, <2>2
  <2>3. QED
    BY <1>9, <2>1, <2>2
<1>11. QED
  BY <1>7, <1>8, <1>10

\* The least and the greatest number of a set of line numbers.
LEMMA FirstOf ==
  ASSUME NEW N \in Nat, NEW S, S \subseteq 1 .. N
  PROVE  First(S, 0) \in 0 .. N
<1>1. CASE S = {}
  BY <1>1 DEF First
<1>2. CASE S # {}
  <2>0. S \in SUBSET Nat
    OBVIOUS
  <2>1. \E m \in S : \A k \in S : m <= k
    BY <1>2, <2>0, LeastNumber
  <2>2. Min(S) \in S
    BY <2>1, Zenon DEF Min
  <2>3. First(S, 0) = Min(S)
    BY <1>2, Zenon DEF First
  <2>4. PICK m : m = First(S, 0)
    OBVIOUS
  <2>5. m \in S
    BY <2>2, <2>3, <2>4, Zenon
  <2>6. m \in 0 .. N
    BY <2>5
  <2>7. QED
    BY <2>4, <2>6, Zenon
<1>3. QED
  BY <1>1, <1>2

\* The greatest of a set of line numbers.
LEMMA GreatestOf ==
  ASSUME NEW N \in Nat, NEW S, S \subseteq 1 .. N
  PROVE  Latest(S, 0) \in 0 .. N
<1>1. CASE S # {}
  <2> DEFINE T == {n \in Nat : \E k \in S : n = N - k}
  <2>1. T # {} /\ T \in SUBSET Nat
    <3>1. PICK k \in S : TRUE
      BY <1>1
    <3>2. N - k \in Nat
      OBVIOUS
    <3>3. N - k \in T
      BY <3>2
    <3>4. QED
      BY <3>3
  <2>2. PICK m \in T : \A n \in T : m <= n
    BY <2>1, LeastNumber
  <2>3. PICK k \in S : m = N - k
    OBVIOUS
  <2>4. \A j \in S : N - j \in T
    OBVIOUS
  <2> HIDE DEF T
  <2>5. \A j \in S : j <= k
    BY <2>2, <2>3, <2>4
  <2>6. \A j \in S : k >= j
    BY <2>5
  <2>7. Max(S) \in S
    BY <2>6, Zenon DEF Max
  <2>8. Latest(S, 0) = Max(S)
    BY <1>1, Zenon DEF Latest
  <2>9. PICK p : p = Latest(S, 0)
    OBVIOUS
  <2>10. p \in S
    BY <2>7, <2>8, <2>9, Zenon
  <2>11. p \in 0 .. N
    BY <2>10
  <2>12. QED
    BY <2>9, <2>11, Zenon
<1>2. CASE S = {}
  BY <1>2 DEF Latest
<1>3. QED
  BY <1>1, <1>2

GuardSteps(d, E) == {<<"parse", k>> : k \in 0 .. NumLines(d)} \cup {<<"error", e>> : e \in E}

\* The check of the header guard reads the comments of lines of the text.
LEMMA GuardIs ==
  ASSUME NEW d, NumLines(d) \in Nat, DOMAIN d.elided = 1 .. NumLines(d), NEW cppvar
  PROVE  \E E : CheckForHeaderGuard(d, cppvar) \in Seq(GuardSteps(d, E))
<1>1. PICK lines, first, last, guard :
        lines = d.elided /\ first = IfndefAt(lines) /\ last = EndifAt(lines) /\ guard = CheckForHeaderGuard(d, cppvar)
  OBVIOUS
<1>2. first \in 0 .. NumLines(d) /\ last \in 0 .. NumLines(d)
  BY <1>1, FirstOf, GreatestOf DEF IfndefAt, EndifAt
<1>3. PICK e1, e2, e3, style, closed :
        /\ style = << >> \/ style = <<<<"parse", first>>, <<"error", e1>>>>
        /\ closed = << >> \/ closed = <<<<"error", e2>>>>
        /\ guard = << >> \/ guard = <<<<"error", e3>>>> \/ guard = style \o <<<<"parse", last>>>> \o closed
  <2>1. PICK style, closed : style = GuardStyle(lines, first, cppvar) /\ closed = GuardClosed(lines, last, cppvar)
    OBVIOUS
  <2>2. PICK e3 : e3 = <<0, "build/header_guard", 5>>
    OBVIOUS
  <2>3. PICK e1 : style = << >> \/ style = <<<<"parse", first>>, <<"error", e1>>>>
    BY <2>1, Zenon DEF GuardStyle
  <2>4. PICK e2 : closed = << >> \/ closed = <<<<"error", e2>>>>
    BY <2>1, Zenon DEF GuardClosed
  <2>5. guard = << >> \/ guard = <<<<"error", e3>>>> \/ guard = style \o <<<<"parse", last>>>> \o closed
    BY <1>1, <2>1, <2>2, Zenon DEF CheckForHeaderGuard
  <2>6. QED
    BY <2>3, <2>4, <2>5, Zenon
<1>4. PICK G : G = GuardSteps(d, {e1, e2, e3})
  OBVIOUS
<1>5. /\ <<"parse", first>> \in G /\ <<"parse", last>> \in G
      /\ <<"error", e1>> \in G /\ <<"error", e2>> \in G /\ <<"error", e3>> \in G
  BY <1>2, <1>4 DEF GuardSteps
<1>6. << >> \in Seq(G) /\ <<<<"parse", last>>>> \in Seq(G) /\ <<<<"error", e3>>>> \in Seq(G)
  BY <1>5
<1>7. style \in Seq(G)
  <2>1. <<<<"parse", first>>, <<"error", e1>>>> \in Seq(G)
    BY <1>5
  <2>2. QED
    BY <1>3, <1>6, <2>1
<1>8. closed \in Seq(G)
  <2>1. <<<<"error", e2>>>> \in Seq(G)
    BY <1>5
  <2>2. QED
    BY <1>3, <1>6, <2>1
<1>9. style \o <<<<"parse", last>>>> \o closed \in Seq(G)
  <2>1. PICK p \in Seq(G) : p = <<<<"parse", last>>>>
    BY <1>6
  <2>2. style \o p \o closed \in Seq(G)
    BY <1>7, <1>8, <2>1
  <2>3. QED
    BY <2>1, <2>2
<1>10. guard \in Seq(G)
  BY <1>3, <1>6, <1>9, Zenon
<1>11. QED
  BY <1>1, <1>4, <1>10

------------------------------------------------------------------------------
(* The head of the check. *)

HeadUpto(f, start, guard, d, n) ==
  f = [k \in 0 .. n |-> IF k = 0 THEN start ELSE GuardStep(f[k - 1], guard[k], d)]

\* There is a function that obeys the recursion of CheckHead.
LEMMA HeadExist ==
  ASSUME NEW start, NEW guard, NEW d
  PROVE  \A n \in Nat : \E f : HeadUpto(f, start, guard, d, n)
<1> DEFINE T == {n \in Nat : \E f : HeadUpto(f, start, guard, d, n)}
<1>1. 0 \in T
  <2>1. HeadUpto([k \in 0 .. 0 |-> start], start, guard, d, 0)
    BY DEF HeadUpto
  <2>2. QED
    BY <2>1
<1>2. ASSUME NEW n \in T
      PROVE  n + 1 \in T
  <2>1. PICK f : HeadUpto(f, start, guard, d, n)
    OBVIOUS
  <2>2. PICK g : Longer(g, f, n, GuardStep(f[n], guard[n + 1], d))
    BY LongerFunction, Zenon
  <2>3. \A k \in 0 .. n : f[k] = IF k = 0 THEN start ELSE GuardStep(f[k - 1], guard[k], d)
    BY <2>1, Zenon DEF HeadUpto
  <2>4. ASSUME NEW k \in 0 .. n + 1
        PROVE  g[k] = IF k = 0 THEN start ELSE GuardStep(g[k - 1], guard[k], d)
    <3>1. CASE k \in 0 .. n
      <4>1. g[k] = f[k] /\ (k # 0 => g[k - 1] = f[k - 1])
        <5>1. k - 1 \in 0 .. n \/ k = 0
          BY <3>1
        <5>2. QED
          BY <2>2, <3>1, <5>1, Zenon DEF Longer
      <4>2. QED
        BY <2>3, <3>1, <4>1, Zenon
    <3>2. CASE k = n + 1
      <4>1. k # 0 /\ n \in 0 .. n /\ k - 1 = n
        BY <3>2
      <4>2. QED
        BY <2>2, <3>2, <4>1, Zenon DEF Longer
    <3>3. QED
      BY <3>1, <3>2
  <2>5. g = [k \in 0 .. n + 1 |-> IF k = 0 THEN start ELSE GuardStep(g[k - 1], guard[k], d)]
    BY <2>2, <2>4, Zenon DEF Longer
  <2>6. HeadUpto(g, start, guard, d, n + 1)
    BY <2>5, Zenon DEF HeadUpto
  <2>7. QED
    BY <2>6
<1>3. QED
  BY <1>1, <1>2, AllNumbers

\* CheckHead obeys its recursion.
LEMMA HeadDef ==
  ASSUME NEW log, NEW f, NEW lines, NEW extensions, NEW head, head = CheckHead(log, f, lines, extensions)
  PROVE  \E copyright, global, start, errors, guard, d :
           /\ copyright = Error(log, NoSuppressions, CheckForCopyright(lines))
           /\ global = [NoSuppressions EXCEPT !.global = ProcessGlobalSuppresions(lines)]
           /\ start = [log |-> Error(copyright, global, errors), suppress |-> global]
           /\ d = CleansedLines(RemoveMultiLineComments(lines).lines) /\ head.doc = d
           /\ errors = RemoveMultiLineComments(lines).errors
           /\ guard = << >> \/ (guard = CheckForHeaderGuard(d, f.cppvar) /\ f.ext \in extensions)
           /\ Len(guard) \in Nat => \E g : /\ HeadUpto(g, start, guard, d, Len(guard))
                                           /\ head.log = g[Len(guard)].log /\ head.suppress = g[Len(guard)].suppress
<1> DEFINE copyright0 == Error(log, NoSuppressions, CheckForCopyright(lines))
           global0 == [NoSuppressions EXCEPT !.global = ProcessGlobalSuppresions(lines)]
           errors0 == RemoveMultiLineComments(lines).errors
           start0 == [log |-> Error(copyright0, global0, errors0), suppress |-> global0]
           d0 == CleansedLines(RemoveMultiLineComments(lines).lines)
           guard0 == IF f.ext \in extensions THEN CheckForHeaderGuard(d0, f.cppvar) ELSE << >>
<1>1. PICK g : g = CHOOSE h : HeadUpto(h, start0, guard0, d0, Len(guard0))
  OBVIOUS
<1>2. head = [log |-> g[Len(guard0)].log, suppress |-> g[Len(guard0)].suppress, doc |-> d0]
  BY <1>1, Zenon DEF CheckHead, HeadUpto
<1>3. PICK copyright : copyright = copyright0
  OBVIOUS
<1>4. PICK global : global = global0
  OBVIOUS
<1>5. PICK errors : errors = errors0
  OBVIOUS
<1>6. PICK start : start = start0
  OBVIOUS
<1>7. PICK d : d = d0
  OBVIOUS
<1>8. PICK guard : guard = guard0
  OBVIOUS
<1>9. head.doc = d /\ head.log = g[Len(guard)].log /\ head.suppress = g[Len(guard)].suppress
  BY <1>2, <1>7, <1>8
<1>10. guard = << >> \/ (guard = CheckForHeaderGuard(d, f.cppvar) /\ f.ext \in extensions)
  BY <1>7, <1>8
<1>11. ASSUME Len(guard) \in Nat
       PROVE  HeadUpto(g, start, guard, d, Len(guard))
  <2>1. \E h : HeadUpto(h, start, guard, d, Len(guard))
    BY <1>11, HeadExist
  <2>2. \E h : HeadUpto(h, start0, guard0, d0, Len(guard0))
    BY <1>6, <1>7, <1>8, <2>1, Zenon
  <2>3. HeadUpto(g, start0, guard0, d0, Len(guard0))
    BY <1>1, <2>2, Zenon
  <2>4. QED
    BY <1>6, <1>7, <1>8, <2>3, Zenon
<1>12. /\ copyright = Error(log, NoSuppressions, CheckForCopyright(lines))
       /\ global = [NoSuppressions EXCEPT !.global = ProcessGlobalSuppresions(lines)]
       /\ d = CleansedLines(RemoveMultiLineComments(lines).lines)
       /\ errors = RemoveMultiLineComments(lines).errors
  BY <1>3, <1>4, <1>5, <1>7
<1>13. start = [log |-> Error(copyright, global, errors), suppress |-> global]
  BY <1>3, <1>4, <1>5, <1>6, Zenon
<1> HIDE DEF copyright0, global0, errors0, start0, d0, guard0
<1>14. QED
  BY <1>9, <1>10, <1>11, <1>12, <1>13

\* The marks of the text.
LEMMA GlobalIs ==
  ASSUME LintTyped, NEW path \in Reachable(scenario)
  PROVE  ProcessGlobalSuppresions(TextLines(path)) = GlobalOf(path)
<1>1. PICK lines, D : lines = TextLines(path) /\ D = DOMAIN text[path]
  OBVIOUS
<1>2. DOMAIN lines = D
  BY <1>1 DEF TextLines
<1>3. PICK marks : marks = UNION {lines[k].marks : k \in D}
  OBVIOUS
<1>4. GlobalOf(path) = (IF "LINT_C_FILE" \in marks THEN {"readability/casting"} ELSE {})
                       \cup (IF "LINT_KERNEL_FILE" \in marks THEN {"whitespace/tab"} ELSE {})
  BY <1>1, <1>3 DEF GlobalOf
<1>5. ProcessGlobalSuppresions(lines) =
        {"readability/casting" : k \in {k \in D : "LINT_C_FILE" \in lines[k].marks}}
        \cup {"whitespace/tab" : k \in {k \in D : "LINT_KERNEL_FILE" \in lines[k].marks}}
  BY <1>2 DEF ProcessGlobalSuppresions
<1>6. \A m : m \in marks <=> \E k \in D : m \in lines[k].marks
  BY <1>3
<1>7. QED
  BY <1>1, <1>4, <1>5, <1>6

\* What the head of the check keeps, and where its suppressions come from.
LEMMA HeadKeeps ==
  ASSUME LintTyped, NEW path \in Reachable(scenario), NEW lines, lines = TextLines(path),
         NEW log, NEW was, NEW st, st = log.state, Alike(st, was), NEW f, NEW extensions,
         NEW head, head = CheckHead(log, f, lines, extensions)
  PROVE  Alike(head.log.state, was) /\ ComeFrom(head.suppress, head.doc.raw_lines, GlobalOf(path))
<1>1. PICK copyright, global, start, errors, guard, d :
           /\ copyright = Error(log, NoSuppressions, CheckForCopyright(lines))
           /\ global = [NoSuppressions EXCEPT !.global = ProcessGlobalSuppresions(lines)]
           /\ start = [log |-> Error(copyright, global, errors), suppress |-> global]
           /\ d = CleansedLines(RemoveMultiLineComments(lines).lines) /\ head.doc = d
           /\ guard = << >> \/ guard = CheckForHeaderGuard(d, f.cppvar)
           /\ Len(guard) \in Nat => \E g : /\ HeadUpto(g, start, guard, d, Len(guard))
                                           /\ head.log = g[Len(guard)].log /\ head.suppress = g[Len(guard)].suppress
  BY HeadDef
<1>2. lines \in Seq({Line[k] : k \in DOMAIN Line})
  BY LinesOfText
<1>3. /\ NumLines(d) \in Nat /\ DOMAIN d.raw_lines = 1 .. NumLines(d) /\ DOMAIN d.elided = 1 .. NumLines(d)
  BY <1>1, <1>2, DocFacts
<1>4. PICK E : guard \in Seq(GuardSteps(d, E))
  <2>1. PICK E : CheckForHeaderGuard(d, f.cppvar) \in Seq(GuardSteps(d, E))
    BY <1>3, GuardIs
  <2>2. << >> \in Seq(GuardSteps(d, E))
    OBVIOUS
  <2>3. QED
    BY <1>1, <2>1, <2>2, Zenon
<1>5. PICK n \in Nat : n = Len(guard)
  BY <1>4
<1>6. PICK g : HeadUpto(g, start, guard, d, n) /\ head.log = g[n].log /\ head.suppress = g[n].suppress
  BY <1>1, <1>5, Zenon
<1>7. \A k \in 0 .. n : g[k] = IF k = 0 THEN start ELSE GuardStep(g[k - 1], guard[k], d)
  BY <1>6, Zenon DEF HeadUpto
<1>8. PICK marks : marks = GlobalOf(path)
  OBVIOUS
<1>9. global = [lines |-> {}, global |-> marks]
  BY <1>1, <1>8, GlobalIs DEF NoSuppressions
<1> DEFINE P(k) == Alike(g[k].log.state, was) /\ ComeFrom(g[k].suppress, d.raw_lines, marks)
<1>10. P(0)
  <2>1. g[0] = start
    BY <1>7
  <2>2. PICK st2 : st2 = copyright.state
    OBVIOUS
  <2>3. Alike(st2, was)
    BY <1>1, <2>2, ErrorKeeps
  <2>4. Alike(Error(copyright, global, errors).state, was)
    BY <2>2, <2>3, ErrorKeeps
  <2>5. ComeFrom(global, d.raw_lines, marks)
    BY <1>9 DEF ComeFrom
  <2>6. start.log = Error(copyright, global, errors) /\ start.suppress = global
    BY <1>1
  <2>7. QED
    BY <2>1, <2>4, <2>5, <2>6, Zenon
<1>11. ASSUME NEW k \in Nat, k + 1 <= n, P(k)
       PROVE  P(k + 1)
  <2>1. PICK a, s, now : a = g[k] /\ s = guard[k + 1] /\ now = g[k + 1]
    OBVIOUS
  <2>2. now = GuardStep(a, s, d)
    <3>1. k + 1 \in 0 .. n /\ k + 1 # 0 /\ k + 1 - 1 = k
      BY <1>11
    <3>2. QED
      BY <1>7, <2>1, <3>1
  <2>3. s \in GuardSteps(d, E)
    BY <1>4, <1>5, <1>11, <2>1
  <2>4. PICK l : l = IF s[2] = 0 THEN Plain ELSE d.elided[s[2]]
    OBVIOUS
  <2>5. PICK parsed, old : parsed = ParseNolintSuppressions(a.suppress, l, s[2]) /\ old = a.log.state
    OBVIOUS
  <2>6. Alike(old, was) /\ ComeFrom(a.suppress, d.raw_lines, marks)
    BY <1>11, <2>1, <2>5
  <2>7. CASE s[1] = "parse"
    <3>1. s[2] \in 0 .. NumLines(d)
      BY <2>3, <2>7 DEF GuardSteps
    <3>2. l.nolint # << >> => s[2] \in DOMAIN d.raw_lines /\ d.raw_lines[s[2]].nolint = l.nolint
      <4>1. CASE s[2] = 0
        BY <2>4, <4>1 DEF Plain
      <4>2. CASE s[2] # 0
        <5>1. s[2] \in DOMAIN d.elided /\ s[2] \in DOMAIN d.raw_lines
          BY <1>3, <3>1, <4>2
        <5>2. d.elided[s[2]].nolint = << >> \/ d.elided[s[2]].nolint = d.raw_lines[s[2]].nolint
          BY <1>1, <1>2, <5>1, CommentsOfElided
        <5>3. QED
          BY <2>4, <4>2, <5>1, <5>2
      <4>3. QED
        BY <4>1, <4>2
    <3>3. PICK k2, sup, after : k2 = s[2] /\ sup = a.suppress /\ after = parsed.state
      OBVIOUS
    <3>4. ComeFrom(after, d.raw_lines, marks)
      <4>1. ComeFrom(sup, d.raw_lines, marks) /\ after = ParseNolintSuppressions(sup, l, k2).state
        BY <2>5, <2>6, <3>3
      <4>2. PICK raw : raw = d.raw_lines
        OBVIOUS
      <4>3. l.nolint # << >> => k2 \in DOMAIN raw /\ raw[k2].nolint = l.nolint
        BY <3>2, <3>3, <4>2
      <4>4. QED
        BY <4>1, <4>2, <4>3, CommentRead
    <3>5. Alike(Error(a.log, parsed.state, parsed.errors).state, was)
      BY <2>5, <2>6, ErrorKeeps
    <3>6. now = [log |-> Error(a.log, parsed.state, parsed.errors), suppress |-> parsed.state]
      BY <2>2, <2>4, <2>5, <2>7, Zenon DEF GuardStep, AheadStep
    <3>7. now.log = Error(a.log, parsed.state, parsed.errors) /\ now.suppress = after
      BY <3>3, <3>6
    <3>8. QED
      BY <2>1, <3>4, <3>5, <3>7, Zenon
  <2>8. CASE s[1] # "parse"
    <3>1. now = [log |-> Error(a.log, a.suppress, <<s[2]>>), suppress |-> a.suppress]
      BY <2>2, <2>8, Zenon DEF GuardStep, AheadStep
    <3>2. now.log = Error(a.log, a.suppress, <<s[2]>>) /\ now.suppress = a.suppress
      BY <3>1
    <3>3. Alike(Error(a.log, a.suppress, <<s[2]>>).state, was)
      BY <2>5, <2>6, ErrorKeeps
    <3>4. QED
      BY <2>1, <2>6, <3>2, <3>3, Zenon
  <2>9. QED
    BY <2>7, <2>8
<1> HIDE DEF P
<1>12. P(n)
  <2> DEFINE T == {k \in Nat : k <= n => P(k)}
  <2>1. 0 \in T
    BY <1>10
  <2>2. ASSUME NEW k \in T
        PROVE  k + 1 \in T
    <3>1. k \in Nat /\ k + 1 \in Nat /\ (k + 1 <= n => k <= n)
      OBVIOUS
    <3>2. k + 1 <= n => P(k + 1)
      BY <1>11, <3>1
    <3>3. QED
      BY <3>1, <3>2
  <2>3. T = Nat
    BY <2>1, <2>2, AllNumbers
  <2>4. QED
    BY <2>3
<1>13. QED
  BY <1>1, <1>6, <1>8, <1>12, Zenon DEF P

------------------------------------------------------------------------------
(* The checks that look ahead of a line. *)

\* What is known of a step: the settings and where the suppressions come from.
KeptBy(a, was, raw, marks) == Alike(a.log.state, was) /\ ComeFrom(a.suppress, raw, marks)

\* Reading the comment of a line, or of none, keeps it.
LEMMA ParseKeeps ==
  ASSUME NEW was, NEW raw, NEW marks, NEW a, KeptBy(a, was, raw, marks),
         NEW N \in Nat, DOMAIN raw = 1 .. N, NEW j \in Int, j <= N, j >= 0
  PROVE  KeptBy(AheadStep(a, <<"parse", j>>, raw), was, raw, marks)
<1>1. PICK s, l, sup, log, b : /\ s = <<"parse", j>> /\ l = IF j = 0 THEN Plain ELSE raw[j]
                               /\ sup = a.suppress /\ log = a.log /\ b = AheadStep(a, s, raw)
  OBVIOUS
<1>2. PICK parsed, now, st : parsed = ParseNolintSuppressions(sup, l, j) /\ now = parsed.state /\ st = log.state
  OBVIOUS
<1>3. s[1] = "parse" /\ s[2] = j
  BY <1>1
<1>4. b = [log |-> Error(log, parsed.state, parsed.errors), suppress |-> parsed.state]
  BY <1>1, <1>2, <1>3, Zenon DEF AheadStep
<1>5. l.nolint # << >> => j \in DOMAIN raw /\ raw[j].nolint = l.nolint
  <2>1. CASE j = 0
    BY <1>1, <2>1 DEF Plain
  <2>2. CASE j # 0
    <3>1. j \in DOMAIN raw
      BY <2>2
    <3>2. QED
      BY <1>1, <2>2, <3>1
  <2>3. QED
    BY <2>1, <2>2
<1>6. ComeFrom(now, raw, marks)
  <2>1. ComeFrom(sup, raw, marks)
    BY <1>1 DEF KeptBy
  <2>2. now = ParseNolintSuppressions(sup, l, j).state
    BY <1>2
  <2>3. QED
    BY <1>5, <2>1, <2>2, CommentRead
<1>7. Alike(Error(log, parsed.state, parsed.errors).state, was)
  <2>1. Alike(st, was)
    BY <1>1, <1>2 DEF KeptBy
  <2>2. QED
    BY <1>2, <2>1, ErrorKeeps
<1>8. b.log = Error(log, parsed.state, parsed.errors) /\ b.suppress = now
  BY <1>2, <1>4
<1>9. KeptBy(b, was, raw, marks)
  BY <1>6, <1>7, <1>8, Zenon DEF KeptBy
<1>10. QED
  BY <1>1, <1>9, Zenon

\* So does reporting.
LEMMA BlameKeeps ==
  ASSUME NEW was, NEW raw, NEW marks, NEW a, KeptBy(a, was, raw, marks), NEW e
  PROVE  KeptBy(AheadStep(a, <<"error", e>>, raw), was, raw, marks)
<1>1. PICK s, sup, log, b, st : /\ s = <<"error", e>> /\ sup = a.suppress /\ log = a.log /\ st = log.state
                                /\ b = AheadStep(a, s, raw)
  OBVIOUS
<1>2. s[1] # "parse" /\ s[2] = e
  BY <1>1
<1>3. b = [log |-> Error(log, sup, <<e>>), suppress |-> sup]
  BY <1>1, <1>2, Zenon DEF AheadStep
<1>4. b.log = Error(log, sup, <<e>>) /\ b.suppress = sup
  BY <1>3
<1>5. Alike(st, was) /\ ComeFrom(sup, raw, marks)
  BY <1>1 DEF KeptBy
<1>6. Alike(Error(log, sup, <<e>>).state, was)
  BY <1>1, <1>5, ErrorKeeps
<1>7. KeptBy(b, was, raw, marks)
  BY <1>4, <1>5, <1>6, Zenon DEF KeptBy
<1>8. QED
  BY <1>1, <1>7, Zenon

\* The line where a block ends with a ";" is not before the one it begins in.
LEMMA TrailingIs ==
  ASSUME NEW d, NEW N, N = NumLines(d), N \in Nat, NEW n \in 1 .. N, NEW s, s = TrailingSemicolon(d, n)
  PROVE  s \in Int /\ s <= N /\ (s = 0 \/ s >= n)
<1>1. PICK S : S \subseteq n .. N /\ s = First(S, 0)
  <2>1. PICK block : block = BlockAt(d, n)
    OBVIOUS
  <2>2. PICK end : end = CloseExpression(d, n, block)
    OBVIOUS
  <2>3. PICK S : S = {j \in n .. NumLines(d) : block # 0 /\ j = end.linenum /\ TokenAt(d.elided[j], end.pos) = ";"}
    OBVIOUS
  <2>4. s = First(S, 0)
    BY <2>1, <2>2, <2>3, Zenon DEF TrailingSemicolon, SemicolonAt
  <2>5. QED
    BY <2>3, <2>4
<1>2. CASE S = {}
  <2>1. s = 0
    BY <1>1, <1>2 DEF First
  <2>2. QED
    BY <2>1
<1>3. CASE S # {}
  <2>1. S \in SUBSET Nat
    BY <1>1
  <2>2. \E m \in S : \A k \in S : m <= k
    BY <1>3, <2>1, LeastNumber
  <2>3. Min(S) \in S
    BY <2>2, Zenon DEF Min
  <2>4. s = Min(S)
    BY <1>1, <1>3, Zenon DEF First
  <2>5. s \in S
    BY <2>3, <2>4, Zenon
  <2>6. s \in n .. N
    BY <1>1, <2>5
  <2>7. QED
    BY <2>6
<1>4. QED
  BY <1>2, <1>3

\* What CheckTrailingSemicolon and CheckEmptyBlockBody do, step by step.
LEMMA AheadIs ==
  ASSUME NEW own, NEW s, s = TrailingSemicolon(doc, linenum)
  PROVE  \E before, there, blamed, now :
           /\ before = AheadStep(own, <<"parse", s - 1>>, doc.raw_lines)
           /\ there = AheadStep(before, <<"parse", s>>, doc.raw_lines)
           /\ blamed = AheadStep(there, <<"error", <<s, "readability/braces", 4>>>>, doc.raw_lines)
           /\ (s = 0 /\ now = own) \/ (s # 0 /\ now = blamed)
           /\ CheckAhead(own) = [log |-> Error(now.log, now.suppress, CheckEmptyBlockBody(doc, linenum)),
                                 suppress |-> now.suppress]
<1>1. PICK before : before = AheadStep(own, <<"parse", s - 1>>, doc.raw_lines)
  OBVIOUS
<1>2. PICK there : there = AheadStep(before, <<"parse", s>>, doc.raw_lines)
  OBVIOUS
<1>3. PICK blamed : blamed = AheadStep(there, <<"error", <<s, "readability/braces", 4>>>>, doc.raw_lines)
  OBVIOUS
<1>4. PICK now : now = IF s = 0 THEN own ELSE blamed
  OBVIOUS
<1>5. CheckAhead(own) = [log |-> Error(now.log, now.suppress, CheckEmptyBlockBody(doc, linenum)), suppress |-> now.suppress]
  BY <1>1, <1>2, <1>3, <1>4, Zenon DEF CheckAhead, CheckTrailingSemicolon, ReportBody
<1>6. (s = 0 /\ now = own) \/ (s # 0 /\ now = blamed)
  BY <1>4
<1>7. QED
  BY <1>1, <1>2, <1>3, <1>5, <1>6

\* Looking ahead keeps the settings, and the suppressions come from comments of the text.
LEMMA AheadKeeps ==
  ASSUME NEW raw, raw = doc.raw_lines, NEW N, N = NumLines(doc), N \in Nat, DOMAIN raw = 1 .. N, linenum \in 1 .. N,
         NEW was, NEW marks, NEW own, KeptBy(own, was, raw, marks)
  PROVE  KeptBy(CheckAhead(own), was, raw, marks)
<1>1. PICK s : s = TrailingSemicolon(doc, linenum)
  OBVIOUS
<1>2. PICK before, there, blamed, now :
        /\ before = AheadStep(own, <<"parse", s - 1>>, raw) /\ there = AheadStep(before, <<"parse", s>>, raw)
        /\ blamed = AheadStep(there, <<"error", <<s, "readability/braces", 4>>>>, raw)
        /\ (s = 0 /\ now = own) \/ (s # 0 /\ now = blamed)
        /\ CheckAhead(own) = [log |-> Error(now.log, now.suppress, CheckEmptyBlockBody(doc, linenum)),
                              suppress |-> now.suppress]
  BY <1>1, AheadIs
<1>3. s \in Int /\ s <= N /\ (s = 0 \/ s >= linenum)
  BY <1>1, TrailingIs
<1>4. KeptBy(now, was, raw, marks)
  <2>1. CASE s = 0
    BY <1>2, <2>1
  <2>2. CASE s # 0
    <3>1. PICK j : j = s - 1
      OBVIOUS
    <3>2. j \in Int /\ j <= N /\ j >= 0 /\ s >= 0
      BY <1>3, <2>2, <3>1
    <3>3. KeptBy(before, was, raw, marks)
      <4>1. KeptBy(AheadStep(own, <<"parse", j>>, raw), was, raw, marks)
        BY <3>2, ParseKeeps
      <4>2. QED
        BY <1>2, <3>1, <4>1, Zenon
    <3>4. KeptBy(there, was, raw, marks)
      <4>1. KeptBy(AheadStep(before, <<"parse", s>>, raw), was, raw, marks)
        BY <1>3, <3>2, <3>3, ParseKeeps
      <4>2. QED
        BY <1>2, <4>1, Zenon
    <3>5. KeptBy(blamed, was, raw, marks)
      BY <1>2, <3>4, BlameKeeps, Zenon
    <3>6. QED
      BY <1>2, <2>2, <3>5
  <2>3. QED
    BY <2>1, <2>2
<1>5. PICK E, log, sup, st, b : /\ E = CheckEmptyBlockBody(doc, linenum) /\ log = now.log /\ sup = now.suppress
                                /\ st = log.state /\ b = CheckAhead(own)
  OBVIOUS
<1>6. Alike(st, was) /\ ComeFrom(sup, raw, marks)
  BY <1>4, <1>5, Zenon DEF KeptBy
<1>7. Alike(Error(log, sup, E).state, was)
  BY <1>5, <1>6, ErrorKeeps
<1>8. b = [log |-> Error(log, sup, E), suppress |-> sup]
  BY <1>2, <1>5, Zenon
<1>9. b.log = Error(log, sup, E) /\ b.suppress = sup
  BY <1>8
<1>10. KeptBy(b, was, raw, marks)
  BY <1>6, <1>7, <1>9, Zenon DEF KeptBy
<1>11. QED
  BY <1>5, <1>10, Zenon

\* A line, as the suppressions and the log see it.
LineStep(nolint, functions, includes, nesting, own, a) ==
  /\ nolint = ParseNolintSuppressions(suppress, doc.raw_lines[linenum], linenum)
  /\ functions = CheckForFunctionLengths(function_state, doc, linenum, state.verbose_level)
  /\ includes = UpdateIncludes(include_state, files[file], doc, linenum, nonheaders, headers)
  /\ nesting = Update(nesting_state, doc, linenum)
  /\ own = [log |-> Error([state |-> state, found |-> found, reported |-> reported], nolint.state,
                          LineErrors(nolint, nesting, functions, includes)),
            suppress |-> nolint.state]
  /\ (InAsmBlock(nesting.state) /\ a = own) \/ (~InAsmBlock(nesting.state) /\ a = CheckAhead(own))
  /\ suppress' = a.suppress /\ state' = a.log.state /\ found' = a.log.found /\ reported' = a.log.reported
  /\ include_state' = IF InAsmBlock(nesting.state) THEN include_state ELSE includes.state

\* There are such parts.
LEMMA LineIs ==
  ASSUME ProcessLine
  PROVE  \E nolint, functions, includes, nesting, own, a : LineStep(nolint, functions, includes, nesting, own, a)
<1>1. PICK nolint, functions, includes, nesting :
        /\ nolint = ParseNolintSuppressions(suppress, doc.raw_lines[linenum], linenum)
        /\ functions = CheckForFunctionLengths(function_state, doc, linenum, state.verbose_level)
        /\ includes = UpdateIncludes(include_state, files[file], doc, linenum, nonheaders, headers)
        /\ nesting = Update(nesting_state, doc, linenum)
  OBVIOUS
<1>2. PICK own, a :
        /\ own = [log |-> Error([state |-> state, found |-> found, reported |-> reported], nolint.state,
                                LineErrors(nolint, nesting, functions, includes)),
                  suppress |-> nolint.state]
        /\ a = IF InAsmBlock(nesting.state) THEN own ELSE CheckAhead(own)
        /\ suppress' = a.suppress /\ state' = a.log.state /\ found' = a.log.found /\ reported' = a.log.reported
        /\ include_state' = IF InAsmBlock(nesting.state) THEN include_state ELSE includes.state
  BY <1>1, Zenon DEF ProcessLine
<1>3. (InAsmBlock(nesting.state) /\ a = own) \/ (~InAsmBlock(nesting.state) /\ a = CheckAhead(own))
  BY <1>2, Zenon
<1>4. LineStep(nolint, functions, includes, nesting, own, a)
  BY <1>1, <1>2, <1>3, Zenon DEF LineStep
<1>5. QED
  BY <1>4

------------------------------------------------------------------------------
(* Every file starts afresh. *)

\* When a directory's filter is malformed, ProcessFile gives up with the filters it has put together.
LEMMA CrashKeeps ==
  ASSUME ProcessFile, pc' = "crash", NEW cfg, cfg = ProcessConfigOverrides(file')
  PROVE  state' = Filtered(cfg)
<1>1. PICK path, f, filtered : path = file' /\ f = files[path] /\ filtered = Filtered(cfg)
  OBVIOUS
<1>2. path = Head(filenames)
  BY <1>1 DEF ProcessFile
<1>3. CASE cfg.excluded
  BY <1>1, <1>2, <1>3 DEF ProcessFile
<1>4. CASE ~cfg.excluded /\ BadFilter(filtered.filters)
  BY <1>1, <1>2, <1>4 DEF ProcessFile, Filtered
<1>5. CASE ~cfg.excluded /\ ~BadFilter(filtered.filters) /\ ~f.readable
  BY <1>1, <1>2, <1>5 DEF ProcessFile, Filtered
<1>6. CASE ~cfg.excluded /\ ~BadFilter(filtered.filters) /\ f.readable /\ f.ext \notin GetAllExtensions(cfg.valid, cfg.hpp)
  BY <1>1, <1>2, <1>6 DEF ProcessFile, Filtered
<1>7. CASE ~cfg.excluded /\ ~BadFilter(filtered.filters) /\ f.readable /\ f.ext \in GetAllExtensions(cfg.valid, cfg.hpp)
  <2>1. pc' = "lines"
    BY <1>1, <1>2, <1>7 DEF ProcessFile, Filtered
  <2>2. QED
    BY <2>1
<1>8. QED
  BY <1>3, <1>4, <1>5, <1>6, <1>7

Afresh == FreshInv /\ FilesStartAfresh

\* Every step keeps the settings of the command line behind those of the file.
LEMMA AfreshStep ==
  ASSUME LintTyped, LintTyped', DocInv, Afresh, [LintNext]_lintVars
  PROVE  Afresh'
<1> USE DEF Afresh
<1>0. DOMAIN state = Fields
  BY DEF FreshInv, Fields
<1>1. CASE ParseArguments
  <2>1. pc' # "lines" /\ UNCHANGED lintInput
    BY <1>1 DEF ParseArguments
  <2>2. CASE options.filenames = << >>
    <3>1. pc' = "usage" /\ state' = state
      BY <1>1, <2>2 DEF ParseArguments
    <3>2. QED
      BY <2>1, <3>1 DEF FreshInv, FilesStartAfresh
  <2>3. CASE options.filenames # << >>
    <3>1. PICK x : state' = [state EXCEPT !.quiet = options.quiet, !.verbose_level = options.verbose,
                                          !.counting = x, !.filters = _DEFAULT_FILTERS \o options.filters]
      BY <1>1, <2>3 DEF ParseArguments
    <3>2. /\ DOMAIN state' = Fields /\ state'.verbose_level = options.verbose
          /\ state'.filters = _DEFAULT_FILTERS \o options.filters
      BY <1>0, <3>1 DEF Fields
    <3>3. options' = options
      BY <2>1 DEF options, lintInput
    <3>4. QED
      BY <2>1, <3>2, <3>3 DEF FreshInv, FilesStartAfresh, Fields
  <2>4. QED
    BY <2>2, <2>3
<1>2. CASE ProcessFile
  <2>1. PICK path : path = file'
    OBVIOUS
  <2>2. /\ Head(filenames) \in Reachable(scenario) /\ path = Head(filenames) /\ UNCHANGED lintInput
        /\ \E cfg : /\ cfg = ProcessConfigOverrides(path)
                    /\ pc' = "crash" \/ PassedOver(cfg) \/ \E head : Begun(cfg, head)
    BY <1>2, <2>1, FileIsReachable, FileBegins
  <2>3. PICK cfg : /\ cfg = ProcessConfigOverrides(path)
                   /\ pc' = "crash" \/ PassedOver(cfg) \/ \E head : Begun(cfg, head)
    BY <2>2
  <2>4. /\ state.verbose_level = options.verbose /\ state.filters = _DEFAULT_FILTERS \o options.filters
        /\ options' = options /\ configs' = configs /\ scenario' = scenario /\ text' = text
    BY <1>2, <2>2 DEF FreshInv, ProcessFile, options, configs, lintInput
  <2>5. PICK base : base = _DEFAULT_FILTERS \o options.filters
    OBVIOUS
  <2>6. PICK backed : backed = BackupFilters(state)
    OBVIOUS
  <2>7. /\ DOMAIN backed = Fields /\ backed.filters = base /\ backed._filters_backup = base
        /\ backed.verbose_level = options.verbose
    BY <1>0, <2>4, <2>5, <2>6 DEF BackupFilters, Fields
  <2>8. PICK filtered : filtered = Filtered(cfg)
    OBVIOUS
  <2>9. /\ DOMAIN filtered = Fields /\ filtered.filters = base \o cfg.filters /\ filtered._filters_backup = base
        /\ filtered.verbose_level = options.verbose
    BY <2>6, <2>7, <2>8 DEF Filtered, Fields
  <2>10. CASE PassedOver(cfg)
    <3>1. state' = RestoreFilters(backed) \/ state' = RestoreFilters(filtered)
      BY <2>6, <2>8, <2>10 DEF PassedOver
    <3>2. DOMAIN state' = Fields /\ state'.filters = base /\ state'.verbose_level = options.verbose
      BY <2>7, <2>9, <3>1 DEF RestoreFilters, Fields
    <3>3. pc' = "files"
      BY <2>10 DEF PassedOver
    <3>4. QED
      BY <2>4, <2>5, <3>2, <3>3 DEF FreshInv, FilesStartAfresh, Fields
  <2>11. CASE pc' = "crash"
    <3>1. DOMAIN state' = Fields
      BY <1>2, <2>1, <2>3, <2>8, <2>9, <2>11, CrashKeeps
    <3>2. QED
      BY <2>11, <3>1 DEF FreshInv, FilesStartAfresh, Fields
  <2>12. CASE \E head : Begun(cfg, head)
    <3>1. PICK head : Begun(cfg, head)
      BY <2>12
    <3>2. PICK log, lines : log = [state |-> filtered, found |-> << >>, reported |-> << >>] /\ lines = TextLines(path)
      OBVIOUS
    <3>3. head = CheckHead(log, files[path], lines, GetHeaderExtensions(cfg.valid, cfg.hpp))
      BY <2>1, <2>8, <3>1, <3>2 DEF Begun
    <3>4. PICK st : st = log.state
      OBVIOUS
    <3>5. Alike(st, filtered)
      BY <2>9, <3>2, <3>4 DEF Alike
    <3>6. Alike(head.log.state, filtered) /\ ComeFrom(head.suppress, head.doc.raw_lines, GlobalOf(path))
      BY <2>2, <3>2, <3>3, <3>4, <3>5, HeadKeeps
    <3>7. path \in Seq(STRING)
      BY <2>2, LintAssumption DEF LintTyped, Reachable, ToSet
    <3>8. cfg.filters = FlattenSeq(Added(path))
      BY <2>3, <3>1, <3>7, OverridesAreRight DEF Begun
    <3>9. filtered.filters = FiltersOf(path)
      BY <2>5, <2>9, <3>8, FiltersOfIs, Zenon
    <3>10. /\ pc' = "lines" /\ doc' = head.doc /\ suppress' = head.suppress /\ state' = head.log.state
      BY <3>1 DEF Begun
    <3>11. /\ DOMAIN state' = Fields /\ state'.filters = FiltersOf(path) /\ state'._filters_backup = base
           /\ state'.verbose_level = options.verbose
      BY <2>9, <3>6, <3>9, <3>10 DEF Alike
    <3>12. FiltersOf(file)' = FiltersOf(path) /\ GlobalOf(file)' = GlobalOf(path)
      BY <2>1, <2>4, Zenon DEF FiltersOf, GlobalOf, TextLines
    <3>13. PICK sup, raw, global : sup = suppress' /\ raw = doc'.raw_lines /\ global = GlobalOf(path)
      OBVIOUS
    <3>14. ComeFrom(sup, raw, global)
      BY <3>6, <3>10, <3>13
    <3>15. sup = [lines |-> sup.lines, global |-> sup.global] /\ sup.global = global
      <4>1. PICK L : sup = [lines |-> L, global |-> global]
        BY <3>14 DEF ComeFrom
      <4>2. QED
        BY <4>1
    <3>16. FreshInv'
      BY <2>4, <2>5, <3>10, <3>11, <3>13, <3>15 DEF FreshInv, Fields
    <3>17. FilesStartAfresh'
      <4>1. \A s \in sup.lines : \E k \in DOMAIN raw : Speaks(raw[k], k, s[2]) /\ raw[k].nolint[2] = s[1]
        BY <3>14 DEF ComeFrom
      <4>2. QED
        BY <2>4, <3>11, <3>12, <3>13, <3>15, <4>1 DEF FilesStartAfresh
    <3>18. QED
      BY <3>16, <3>17
  <2>13. QED
    BY <2>3, <2>10, <2>11, <2>12
<1>3. CASE ProcessLine
  <2>1. /\ pc = "lines" /\ pc' = "lines" /\ UNCHANGED <<scenario, text, file, doc>> /\ linenum <= NumLines(doc)
    BY <1>3 DEF ProcessLine, lintInput
  <2>2. PICK raw, global, sup, now : raw = doc.raw_lines /\ global = suppress.global /\ sup = suppress /\ now = suppress'
    OBVIOUS
  <2>3. ComeFrom(sup, raw, global)
    BY <2>1, <2>2 DEF FreshInv, FilesStartAfresh, ComeFrom
  <2>4. Alike(state', state) /\ ComeFrom(now, raw, global)
    <3>1. PICK N, k : N = NumLines(doc) /\ k = linenum
      OBVIOUS
    <3>2. N \in Nat /\ DOMAIN raw = 1 .. N /\ k \in 1 .. N
      <4>1. NumLines(doc) \in Nat /\ DOMAIN raw = 1 .. NumLines(doc)
        BY <2>1, <2>2, DocOfText DEF InText
      <4>2. linenum \in 1 .. NumLines(doc) + 1
        BY <2>1 DEF DocInv
      <4>3. QED
        BY <2>1, <3>1, <4>1, <4>2
    <3>3. PICK nolint, functions, includes, nesting, own, a : LineStep(nolint, functions, includes, nesting, own, a)
      BY <1>3, LineIs
    <3>4. /\ nolint = ParseNolintSuppressions(suppress, doc.raw_lines[linenum], linenum)
          /\ own = [log |-> Error([state |-> state, found |-> found, reported |-> reported], nolint.state,
                                  LineErrors(nolint, nesting, functions, includes)),
                    suppress |-> nolint.state]
          /\ (InAsmBlock(nesting.state) /\ a = own) \/ (~InAsmBlock(nesting.state) /\ a = CheckAhead(own))
          /\ suppress' = a.suppress /\ state' = a.log.state
      BY <3>3, Zenon DEF LineStep
    <3>5. PICK l, log0, errors : /\ l = raw[k] /\ log0 = [state |-> state, found |-> found, reported |-> reported]
                                 /\ errors = LineErrors(nolint, nesting, functions, includes)
      OBVIOUS
    <3>6. nolint = ParseNolintSuppressions(sup, l, k)
      BY <2>2, <3>1, <3>4, <3>5
    <3>7. Alike(state, state) /\ log0.state = state
      BY <1>0, <3>5 DEF Alike
    <3>8. Alike(Error(log0, nolint.state, errors).state, state)
      BY <3>7, ErrorKeeps
    <3>9. PICK read : read = nolint.state
      OBVIOUS
    <3>10. ComeFrom(read, raw, global)
      <4>1. read = ParseNolintSuppressions(sup, l, k).state /\ k \in DOMAIN raw /\ raw[k].nolint = l.nolint
        BY <3>2, <3>5, <3>6, <3>9
      <4>2. QED
        BY <2>3, <4>1, CommentRead
    <3>11. own = [log |-> Error(log0, nolint.state, errors), suppress |-> nolint.state]
      BY <3>4, <3>5, Zenon
    <3>12. own.log = Error(log0, nolint.state, errors) /\ own.suppress = read
      BY <3>9, <3>11
    <3>13. KeptBy(own, state, raw, global)
      BY <3>8, <3>10, <3>12, Zenon DEF KeptBy
    <3>14. KeptBy(CheckAhead(own), state, raw, global)
      BY <2>2, <3>1, <3>2, <3>13, AheadKeeps
    <3>15. KeptBy(a, state, raw, global)
      BY <3>4, <3>13, <3>14, Zenon
    <3>16. QED
      BY <2>2, <3>4, <3>15, Zenon DEF KeptBy
  <2>5. now = [lines |-> now.lines, global |-> now.global] /\ now.global = global
    <3>1. PICK L : now = [lines |-> L, global |-> global]
      BY <2>4 DEF ComeFrom
    <3>2. QED
      BY <3>1
  <2>6. options' = options /\ FiltersOf(file)' = FiltersOf(file) /\ GlobalOf(file)' = GlobalOf(file)
    <3>1. options' = options /\ configs' = configs
      BY <2>1 DEF options, configs
    <3>2. FiltersOf(file)' = FiltersOf(file) /\ GlobalOf(file)' = GlobalOf(file)
      <4>1. text' = text /\ file' = file
        BY <2>1
      <4>2. FiltersOf(file)' = FiltersOf(file)
        BY ONLY <3>1, <4>1, ZenonT(40) DEF FiltersOf
      <4>3. GlobalOf(file)' = GlobalOf(file)
        BY ONLY <4>1, ZenonT(40) DEF GlobalOf, TextLines
      <4>4. QED
        BY <4>2, <4>3
    <3>3. QED
      BY <3>1, <3>2
  <2>7. FreshInv'
    BY <2>1, <2>4, <2>2, <2>5, <2>6 DEF FreshInv, Alike, Fields
  <2>8. FilesStartAfresh'
    <3>1. \A s \in now.lines : \E k \in DOMAIN raw : Speaks(raw[k], k, s[2]) /\ raw[k].nolint[2] = s[1]
      BY <2>4 DEF ComeFrom
    <3>2. /\ state.filters = FiltersOf(file) /\ state.verbose_level = options.verbose /\ global = GlobalOf(file)
      BY <2>1, <2>2 DEF FilesStartAfresh
    <3>3. QED
      BY <2>1, <2>4, <2>2, <2>5, <2>6, <3>1, <3>2 DEF FilesStartAfresh, Alike
  <2>9. QED
    BY <2>7, <2>8
<1>4. CASE FinishFile
  <2>1. /\ pc = "lines" /\ pc' = "files" /\ UNCHANGED lintInput
        /\ \E log, sup, errors : log.state = state /\ state' = RestoreFilters(Error(log, sup, errors).state)
    <3>1. PICK log0 : log0 = [state |-> state, found |-> found, reported |-> reported]
      OBVIOUS
    <3>2. \E errors : state' = RestoreFilters(Error(log0, suppress, errors).state)
      BY <1>4, <3>1 DEF FinishFile
    <3>3. log0.state = state
      BY <3>1
    <3>4. QED
      BY <1>4, <3>2, <3>3 DEF FinishFile
  <2>2. PICK log, sup, errors : log.state = state /\ state' = RestoreFilters(Error(log, sup, errors).state)
    BY <2>1
  <2>3. PICK st : st = Error(log, sup, errors).state
    OBVIOUS
  <2>4. Alike(st, state)
    <3>1. Alike(state, state)
      BY <1>0 DEF Alike
    <3>2. QED
      BY <2>2, <2>3, <3>1, ErrorKeeps
  <2>5. state' = [st EXCEPT !.filters = st._filters_backup]
    BY <2>2, <2>3 DEF RestoreFilters
  <2>6. DOMAIN state' = Fields /\ state'.filters = state._filters_backup /\ state'.verbose_level = state.verbose_level
    BY <2>4, <2>5 DEF Alike, Fields
  <2>7. options' = options
    BY <2>1 DEF options, lintInput
  <2>8. QED
    BY <2>1, <2>6, <2>7 DEF FreshInv, FilesStartAfresh, Fields
<1>5. CASE MainEnds
  BY <1>5 DEF MainEnds, FreshInv, FilesStartAfresh
<1>6. CASE UNCHANGED lintVars
  <2>1. /\ pc' = pc /\ state' = state /\ suppress' = suppress /\ scenario' = scenario /\ text' = text
        /\ file' = file /\ doc' = doc
    BY <1>6 DEF lintVars, lintInput, perFile
  <2>2. options' = options /\ FiltersOf(file)' = FiltersOf(file) /\ GlobalOf(file)' = GlobalOf(file)
    <3>1. options' = options /\ configs' = configs
      BY <2>1 DEF options, configs
    <3>2. FiltersOf(file)' = FiltersOf(file) /\ GlobalOf(file)' = GlobalOf(file)
      <4>1. text' = text /\ file' = file
        BY <2>1
      <4>2. FiltersOf(file)' = FiltersOf(file)
        BY ONLY <3>1, <4>1, ZenonT(40) DEF FiltersOf
      <4>3. GlobalOf(file)' = GlobalOf(file)
        BY ONLY <4>1, ZenonT(40) DEF GlobalOf, TextLines
      <4>4. QED
        BY <4>2, <4>3
    <3>3. QED
      BY <3>1, <3>2
  <2>3. QED
    BY <2>1, <2>2 DEF FreshInv, FilesStartAfresh
<1>7. QED
  BY <1>1, <1>2, <1>3, <1>4, <1>5, <1>6 DEF LintNext

\* While a file is gone through, its filters are those of the command line and of its own
\* directories, its verbosity the one asked for, and its suppressions come from its own comments
\* and marks, whatever the files before it were and however ProcessFile left them: _RestoreFilters
\* is called on every way out, and ResetNolintSuppressions before the first line.
THEOREM LintFilesStartAfresh == LintSpec => []FilesStartAfresh
<1>1. LintInit => Afresh
  BY DEF LintInit, Afresh, FreshInv, FilesStartAfresh
<1>2. LintTyped /\ LintTyped' /\ DocInv /\ Afresh /\ [LintNext]_lintVars => Afresh'
  BY AfreshStep
<1>3. Afresh => FilesStartAfresh
  BY DEF Afresh
<1>4. QED
  BY <1>1, <1>2, <1>3, LintAlwaysTyped, LintAlwaysInText, PTL DEF LintSpec
==============================================================================
