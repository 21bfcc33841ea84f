----------------------------- MODULE RunClangTidy -----------------------------
(***************************************************************************)
(* build_support/run_clang_tidy.py: the main thread puts the files of the  *)
(* compilation database into a bounded queue, max_task daemon threads take *)
(* them out and run clang-tidy on each, and the main thread joins the      *)
(* queue, reads failed_files and deals with the fixes.                     *)
(*                                                                         *)
(* What clang-tidy does with a file is chosen at the start: "clean" (exit  *)
(* code 0), "failing", "garbled" (failing, with output that is not UTF-8)  *)
(* or "unstarted" (Popen raises).  An exception ends the thread it is      *)
(* raised in.  The body of "with lock" is one step, so the lock needs no   *)
(* variable.                                                               *)
(***************************************************************************)
EXTENDS Integers, Sequences, FiniteSets, SequencesExt

CONSTANTS
  Database,     \* the files of compile_commands.json, in its order
  max_task,     \* -j, or the number of processors
  Workers,      \* the threads
  Results,      \* what clang-tidy may do: functions from files to outcomes
  Selections,   \* the sets of files that the patterns of the command line match
  Skipped,      \* the files that CheckConfig.should_skip names (third_party)
  Depth         \* bound: directories between the working directory and the root

Files == ToSet(Database)

ASSUME TidyAssumption ==
  /\ Database \in Seq(Files)
  /\ max_task \in Nat \ {0}
  /\ IsFiniteSet(Workers) /\ Cardinality(Workers) = max_task
  /\ Results \subseteq [Files -> {"clean", "failing", "garbled", "unstarted"}]
  /\ Selections \subseteq SUBSET Files
  /\ Depth \in Nat

VARIABLES
  result,        \* what clang-tidy does with each file
  selected,      \* the files whose names match file_name_re, none if it does not compile
  args,          \* the options given, of -fix and -export-fixes
  main,          \* where the main thread is
  level,         \* find_compilation_database: directories left above this one
  i,             \* files gone through by "for i, name in enumerate(files)"
  queue,         \* task_queue
  unfinished,    \* task_queue's count of unfinished tasks
  worker,        \* per thread: where it is in run_tidy, and its file
  failed_files,
  return_code,
  tmpdir,        \* "None", "made" or "removed"
  yaml           \* whether tmpdir holds a replacement file

vars == <<result, selected, args, main, level, i, queue, unfinished, worker,
          failed_files, return_code, tmpdir, yaml>>

input == <<result, selected, args>>
pool == <<queue, unfinished, worker, failed_files, yaml>>

Idle == [pc |-> "get", file |-> << >>]
At(pc, f) == [pc |-> pc, file |-> f]

Init ==
  /\ result \in Results
  /\ selected \in Selections
  /\ args \in SUBSET {"fix", "export_fixes"}
  /\ main = "start"
  /\ level = Depth
  /\ i = 0
  /\ queue = << >>
  /\ unfinished = 0
  /\ worker = [w \in Workers |-> Idle]
  /\ failed_files = << >>
  /\ return_code = 0
  /\ tmpdir = "None"
  /\ yaml = FALSE

Ended == main \in {"exit", "killed", "raised"}

------------------------------------------------------------------------------
(* Before the threads. *)

Exit(code) == main' = "exit" /\ return_code' = code

\* -p gives the path of the database ...
BuildPathGiven ==
  /\ main = "start"
  /\ main' = "list-checks"
  /\ UNCHANGED <<input, pool, level, i, return_code, tmpdir>>

\* ... or find_compilation_database looks for it, directory by directory.
FindDatabase ==
  /\ main \in {"start", "find"}
  /\ \/ main' = "list-checks" /\ UNCHANGED <<level, return_code>>
     \/ level > 0 /\ level' = level - 1 /\ main' = "find" /\ UNCHANGED return_code
     \/ level = 0 /\ Exit(1) /\ UNCHANGED level
  /\ UNCHANGED <<input, pool, i, tmpdir>>

\* clang-tidy -list-checks shows whether clang-tidy runs at all.
ListChecks ==
  /\ main = "list-checks"
  /\ \/ main' = "options" /\ UNCHANGED return_code
     \/ Exit(1)
  /\ UNCHANGED <<input, pool, level, i, tmpdir>>

\* A database that cannot be read ends the run.
LoadDatabase ==
  /\ main = "options"
  /\ \/ main' = "replacements" /\ UNCHANGED return_code
     \/ Exit(1)
  /\ UNCHANGED <<input, pool, level, i, tmpdir>>

\* For -fix and -export-fixes there has to be a clang-apply-replacements.
check_clang_apply_replacements_binary ==
  /\ main = "replacements"
  /\ \/ main' = "threads" /\ UNCHANGED return_code
     \/ args # {} /\ Exit(1)
  /\ UNCHANGED <<input, pool, level, i, tmpdir>>

\* The directory is made before the patterns are compiled: patterns that are no
\* regular expression leave it behind.
StartThreads ==
  /\ main = "threads"
  /\ tmpdir' = IF args = {} THEN "None" ELSE "made"
  /\ \/ main' = "fill" /\ UNCHANGED return_code
     \/ selected = {} /\ Exit(1)
  /\ UNCHANGED <<input, pool, level, i>>

------------------------------------------------------------------------------
(* The main thread and its queue. *)

\* A name that does not match leaves put_file False: the loop tests it again.
Search ==
  /\ main = "fill"
  /\ i < Len(Database)
  /\ Database[i + 1] \in selected
  /\ main' = "put"
  /\ UNCHANGED <<input, pool, level, i, return_code, tmpdir>>

\* Mutated: a file that finds the queue full is given up.
PutTimesOutSkipping ==
  /\ main = "put"
  /\ Len(queue) = max_task
  /\ main' = "fill"
  /\ i' = i + 1
  /\ UNCHANGED <<input, pool, level, return_code, tmpdir>>

\* queue.Full after 300 seconds: the loop tries the same file again.
PutTimesOut ==
  /\ main = "put"
  /\ Len(queue) = max_task
  /\ main' = "fill"
  /\ UNCHANGED <<input, pool, level, i, return_code, tmpdir>>

Put ==
  /\ main = "put"
  /\ Len(queue) < max_task
  /\ queue' = Append(queue, Database[i + 1])
  /\ unfinished' = unfinished + 1
  /\ i' = i + 1
  /\ main' = "fill"
  /\ UNCHANGED <<input, level, worker, failed_files, return_code, tmpdir, yaml>>

\* task_queue.join() returns, and failed_files is read.
Join ==
  /\ main = "fill"
  /\ i = Len(Database)
  /\ unfinished = 0
  /\ return_code' = IF failed_files # << >> THEN 1 ELSE return_code
  /\ main' = "export"
  /\ UNCHANGED <<input, pool, level, i, tmpdir>>

\* yaml is not imported: the first replacement file raises NameError.  Without
\* one the export file is emptied.
merge_replacement_files_raises == yaml

ExportFixes ==
  /\ main = "export"
  /\ return_code' = IF "export_fixes" \in args /\ merge_replacement_files_raises THEN 1 ELSE return_code
  /\ main' = "fix"
  /\ UNCHANGED <<input, pool, level, i, tmpdir>>

\* apply_fixes ignores the exit code of clang-apply-replacements; a program that
\* cannot be started raises.
apply_fixes == return_code' \in {return_code, 1}

ApplyFixes ==
  /\ main = "fix"
  /\ IF "fix" \in args THEN apply_fixes ELSE UNCHANGED return_code
  /\ main' = "exit"
  /\ tmpdir' = IF tmpdir = "made" THEN "removed" ELSE tmpdir
  /\ UNCHANGED <<input, pool, level, i>>

\* Ctrl-C inside the try block: the directory is removed, the group is killed.
\* The threads go on writing into the directory, and then rmtree may raise first.
Interrupt ==
  /\ main \in {"fill", "put"}
  /\ \/ /\ main' = "killed"
        /\ tmpdir' = IF tmpdir = "made" THEN "removed" ELSE tmpdir
        /\ UNCHANGED return_code
     \/ /\ tmpdir = "made" /\ \E w \in Workers : worker[w].pc \in {"invoke", "tidy"}
        /\ main' = "raised" /\ return_code' = 1
        /\ UNCHANGED tmpdir
  /\ UNCHANGED <<input, pool, level, i>>

------------------------------------------------------------------------------
(* The threads: run_tidy.  They are daemons and end with the main thread. *)

Get(w) ==
  /\ worker[w].pc = "get"
  /\ queue # << >>
  /\ worker' = [worker EXCEPT ![w] = At("invoke", Head(queue))]
  /\ queue' = Tail(queue)
  /\ UNCHANGED <<unfinished, failed_files, yaml>>

\* CheckConfig: files of third_party are not for clang-tidy.
should_skip(f) == f \in Skipped

\* get_tidy_invocation makes the replacement file, for a skipped file too.
get_tidy_invocation == yaml' = (yaml \/ tmpdir = "made")

\* Mutated: a skipped file is not reported as done.
InvokeForgetting(w) ==
  /\ worker[w].pc = "invoke"
  /\ worker' = [worker EXCEPT ![w] =
                  IF should_skip(@.file) THEN Idle ELSE At("tidy", @.file)]
  /\ get_tidy_invocation
  /\ UNCHANGED <<queue, unfinished, failed_files>>

\* A skipped file is done with.
Invoke(w) ==
  /\ worker[w].pc = "invoke"
  /\ IF should_skip(worker[w].file)
     THEN worker' = [worker EXCEPT ![w] = Idle] /\ unfinished' = unfinished - 1
     ELSE worker' = [worker EXCEPT ![w].pc = "tidy"] /\ UNCHANGED unfinished
  /\ get_tidy_invocation
  /\ UNCHANGED <<queue, failed_files>>

Fails(f) == result[f] \in {"failing", "garbled"}

\* Popen, communicate and the exit code.
RunTidy(w) ==
  /\ worker[w].pc = "tidy"
  /\ LET f == worker[w].file IN
     /\ worker' = [worker EXCEPT ![w].pc = IF result[f] = "unstarted" THEN "dead" ELSE "print"]
     /\ failed_files' = IF Fails(f) THEN Append(failed_files, f) ELSE failed_files
  /\ UNCHANGED <<queue, unfinished, yaml>>

\* Under the lock the output is decoded, which may raise, and written.
PrintOutput(w) ==
  /\ worker[w].pc = "print"
  /\ worker' = [worker EXCEPT ![w].pc =
                  IF result[worker[w].file] = "garbled" THEN "dead" ELSE "done"]
  /\ UNCHANGED <<queue, unfinished, failed_files, yaml>>

TaskDone(w) ==
  /\ worker[w].pc = "done"
  /\ worker' = [worker EXCEPT ![w] = Idle]
  /\ unfinished' = unfinished - 1
  /\ UNCHANGED <<queue, failed_files, yaml>>

run_tidy(w) ==
  /\ ~Ended
  /\ Get(w) \/ Invoke(w) \/ RunTidy(w) \/ PrintOutput(w) \/ TaskDone(w)
  /\ UNCHANGED <<input, main, level, i, return_code, tmpdir>>

------------------------------------------------------------------------------
Main ==
  \/ BuildPathGiven \/ FindDatabase \/ ListChecks \/ LoadDatabase
  \/ check_clang_apply_replacements_binary \/ StartThreads
  \/ Search \/ PutTimesOut \/ Put \/ Join \/ ExportFixes \/ ApplyFixes

Next == Main \/ Interrupt \/ \E w \in Workers : run_tidy(w)

\* The main thread and the threads are scheduled, and clang-tidy ends on every file.
Spec == Init /\ [][Next]_vars /\ WF_vars(Main) /\ \A w \in Workers : WF_vars(run_tidy(w))

------------------------------------------------------------------------------
TypeOK ==
  /\ result \in Results /\ selected \in Selections
  /\ args \subseteq {"fix", "export_fixes"}
  /\ main \in {"start", "find", "list-checks", "options", "replacements", "threads",
               "fill", "put", "export", "fix", "exit", "killed", "raised"}
  /\ level \in 0 .. Depth
  /\ i \in 0 .. Len(Database)
  /\ queue \in Seq(Files) /\ Len(queue) <= max_task
  /\ unfinished \in Nat
  /\ worker \in [Workers -> {Idle} \cup
        [pc : {"invoke", "tidy", "print", "done", "dead"}, file : Files]]
  /\ failed_files \in Seq(Files)
  /\ return_code \in {0, 1}
  /\ tmpdir \in {"None", "made", "removed"}
  /\ yaml \in BOOLEAN

\* The files that the run has to report.
ToReport == {f \in Files : f \in selected \ Skipped /\ Fails(f)}

\* Once join has returned, failed_files names every file on which clang-tidy
\* failed and no other, whatever the threads did when and however often the
\* queue was full; so does the exit code, unless the fixes add a failure of
\* their own (run_clang_tidy.py:156-191, 312-333).
VerdictIsComplete ==
  main \in {"export", "fix"} =>
    /\ ToSet(failed_files) = ToReport
    /\ ToReport # {} => return_code = 1
    /\ args = {} /\ ToReport = {} => return_code = 0

\* No exception ends a thread and every file is wanted.
Regular == selected = Files /\ \A f \in Files : f \in Skipped \/ result[f] \in {"clean", "failing"}

\* The run comes to its end and leaves no temporary directory, but for a Ctrl-C
\* that meets a thread which is writing into it: the queue's join
\* waits for no task that was taken and not reported as done, although a full
\* queue may turn the main thread away any number of times.  A thread that dies
\* of an exception, or a name that no pattern matches, does keep it for ever
\* (run_clang_tidy.py:156-191, 312-340).
RunEnds == Regular ~> Ended /\ (tmpdir # "made" \/ main = "raised")

------------------------------------------------------------------------------
(* Why VerdictIsComplete holds: the inductive invariant. *)

\* The threads that hold a task which they have not reported as done.
Busy == {w \in Workers : worker[w].pc # "get"}

CountInv == unfinished = Len(queue) + Cardinality(Busy)

\* Only wanted files are handed over, and none of third_party reaches clang-tidy.
ChosenInv ==
  /\ main = "put" => i < Len(Database) /\ Database[i + 1] \in selected
  /\ \A k \in 1 .. Len(queue) : queue[k] \in selected
  /\ \A w \in Workers : worker[w].pc \in {"invoke", "tidy"} => worker[w].file \in selected
  /\ \A w \in Workers : worker[w].pc = "tidy" => worker[w].file \notin Skipped

Queued(f) == \E k \in 1 .. Len(queue) : queue[k] = f
InWork(f) == \E w \in Workers : worker[w].pc \in {"invoke", "tidy"} /\ worker[w].file = f
Named(f) == \E j \in 1 .. Len(failed_files) : failed_files[j] = f

\* No failing file is forgotten between the queue and failed_files.
NamedInv ==
  /\ \A j \in 1 .. Len(failed_files) : failed_files[j] \in ToReport
  /\ \A k \in 1 .. i : Database[k] \in ToReport =>
       Queued(Database[k]) \/ InWork(Database[k]) \/ Named(Database[k])

\* After join nothing is under way, and the exit code follows failed_files.
JoinInv ==
  /\ main \in {"export", "fix"} =>
       /\ i = Len(Database) /\ unfinished = 0
       /\ failed_files # << >> => return_code = 1
       /\ args = {} /\ failed_files = << >> => return_code = 0
  /\ main \notin {"export", "fix", "exit", "raised"} => return_code = 0

IInv == TypeOK /\ CountInv /\ ChosenInv /\ NamedInv /\ JoinInv
===============================================================================
