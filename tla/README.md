# A TLA+ model of cppserverstudio

`src/` is a C++11 network library in the manner of muduo: a reactor with one
event loop per thread, TCP servers on top of it, an HTTP server and an RTSP
server that plays H.264 files, and an asynchronous log.  `src/build_support/` holds
the Python tools of its build: `cpplint.py`, and `run_clang_tidy.py`, which runs
clang-tidy over the compilation database in threads.  The modules here describe
the library's concurrent core and its protocols and the stateful part of the two
tools, TLC checks them on small instances, and TLAPS proves a part of what TLC
checks for every instance.

Paths below are relative to `src/src/`, those of Python files to `src/build_support/`.

- [The system](#the-system): components, state, interactions, what is hard
- [The modules](#the-modules): how state and actions correspond to the code
- [The runs](#the-runs): what each one checks, its bounds, its fairness
- [What is proved](#what-is-proved), and what is only model-checked
- [Where the code does not do what it says](#where-the-code-does-not-do-what-it-says)
- [What is not modelled](#what-is-not-modelled)
- [Plan](#plan)

To repeat a run: `tlc -config <name>.cfg <Module>MC`; a proof: `tlapm <Module>Proofs.tla`.

## The system

| Component | State | Operations | Talks to | What makes it correct |
|---|---|---|---|---|
| **EventLoop** (`Event`) | `to_do_list_`, `calling_functors_`, the eventfd | `Loop`, `RunOneFunc`, `QueueOneFunc`, `WakeUp`, `HandleRead`, `DoToDoList` | every thread that hands it functors; Epoller; TimerQueue | no lost wakeup; functors run once, in order; descriptors are not starved |
| **Epoller, Channel** (`NetWork`) | registrations, the active list, the `tie_` | `Poll`, `Update`, `Remove`, `HandleEvent` | the kernel, edge-triggered; owners of channels by raw pointer | an event is delivered to a live object, and no edge is missed |
| **Acceptor, TcpServer** | the listening socket, `connectionsMap_` by descriptor, `next_` | `AcceptConnection`, `HandleNewConnection`, `HandleClose`, `HandleCloseInLoop` | sub loops by functors; connections by callbacks | one live connection per entry; each removed once and destroyed |
| **TcpConnection** | `state_`, `read_buf_`, `send_buf_`, interest | `HandleMessage`, `HandleWrite`, `Send`, `HandleClose`, `ConnectionDestructor` | its loop, the main loop, user callbacks | bytes in order, none stuck; no use after destruction |
| **Buffer** | a vector and two indices | append, prepend, retrieve, grow | TcpConnection, RtpPacket | it is a byte queue, stays inside its vector, does not grow for ever |
| **TimerQueue, Timer** (`Timer`) | `timers_`, `active_timers_`, a one-shot timerfd | `AddTimer`, `HandleRead`, `ResetTimers`, `ResetTimerFd` | EventLoop; callbacks that add and stop timers | every timer runs, the timerfd is set for the earliest |
| **ThreadPool** (`Thread`) | a queue, `stop_`, workers on a condition variable | `Add`, the worker's loop, the destructor | callers, tasks that add tasks | no task is forgotten, the destructor drains and returns |
| **EventLoopThread(Pool)** | `loop_` behind a mutex, `loops_`, `next_` | `StartLoop`, `ThreadFunc`, `nextloop` | TcpServer | a loop is used only while it lives; connections are spread |
| **AsyncLogging, LogFile, FixedBuffer, Logger** (`log`) | `current_`, `next_`, `buffers_`, `running_`, the backend's local buffers, the file | `Append`, `ThreadFunc`, `Start`, `Stop`, `Flush`, `rollFile` | every thread that logs | messages reach the file once, in order, in time |
| **HttpContext, HttpServer** (`http`) | the parser's state, `request_` | `ParaseRequest`, `onMessage`, `onRequest`, `ActiveCloseConn` | TcpConnection, TimerQueue | a request is understood as it was written |
| **RtspServer, RtspSession** (`Rtsp`) | `_stream`, `_sessionid`, timers | `DESCRIBE`, `SETUP`, `PLAY` | TcpConnection, TimerQueue | one stream at a time; its timers end |
| **RtspMediaStream, H264RtpEncoder** | place in the file, `_time_stamp`, `sps_`, `pps_`, `last_nalu_`, `_seq` | `readFrame`, `inputFrame`, `packRtp...` | RtspSession's callback | the receiver can put the file together again, on time |
| **Rtcp, Util** | counters; nothing | | nobody; everybody | |
| **run_clang_tidy** | the bounded `task_queue`, its count of unfinished tasks, `failed_files` behind a lock, `return_code` | the main thread: fill, join, export, fix; the threads: `run_tidy` | clang-tidy, clang-apply-replacements; Ctrl-C | the verdict is that of every file; the run ends |
| **cpplint** | `_cpplint_state`, `_error_suppressions`, `_line_length` and other globals; per file `NestingState`, `_IncludeState`, `_FunctionState` | `ProcessFile`, `ProcessConfigOverrides`, `ProcessLine`, `Error` | the files, the `CPPLINT.cfg` of their directories | a file is judged by its own settings and its whole text |
| **run_clang_format** | a list of differences | one pass over the files | clang-format | |

Interactions that cross threads are few: the functor queues of loops (with the
eventfd), the mutexes of `EventLoopThread`, `ThreadPool` and `AsyncLogging`, and
what is shared without one: `state_` of a connection, `running_` of the log, the
reference counts of connections.  Inside one loop, order is the difficulty:
which channels `epoll_wait` has already returned when a callback removes one,
what a timer callback does to the timers being run, what the kernel reports only
once.  The build tools add a pool of threads around a bounded queue whose tasks may
fail in several ways, and a program whose many globals are meant to hold for one
file, one `#if` branch or one line.  `PROJECT.json` lists these hazards at the lines where they bite, with the
properties that would catch them going wrong.

## The modules

Three abstract specifications say what a component promises:
**Executor** (tasks start in the order in which they were handed over, each once
for every time it was handed over, and all of them),
**ByteQueue** (bytes are put at either end and taken from the front),
**ConnectionLife** (absent, served, removed, detached, destroyed, in this order).

**EventLoop** - one loop.  `to_do_list_`, `functors` (the list that `DoToDoList` has
swapped out), `calling_functors_` and the counter of the eventfd are the code's;
`pc` is the loop thread's place in `Loop`, `tpc` that of each foreign caller.
A critical section of `mutex_` is one step; `QueueOneFunc` writes the eventfd in
a step of its own, after it has given the mutex back.  A signal may interrupt
`epoll_wait`, which returns -1 (`Interrupt`): no channel is active, and the loop goes on to
its functors.  Refines Executor with `Pending == functors \o to_do_list_`.

**TcpServer** - connections across loops.  Loop 0 is `main_reactor_`.  A connection is
its socket and its object together (`obj`), its descriptor, `state_`, the interest
registered with epoll, the unread input and the edge not reported yet.  Every loop
runs `Poll`, dispatches the active list, then a batch of functors; `held` are the
connections that started functors of the batch keep alive.  `Release` is
`~TcpConnection` in the step that drops the last `shared_ptr`.  The test and the
assignment of `state_` in `HandleClose` are two steps because two threads make
them.  The queues of functors are Executors, as EventLoop shows; a functor in a
queue therefore simply enables its loop's `Poll`.  Refines ConnectionLife.

**TcpOutput** - `Send`, `send_buf_`, `HandleWrite` against a socket whose queue fills up,
a peer that reads, writes and resets, and edges.  `send_buf_` is the ByteQueue
that Buffer implements.

**Buffer** - `buffer_`, `read_index_`, `write_index_`, and `content`, the byte queue that
the calls so far promise.  Every operation is one action, `Append_` in its three
branches (in place, moving the contents, enlarging the vector).

**TimerQueue** - times are kept relative to now, in the units of 100 microseconds that
`ResetTimerFd` rounds up to.  `left` is a timer's expiration on the wall clock,
`timerfd` what is left of the kernel's one-shot timer on the monotonic clock:
setting the wall clock moves one and not the other.

**ThreadPool** - the worker's loop is `Wait`, `Return` (the thread ends), `Take`,
`Finish`; `Add` puts the task into the queue in one step and notifies in the next;
waits may end spuriously.  Refines Executor with `tasks`.

**LoopThreads** - `StartLoop` and `ThreadFunc` of each sub loop, then `nextloop`.
**EventLoopThreads** composes it with EventLoop: the loop of EventLoop is run by the
thread `Sub`, and functors reach it from the moment `StartLoop` has returned it, before
the thread has got to `Loop()`.  `HandleNewConnection` runs on the main thread: for each
connection for which `nextloop` chooses the loop, that thread itself registers the channel
with the loop's Epoller (`registered`), and what it does about the connection later
(`HandleCloseInLoop`) it queues.

**AsyncLogging** - a message is a number with a length, a buffer what it holds, a
`unique_ptr` a buffer or `Null`.  `Append` holds `mutex_` and is one step; the backend's
round holds it and is two, `Swap` (the buffers change hands and are written) and `Recycle`
(`resize(2)`, and each spare that is missing is `active_buffers.back()`, emptied by
`bzero`), with `current_`, `next_`, `buffers_` of the front ends and `new_current`, `new_next`,
`active_buffers` of the backend as variables.  `running_` is read outside the mutex,
`wait_until` gives it back; `files` is what has been passed to `fwrite`, file by file.
Messages are logged by one front end after the other, as `mutex_` orders them.

**HttpContext** - the parser as a fold over classes of characters, and
**HttpServer** - a connection whose stream is cut into pieces anywhere, with
`onMessage` and `onRequest`.  Clients write headers with a space behind the colon or
without one; the parser skips two characters whatever they are, so that without the
space the value loses its first character, and an empty value makes `std::string(colon + 2, end)`
throw an exception that nobody catches (`Throws`, `Terminate`).

**H264Rtp** - the encoder as functions from an encoder and a unit to packets.  A packet
carries an interval of a unit, so that reassembly can be stated without bytes.  What is sent
(`sendable`) are all units but parameter sets, SEI and AUD, those of types without a name in
the code included; the clock moves on with the first slices of pictures only (`decodeAble`).
**RtspSession** - `DESCRIBE`, `PLAY`, the timers that `PLAY` leaves behind, `readFrame`
one unit at a time, the end of the connection, which may come from another thread
while `readFrame` runs.  A batch of timers runs callback by callback, time passes
meanwhile, and those that go on start again together, from the time after the last callback (`Restart`,
`TimerQueue::ResetTimers`).

**RunClangTidy** - `main` is the main thread's place in `main()`, from the search for the
database to the fixes; `worker` each thread's place in `run_tidy`.  What clang-tidy does
with a file is chosen at the start: it succeeds, fails, fails with output
that is not UTF-8, or cannot be started; the last two raise in the thread, which
ends without `task_done`.  `put` with its timeout is three steps (`Search`,
`Put`, `PutTimesOut`), the body of `with lock` is one.

**cpplint** is five modules, one over the other.  A line of text is a name, and `Line` a
record of what the checks tell apart in it: tokens, directive, header, NOLINT
comment, indentation, and `found`, what the other checks of a single line report for it.
**CpplintText** cleanses raw strings and comments and closes expressions;
**CpplintNesting** is `NestingState`, the stack of blocks with its checkpoints at
`#if`, `#else`, `#elif` and `#endif`; **CpplintIncludes** `_IncludeState` and the checks of `#include`;
**CpplintChecks** the checks of several lines (functions, guards, the ends of blocks and
conditions, the end of the file).  **Cpplint** is the program: its state is that of
the code (settings, filters, suppressions, the per-file states); a step is the command line,
the opening of a file with its `CPPLINT.cfg` files, one line, or the end of a file.
`found` keeps what the checks reported, `reported` what `Error` printed of it.

Modules whose name ends in `MC` give the constants their values for TLC, those in
`Proofs` hold theorems.  Definitions that a comment calls *mutated* are plausible
mistakes in the definition next to them; with one in its place, TLC finds the
property listed with it in `PROJECT.json` violated.

## The runs

All runs finish in under two minutes on two cores.  `CHECK_DEADLOCK FALSE` stands wherever
clients may stop sending, or the run's bounds stop them; `event_loop` checks for
deadlock.

**event_loop.**  Two sub loops come up; the first has a main thread and another that
call it, three functors and one channel.  Functors may be handed over again, by
themselves too, so nothing bounds the run but the capacity of the lists.
`NoLostWakeup`: a loop about to block with a functor in its list is going to be
woken.  `ReadFindsCounter`: the assertion in `HandleRead`.  `Executes`: the loop
is an Executor.  `InputIsHandled`: functors that hand over functors never keep the
loop from its descriptors.  `PoolStarts`: the start handshake never misses the
publication of a loop.  Two callers make every order of push, write, read and
swap; a third would repeat one of them.  A second loop is there for the
round robin, so that not every connection goes to the first.
*Fairness:* the loop threads and the main thread's start-up run, and a caller that
has pushed gets to its `write`: all are runnable threads.  Of `Poll` the fairness is strong:
signals do not interrupt every `epoll_wait` that has something to report.

**server.**  Two connections, two descriptor numbers, and two set-ups: a main loop with
one sub loop (an echo server), and the main loop alone with the auto-close timer
(an HTTP server).  With two connections, descriptors are reused while the old
connection dies; one sub loop is enough because sub loops share nothing with each
other.  `EraseFindsEntry` is the assertion of `HandleCloseInLoop`;
`NoEntryOverwritten` says that a new connection never meets an entry of its descriptor in
`connectionsMap_`, and an open one only its own; `NoDanglingChannel` and `NoStuckInput` relate
active lists, registrations and edges; `LivesOnce` is the refinement; `ClosedIsReclaimed` says that a
closed connection's descriptor comes back.  *Fairness:* every loop's thread
runs; peers and timers owe nothing.

**server_auto_close** (violated) - see below.

**tcp_output.**  Eight bytes in messages of one to four, a send queue of three with a
low mark of two: short writes, full queues and edges that come before, between
and after the calls.  `InOrder`, `NoStall`, `Delivered`.  *Fairness:* the loop runs, and a
peer that keeps the connection reads.

**buffer.**  Every sequence of operations with messages of up to three bytes, in a
vector of five to eight: all three branches of `Append` at all their boundaries.
`IndexInv` keeps both indices inside the vector, `Represents` says that
the readers see what a ByteQueue holds, `BoundedSlack` that a vector that grows is then at
most twice what it holds.

**timer_queue.**  Three timers, delays up to two units, one step of the wall clock in
either direction.  `NoForgottenTimer` relates the timerfd to the earliest timer,
`TimersRun` is the promise.  *Fairness:* the loop runs and time passes.

**thread_pool.**  Two workers, two callers, three tasks, tasks that add tasks, spurious
wakeups, the destructor at any moment after the last external `Add`.  `NoIdleWorker`: while
a worker sleeps, every queued task has an awake worker or a notification of its own;
`DestructorDrains`: when the destructor returns the queue is empty and no task runs; `Executes` is the refinement of Executor; `DestructorReturns`.  *Fairness:* all
threads run; a waiting worker only if it is woken.

**async_log.**  Four messages of one or two bytes, buffers of three, files of four: the
spare buffers run out, up to four buffers are full at a round, buffers are used again, files roll.
`InOrder`: what the files and buffers hold is what was taken, once and in order.
`SparesSuffice`: `active_buffers` has a buffer for each spare that the round gave
away, and `current_` is never null.  `StopWritesWhatItOwes`: `Stop` waits for the round that the
backend has begun; a backend that reads `running_` after `Stop` has cleared it ends
at once, and of what is then pending the property promises nothing: the code loses it.
`EventuallyWritten`.  *Fairness:* the
backend's thread runs and its timeout expires; the process has not aborted.

**http.**  Up to three requests out of six (with parameters, headers with and without the space, a
body), read in pieces of any size.  `ReadsRight`: of a request read in one piece the
callback sees its own method, URL, version and body, and as parameters and headers exactly
what it saw for the answer before with those of this request put over it.  `request_` is never
emptied, so what earlier requests on the connection sent stays visible; the property
says that nothing else does, and that nothing is lost.  `NothingCarriedOver`: no call
begins in the middle of a request.  No fairness: the properties are safety properties.

**rtsp.**  Two `DESCRIBE`s, two timers at a time, two short files (new parameter sets in the
middle; a picture of two slices, units that are dropped), fragments of three
bytes with units of 1 to 8 (one packet; two or three fragments; an empty, partial
or full last one), eight sequence numbers, five frames of time: the file restarts,
numbers wrap, timers run late, callbacks take time.  `ArrivesWhole`, `ConfigBeforeKeyFrame`,
`Paced` (a stream is not ahead of the clock, and each callback catches up with the time at
which it began), `TimersEnd`.  *Fairness:* the loop runs and time passes.  `Delay` is 0 in
this run because only its comparison with the clock matters.

`ConfigBeforeKeyFrame` depends on two facts about the run's files, which real files
have: the SPS is at least as long as the PPS, and a unit to send stands between a key
frame and new parameter sets.

**clang_tidy.**  Two threads, a queue of two and a database of four entries in which one
file stands twice and one is of third_party: the queue is full whenever the
threads are slow, and two threads may work on one file.  At most one file ends its
thread, and at most one is not selected, or the patterns do not compile, so that a run survives
the loss of a thread, or not.
All options, a search for the database through two directories, and Ctrl-C at any moment of the filling.
`VerdictIsComplete`: once join has returned, `failed_files` and the exit code
tell exactly the wanted files that failed.  `RunEnds`: a run in which no thread
dies and every file is wanted ends, and without a temporary directory, unless a Ctrl-C
meets a thread that is writing into it and `rmtree` raises.
*Fairness:* the main thread and the threads are scheduled, and clang-tidy ends on
every file.  The run stops when main exits, hence no deadlock check.

**cpplint.**  Six themes, each with all texts of a few lines over the lines that matter
to it: blocks (five lines with every nesting of `#if` groups, three with namespaces, classes,
templates and inline assembly), includes (four with `#if`, three with every kind of
header), the header guard, suppressions (three lines), blocks and conditions that end in a later
line (three and four lines, `;` and bodies with and without comments), and trees of five files, one
of them unreadable, with every combination of `CPPLINT.cfg` files in three
directories.  The thresholds are small enough for a text of five
lines to pass them: `NamespaceLines` is 3 (10 in the code), `SectionLines` 4 (24),
`_NORMAL_TRIGGER` 1 (250), `_TEST_TRIGGER` 2 (400).
`FilesStartAfresh`: a file is linted under the filters of its own directories, with no
suppression and no count left of an earlier file.  `ReportsExactly`: what is printed of what
was found is what the filters, the confidence and the NOLINT comments of the whole
text let through, although `CheckTrailingSemicolon` reads comments ahead of their turn.
Two kinds of errors are judged by the comments read until then only, as the code has it: those
of the header guard, and the empty body of a condition of several lines, which is reported
in the line where the condition ends but judged where it begins.  A comment for a category that nobody knows silences nothing.  `NestingFollowsFirstBranch`: the open blocks are those of
the text with the first branch of each ended `#if` group and the branch being
read of the others.  `IncludesJudged`: an `#include` is called a
duplicate or misplaced exactly because of the ones before it; of flat `#if` groups
only, as the code is wrong for nested ones (below).  The references in these properties are
defined from the text alone and share no state with the program.  No fairness: the
program is sequential.

## What is proved

TLAPS checks these for all values of the constants that satisfy the named
assumptions (`WakeupAssumption`, `BufferAssumption`, `PoolAssumption`, `OutputAssumption`,
`TimerAssumption`, `ServerAssumption`, `LogAssumption`, `HttpAssumption`, `RtpAssumption`,
`SessionAssumption`, `TidyAssumption`, `LintAssumption`, `LineAssumption`; TLC evaluates
them, and `ThreadsAssumption`, in the runs).

**EventLoopProofs.**  `TypeCorrect`, `NoWakeupIsLost`, `HandleReadAssertion` from the inductive
invariant `IInv`.  `NoLostWakeup` alone is not inductive: it speaks of a loop about
to block, and a step into that state needs to know what the eventfd's counter and
the callers' places were earlier in the round.  `WakeupInv` says it from the swap of
the lists on (a functor in `to_do_list_` is covered by the eventfd or by a thread
about to write it), `FlagInv` ties `calling_functors_` to the phase (it
decides whether the loop thread wakes itself), `PhaseInv` what the lists can hold in each
phase.  `LoopIsExecutor`: the loop starts as an Executor and each of its steps is a
step of the Executor or a stutter.

**ThreadPoolProofs.**  `NoTaskIsForgotten`: while a worker sleeps, there are at least as many
awake workers and pending notifications as queued tasks.  It needs counting: a
notification moves one from the notifiers to the awake workers
(`NotificationPassesOn`), an `Add` adds a task and a notifier (`AddIsAnnounced`), a worker
that goes to sleep has seen an empty queue.  `NothingIsDropped`: when `~ThreadPool` returns, the queue
is empty; it rests on `StopInv` (a worker ends only with `stop_` set and the queue
empty, and nobody outside adds any more) and `NobodySleepsOn`.
`PoolIsExecutor`: the safety part of the refinement.

**BuildSupportProofs** is about the two programs of `build_support`; **CpplintProofs**, which
extends it, holds the two largest proofs about cpplint (`LintReportsExactly`,
`LintIncludesJudged`).

*run_clang_tidy.*  `VerdictHolds`: `VerdictIsComplete` for any database, number of threads
and outcome of clang-tidy.  Of join the property needs that it waited for
everything: `CountInv` (the count of unfinished tasks is the queue's length and
the number of busy threads; a thread that died stays busy for ever, so join cannot
return over its file) and `NamedInv` (a wanted failing file among those gone
through is in the queue, at a thread before its verdict, or named).
`ChosenInv` gives the other direction, that only wanted files get as far as
clang-tidy, and `JoinInv` carries the exit code from join to the fixes.  The steps
of the threads share one lemma (`MovesOnInv`).

*cpplint.*  Four theorems, for any command line, any tree of files with any `CPPLINT.cfg`
files, and any texts.  `LintAssumption` says that these are finite (the headers beside
a file, too) and that a file that may be linted has a text; `LineAssumption` that the lines are
records of one kind, that what the checks of a single line find in one is finite, and
that it is never an error of the header guard, which only the check of the whole file reports, nor
one of a duplicate or misplaced `#include`, which only `CheckIncludeLine` does, nor one of an empty
body, which only `CheckEmptyBlockBody` does.  The thresholds, the categories and the headers are arbitrary.  `LintAlwaysTyped` and
`LintAlwaysInText` come first: the files still to be linted are among those the command line stands
for, and while one is gone through, `doc` is its text and `linenum` a line of it or the one
behind the last.

- `LintNestingIsRight` (`NestingFollowsFirstBranch`).  What the stack is at a line says nothing about
  what an `#endif` will restore, so that the property is not inductive.  `NestingInv` adds it: `pp_stack` has one
  entry for each open group; its `stack_before_if` are the blocks at the `#if`, and, once an
  `#else` or `#elif` has been seen, its `stack_before_else` those at the end of the first
  branch (`Checkpoint`), each with the branches that the groups around it were in.  A
  directive keeps this (`DirectiveKeeps`), in four shapes: it opens a group, turns the
  innermost one, closes it, or is none (`BranchedShape`).  That the blocks of a text
  depend only on its live lines is `SameBlocks`; that a branch of a group that has ended adds none,
  `DeadLines`; which lines are live after a directive, `LiveWithGroup`, `DeadInGroup` and `DeadAfterGroup`.
- `LintFilesStartAfresh` (`FilesStartAfresh`).  `FreshInv` says what the filters are between two files
  and what `_filters_backup` holds inside of one.  `OverridesAreRight`: going up from the file, the code collects
  filters line by line until a file ends the search, and applies them from the last to
  the first; `FiltersOf` goes down from the root.  Both are folds, joined by
  `FlattenFromBehind`.  A file that is excluded half-way leaves filters that nobody uses, hence
  `~excluded` in it.  `HeadKeeps`: the check of the header guard reads comments out of turn, and each
  suppression still comes from a comment of this file (`GuardIs`: it reads lines of the text
  only; `CommentsOfElided`: a line without its raw strings has the comment of the raw line).

- `LintReportsExactly` (`ReportsExactly`).  The code judges an error when it finds it, by the
  comments read until then; the property judges it by the finished text.  The invariant is
  `ReportsInv`: between two lines the comments in force are those of a set `K` of lines, the lines
  gone through and some that are read ahead (`Known`), and what was reported until then is already
  what the whole text says.  TLC has checked it as an
  invariant of this run as well; it is not in the configuration.  The argument is
  that no comment comes too late: `ProcessLine` reads the comment of a line before
  anything is found in it, and what a check finds belongs to that line or to one before
  (`LineErrors` is taken apart check by check: `FoundErrors`, `UpdateErrors`, `NamespacesKeep`, `BracesKeep`,
  `ClassKeeps`, ..., joined by `LineIsBlamed`), or it is one of the two that look ahead
  (`CheckAhead`; `LineStep`, `AheadKeeps`).  Of these, the `;` behind a block is reported when the comments
  of its line have been read (`SemicolonRight`), and an empty body is judged at the head of
  its condition, as the property has it (`BodyRight`).  Nor does a comment come too early: reading ahead
  only adds comments of lines in `ReadAhead`, which speak of those lines alone.  `RightInLines`
  then says that each error is silenced now exactly if the finished text silences it, and
  `ReportedMore` carries the comparison of the two lists over a step; that a list is the
  errors of another in their order is `Only`, with lemmas of its own (`OnlyOfBoth`,
  `OnlyOfOne`).  The head of the file is the exception the property names: the check of
  the header guard reads the comments of two lines ahead of the others, each before it judges an
  error there (`GuardShape`, `GuardRuns`); an unfinished comment is reported before any
  comment is read (`BeginReports`).  After the last line, `CheckForIncludeWhatYouUse` and the
  checks of completed blocks report in lines that have all been read (`EndReports`).

- `LintIncludesJudged` (`IncludesJudged`).  The property asks which `#include`s of the text come before one
  and are not parted from it; the code keeps a list per open `#if`, empties the last at `#else` and
  `#elif`, never drops one, and moves a section number that each directive resets.  `IncludesInv` relates
  the two.  `Lists`: the last list holds what counts since the `#if` that is open, the lists before
  it what counts otherwise and no branch parts from here.  `Sections`: the section is past a
  point exactly if a header that belongs behind that point has counted since the last directive.
  `AboutIncludes`: what is found about includes so far is what they are to be blamed for.  TLC has checked
  it in this run, as `ReportsInv`.  `Duplicates` is recursive over the lines of the text (a duplicate does
  not count, and so makes none); `DuplicatesDef` makes an equation of it and `DuplicateIs` gives the
  answer by the lines listed so far, which are what `FindHeader` looks through (`KnownHeaders`).
  `FlatShape` and `FlatGroup` say what a directive does where groups are not nested, `ListedNext` and `ListsNext`
  (one lemma per directive) carry the lists over a line, `SectionMoves` and `SectionsNext` the
  section.  `IncludeNext` goes through the cases of `CheckIncludeLine`.  Two things keep other errors
  apart: nothing ahead of the first line is about an include (`CleanHead`), and nothing else in a
  line is (`LineParts`).  In inline assembly the includes would not be looked at, hence `NoAssembly`: without `asm`
  in the text, no line opens such a block, whatever braces, classes and namespaces it has.

As both programs are extended by one module, Cpplint calls its initial states,
steps and specification `LintInit`, `LintNext` and `LintSpec`.

**ConnectionProofs** is about the bytes of a connection.

*The buffer.*  `MemorySafe` (indices inside the vector), `BufferIsQueue` (the bytes
between the indices are those of the byte queue) and `GrowthIsBounded`.  The
invariant is the type, `IndexInv` and that the vector keeps its prepend area; the
lemmas state what a copy into a vector leaves and changes
(`CopyReadsBack`, `CopyBehind`, `CopyBefore`).

*The output side.*  `NothingStalls`: bytes left in `send_buf_` never wait for an `EPOLLOUT`
edge that will not come.  `EventInv` follows the event from `epoll_wait` on: what has
left the ready list of epoll is in `ready_events_` until the callback has taken it.
`BytesInOrder` needs `PlaceInv`: from its place in what the peer got, the socket's
queue, `send_buf_` or what is not handed over yet, each byte's number follows.

As both specifications are extended by one module, Buffer calls its initial states, steps,
specification and types `BufferInit`, `BufferNext`, `BufferSpec` and `BufferTyped`.

**TimerProofs** is about the timers and about the component that leaves most of its work to
them, the RTSP session.

*The queue.*  `NoTimerIsForgotten` rests on `BoundInv`: `Earliest` is really the
smallest expiration, and `Arm` never puts the timerfd later than it, and on `PhaseInv`,
what `HandleRead` can still do to a timer in each of its phases.

*The session.*  Three theorems, for any files, sizes, streams and timers.  Their invariant is
`RtspInv`:

- `SessionInv`: the types; timers have numbers of their own and play streams whose
  send callback is set (`TimersInv`); `readFrame` runs for the newest stream only, on
  behalf of one of its timers (`ReadingInv`), since the callback's `lock` fails for every other
  stream.  With the bounds of `Paced` it is inductive: `StreamsKeepPace`.
- `PlaceInv`: the unit that the encoder holds back is the one to send that `readFrame` read last, in this
  round of the file or at the end of the one before.
- `SentInv`, with `Joined`: the last packet of such a unit that went out on the stream ends it, and
  the unit held back is the one that follows it in the file; `_seq` continues the last
  sequence number; the last marker is set exactly if the time stamp of the unit held back
  is another one.  Before the first packet, the unit held back is the file's first.

For `UnitsArriveWhole` (`ArrivesWhole`), what `packRtp` returns is described once (`Carries`, `Framed`;
`UnitIsPacked` for a packet of its own and for fragments of any number and any last size),
and `UnitWhole` adds such packets to whatever was sent before.
`SetsComeBeforeKeyFrames` (`ConfigBeforeKeyFrame`) adds `ConfigInv`: the encoder has the sets
read last and, while it holds a key frame, those in force for it.  Its
hypothesis is `WellConfigured`, which says what the code expects of a file: sets before each
key frame, a unit to send between a key frame and the next sets (otherwise these go out in front of the
old key frame, see below), an SPS that fits into one packet and is no shorter than the
PPS.  TLC evaluates it on the files of the run (`FilesAssumption`).

As both specifications are extended by one module, RtspSession calls its initial states,
steps and specification `RtspInit`, `RtspNext` and `RtspSpec`.

**TcpServerProofs.**  `EntriesAreNotOverwritten` (`NoEntryOverwritten`) holds for every server.  It
joins two parts of the invariant: the kernel gives out only free descriptors (`OwnerInv`), and an
entry of the map is that of an open connection with the entry's descriptor (`EntryInv`): as the
entry is a reference to its connection, `~TcpConnection` cannot have closed the descriptor.  `EntryIsFound`, `ChannelsAreAlive`, `InputIsNotStuck` and
`ConnectionsLiveOnce` (the refinement of ConnectionLife) are about servers in which one
thread closes a connection: `OneCloser` says that there are no sub loops, or that
the auto-close timer is off.  Without it the first one fails, as the run
`server_auto_close` shows.  None of them is inductive.  `IInv` adds: the frame of
a callback runs on its connection's loop (`FrameInv`); for each connection the queues
hold at most one pending erasure, with the entry still in the map, and later
at most one `ConnectionDestructor` (`QueueInv`, `OnceInv`); an open connection is in the
map until it is closed and with its poller until `ConnectionDestructor` has run (`LifeInv`);
an active list is there only while its loop dispatches, a batch only while it
runs functors (`LoopInv`); and what an active list names can still be called
(`ActiveInv`).  From these, `Release` frees only what no queue, batch, map entry or list holds.

**StreamProofs** is about the two components whose promise concerns a whole stream of
data, the asynchronous log and the HTTP server.  Both need induction over data,
and the induction theorems of the library cannot be used with these
provers.  The module takes its induction from the order of the numbers instead:
`<` is well-founded on `Nat`, so a set of numbers that is not empty has a least one
(`LeastNumber`); a set with 0 that has n + 1 whenever it has n is all of `Nat`
(`AllNumbers`).  A fact about every prefix of a sequence is then a set of lengths.
From it follow that `FlattenSeq` is what its recursive definition says (`FlattenAppend`) and
that the parser's fold goes through a message character by character (`ParseIs`).

*The log.*  `SparesAreThere`: the list that the backend takes its new spares from has one for each spare
that it gave away.  `new_next` is given away only when `next_` was used up, and then `Append`
has queued the buffer before it; that joins `current_` in the list, and `resize(2)` leaves
both.  `NothingIsLost` (`InOrder`): what is in the files, followed by what
the backend holds, `buffers_` and `current_`, is exactly what the front ends handed in and
`FixedBuffer` took, in this order.  A round of the backend moves messages from one of
these places to the next, `WriteAppends` and `FilesTakeThem` say that rolling a file in
between keeps the order of the files' contents; a buffer that is used again is empty, and so are the
spares.  `StopFinishesTheRound` (`StopWritesWhatItOwes`) adds `OwedInv`:
what `Stop` owes is a prefix of the messages given, and once `running_` is false
each of them is on its way at a place that the backend's last round still passes.

*The HTTP server.*  `RequestIsRead`: for every request that is `WellFormed`, with any number
of parameters and headers and any lengths, `ParaseRequest` from `START` reads its text to
the end, says COMPLETE, and what it stored is the request put over whatever an
earlier request left in `request_`, nothing lost and nothing added.  The argument follows the text: `At` and `PartsAt` say
what stands at which place of the message, `Cursor` is the parser between two
characters; one lemma for each kind of character class says what the fold does over
a run of it (`Passes`, `Scans`, `PassesWord`), one for each part of a request that it
is read and stored, and an induction over the parameters and one over the headers
join them.  `RequestsAreReadRight` (`ReadsRight`) and `NoHalfRequestIsKept` (`NothingCarriedOver`)
carry it to the server, for requests with a space behind the colons of their headers: `HttpInv` adds the types and, for every answer whose piece is the
text of a request that clients may send, that the request seen agrees with it; what the context
keeps between two requests is what the callback saw last.
`HttpAssumption` says that clients write well-formed requests: no separator inside a
part, names that are not repeated, and nowhere the code's own misspelled header name
`Content-Lenght` (character `"L"`).  The last one matters: `request_` keeps its headers
from one request to the next, and a value stored under that name decides whether a
later request is given a body.

The two components share a module because their proofs share the induction; to be
extended side by side, HttpServer calls its initial states, steps and
specification `HttpInit`, `HttpNext` and `HttpSpec`.

Only model-checked: liveness (`InputIsHandled`, `Executes` as a whole, `ClosedIsReclaimed`,
`Delivered`, `TimersRun`, `DestructorReturns`, `PoolStarts`, `EventuallyWritten`, `TimersEnd`, `RunEnds`), as proofs
about fairness and `ENABLED` are out of the prover's reach.  Every invariant of the runs is proved.

## Where the code does not do what it says

Found by a run and listed under *findings*:

- `server_auto_close`: `TcpConnection::HandleClose` tests and sets `state_` without
  synchronisation.  The sub loop (end of the stream) and the main loop
  (`HttpServer::ActiveCloseConn`) can both pass the test; `HandleCloseInLoop` runs twice
  and its `assert(it != connectionsMap_.end())` fails.

Stated in a module and refuted by TLC when added to its run:

- `EveryMessageStored` (AsyncLogging): `Append` asks for `avail() >= len` and
  `FixedBuffer::append` for `avail() > len`; a message of exactly the room left is dropped.
- `FatalIsWritten` (AsyncLogging): a FATAL message is still in `current_` when its Logger
  flushes and aborts; `AsyncLogging::Flush` flushes `stdout` only.
- `OwnLineLength` (Cpplint): `linelength`, `root`, `headers` and `extensions` of a `CPPLINT.cfg`
  go to globals that nothing restores, so that they hold for the files after it, and
  as the directories are read from the inside out, a parent overrides a nested one
  (cpplint.py:6289; lines 253 and 254 say that the options apply to the directory and its
  subdirectories).
- `NotifyWakes` (AsyncLogging): the predicate of `wait_until` is constantly false, so
  that no notification wakes the backend, only the timeout does.

Seen while modelling, left out by a named guard or assumption:

- a `PLAY` or `SETUP` before `DESCRIBE`, and a `PLAY` after a `DESCRIBE` that was answered 404,
  dereference null pointers (`handlePlay`);
- a unit of exactly 1386 bytes makes `packRtpFu` copy -1 bytes (`Nalus`);
- the PPS is sent with the length of the SPS (`insertConfigFrame` does so, too);
- new parameter sets directly behind a key frame go out in front of it: with such a
  file, TLC finds `ConfigBeforeKeyFrame` violated;
- the second slice of a picture carries the time stamp of the next picture;
- `_time_stamp * 1000` wraps in 32 bits after 71 minutes (`MaxTime` stays far below);
- a failed `accept4` reaches `HandleNewConnection` as descriptor -1, whose assertion ends
  the server (`Acceptor.cpp:68`);
- the last answer on an HTTP connection is followed by a close that does not wait for
  what is left in `send_buf_` (`HttpServer.cpp:94`);
- an RTSP request in two pieces leaves the parser in the middle for good (`RtspServer.cpp:37`).

Of the servers and the log, in the model as the code has it:

- `request_` is not emptied between the requests of a connection (`HttpContext.cpp:20`): a callback
  sees parameters and headers that earlier ones brought;
- a header without a space behind the colon loses the first character of its value, and one that is
  empty as well ends the program (`HttpContext.cpp:198`);
- a backend that reads `running_` after `Stop` has cleared it ends with messages pending
  (`AsyncLogging.cpp:77`).

Of run_clang_tidy.py, in the model as the code has it:

- a file that no pattern matches makes the main thread spin on it (line 316: `put_file` stays
  false), so that patterns on the command line work only when they match everything;
- a thread that an exception ends never reports its task as done: join waits for ever;
- patterns that are no regular expression end the program behind `mkdtemp`: the directory stays (line 280);
- Ctrl-C removes the directory while threads still write into it, so that `rmtree` may raise before
  `os.kill` (line 339);
- `yaml` is not imported: with any replacement file, `-export-fixes` ends with exit code 1;
- the exit code of clang-apply-replacements is ignored.

Of cpplint.py, in the model as the code has it:

- several `filter` lines of one `CPPLINT.cfg` apply in the reverse order;
- an unfinished multi-line comment is reported before the NOLINT comments are read,
  one line late; the lines of a multi-line comment are not searched for NUL or invalid UTF-8;
- NOLINTNEXTLINE does not silence the `header_guard` error of the line after it at the `#endif`;
- an unknown NOLINT category on a line of the guard is reported twice;
- `#else` clears the innermost include list, `#endif` never drops one: with nested
  `#if` groups, includes of alternative branches are called duplicates;
- `CheckTrailingSemicolon` reads the NOLINT comment of the line that it reports, and of the one before,
  ahead of their turn (4226-4231), so that an unknown category there is reported more than once;
  `CheckEmptyBlockBody` reads none (4263-4269): the empty body of a condition of several lines is printed
  in spite of a NOLINT in the line it is reported in;
- whether a source includes its own header is decided by the first of a set of
  candidates, in no fixed order: a choice in the model.

## What is not modelled

- Formatting and text: log lines, time stamps, HTTP and RTSP answers, URLs, SDP,
  Base64; the search for start codes in a file.  Sequential, and for unit tests.
- `SETUP`: it changes `_rtp_type` only, which nothing reads.
- Error returns of `epoll_ctl`, `socket`, `bind`, `fopen`, `fwrite`; the buffering inside stdio.
- `~EventLoopThread`, which a running server never reaches, and the end of a server.
- cpplint: the checks of a single line that keep no state and report in that line (their results are `found`);
  in which order they come among themselves and with the checks that look ahead;
  `--root`, `--repository` and the expected name of a guard (`cppvar`); the output formats and JUnit.
- `run_clang_format.py`: one sequential pass.  (It assigns `had_err` anew for each directory, so that
  only the last one counts.)  The CMake target of cpplint echoes a `${SRC_LIST}` that is not defined.
- RTCP: nobody calls it.  `H264RtpDecoder` and `RtspPlayer` are empty in the source.
- Memory orderings weaker than interleaving: `state_` and `running_` are plain
  variables in the code; the models interleave their reads and writes.

## Plan

Done, in this order: EventLoop, TcpServer, TimerQueue, Buffer, ThreadPool,
LoopThreads, AsyncLogging, TcpOutput, HttpContext with HttpServer, H264Rtp with
RtspSession; proofs for EventLoop, ThreadPool and Buffer; EventLoopThreads, the
composition of a loop with the thread that starts it; RunClangTidy with its proof;
the five modules of cpplint; proofs for TcpOutput, TimerQueue and TcpServer, with its
refinement of ConnectionLife; induction over sequences, and with it the proofs for
AsyncLogging, HttpContext and HttpServer; proofs for H264Rtp and RtspSession; proofs
for the settings, the blocks and the includes of cpplint, and for what it reports.

Next:

1. Model: the client's side of RTSP in pieces (RtspServer's parser that is never
   reset), `SETUP` with its transports; an AsyncLogging whose front ends are threads.
2. Prove: that a LoopThreads pool returns only loops that live; the safety part of RtspServer's parser
   once it is modelled.
