----------------------------- MODULE AsyncLogging -----------------------------
(***************************************************************************)
(* The asynchronous log: front ends copy messages into current_ under       *)
(* mutex_, a backend thread swaps the buffers and writes them to the file   *)
(* (src/log: AsyncLogging, LogFile, FixedBuffer; Logger's FATAL path).      *)
(*                                                                         *)
(* A message is the number of its Append; its bytes count only by their     *)
(* length.  A buffer is what it holds, and a unique_ptr to one is the        *)
(* buffer, or Null.  Append holds mutex_ from its first to its last          *)
(* statement; the backend holds it for a round, which is two steps: the      *)
(* exchange of the buffers with the write, and the choice of the next        *)
(* spares.  running_ is read without it, and wait_until gives it back.       *)
(***************************************************************************)
EXTENDS Integers, Sequences, SequencesExt

CONSTANTS
  BufferSize,       \* FixedLargeBufferSize
  Lens,             \* the lengths of messages
  FileMaximumSize,  \* FileMaximumSize
  MaxMessages,      \* bounds the run
  Null              \* a unique_ptr that owns nothing

\* A message is at most a LogStream's buffer, far smaller than a large one.
ASSUME LogAssumption ==
  /\ BufferSize \in Nat
  /\ Lens \subseteq 1 .. BufferSize - 1
  /\ FileMaximumSize \in Nat \ {0}
  /\ MaxMessages \in Nat
  /\ Null \notin Seq(Nat)

VARIABLES
  given,      \* the lengths of the messages given to Append, in order
  dropped,    \* messages that no buffer took
  current_,   \* the messages in current_
  next_,      \* the spare of the front ends, or Null
  buffers_,   \* buffers_: the messages in each full buffer
  new_current, new_next,  \* the spares of the backend, or Null
  active_buffers,         \* the buffers that the backend writes
  files,      \* the messages in each log file, oldest file first
  running_,   \* running_
  backend,    \* where the backend thread is in ThreadFunc
  owner,      \* where the owner is: "new", "starting", "up", "joining", "joined"
  fatal,      \* the FATAL message whose Logger has not aborted yet, or 0
  aborted,    \* a FATAL message's Logger has called abort
  owed        \* how many messages Stop still waits for (history)

log == <<given, dropped, current_, next_, buffers_>>
spares == <<new_current, new_next, active_buffers>>
vars == <<log, spares, files, running_, backend, owner, fatal, aborted, owed>>

------------------------------------------------------------------------------
Length(ms) == FoldSeq(LAMBDA i, n : given[i] + n, 0, ms)
avail(ms) == BufferSize - Length(ms)
Written == FlattenSeq(files)
Pending == FlattenSeq(buffers_) \o current_

Init ==
  /\ given = << >> /\ dropped = {}
  /\ current_ = << >> /\ next_ = << >> /\ buffers_ = << >>
  /\ new_current = Null /\ new_next = Null /\ active_buffers = << >>
  /\ files = << >>
  /\ running_ = FALSE /\ backend = "none" /\ owner = "new"
  /\ fatal = 0 /\ aborted = FALSE
  /\ owed = 0

------------------------------------------------------------------------------
(* The front ends. *)

Fits(len, ms) == avail(ms) >= len

\* FixedBuffer::append keeps nothing of a message it has no room for, and wants
\* one byte more than the message has.
Takes(len, ms) == avail(ms) > len

\* The full current_ joins buffers_, and next_ takes its place, or a new buffer.
Spare == IF next_ = Null THEN << >> ELSE next_

Copy(id, len, ms) ==
  /\ current_' = IF Takes(len, ms) THEN Append(ms, id) ELSE ms
  /\ dropped' = IF Takes(len, ms) THEN dropped ELSE dropped \cup {id}

\* conv_.notify_one.
Notified == IF backend = "waiting" THEN "notified" ELSE backend

AppendMessage(len) ==
  LET id == Len(given) + 1
  IN  /\ backend # "recycling"  \* mutex_ is free
      /\ given' = Append(given, len)
      /\ \/ /\ Fits(len, current_)
            /\ Copy(id, len, current_)
            /\ UNCHANGED <<next_, buffers_>>
         \/ /\ ~Fits(len, current_)
            /\ buffers_' = Append(buffers_, current_)
            /\ next_' = Null
            /\ Copy(id, len, Spare)
      /\ backend' = Notified

\* A Logger of a level below FATAL ends its message.
Log(len) ==
  /\ Len(given) < MaxMessages
  /\ AppendMessage(len)
  /\ UNCHANGED <<spares, files, running_, owner, fatal, aborted, owed>>

\* One thread at a time gets this far: the next one would abort a dying program.
LogFatal(len) ==
  /\ Len(given) < MaxMessages
  /\ fatal = 0
  /\ AppendMessage(len)
  /\ fatal' = Len(given) + 1
  /\ UNCHANGED <<spares, files, running_, owner, aborted, owed>>

\* g_flush, AsyncLogging::Flush, flushes stdout; then abort.
Abort ==
  /\ fatal # 0
  /\ aborted' = TRUE
  /\ UNCHANGED <<log, spares, files, running_, backend, owner, fatal, owed>>

------------------------------------------------------------------------------
(* The owner. *)

Start ==
  /\ owner = "new"
  /\ running_' = TRUE
  /\ backend' = "started"
  /\ owner' = "starting"
  /\ UNCHANGED <<log, spares, files, fatal, aborted, owed>>

\* latch_.wait returns once the thread has notified.
Started ==
  /\ owner = "starting"
  /\ backend # "started"
  /\ owner' = "up"
  /\ UNCHANGED <<log, spares, files, running_, backend, fatal, aborted, owed>>

\* What the files get although running_ is false already: all there is, when the
\* backend has read running_ and has its write still to do.  At the head of its
\* loop it finds running_ false and ends, and what is pending is lost.
Owed == IF backend \in {"locking", "waiting", "notified"}
        THEN Len(Written \o Pending) ELSE Len(Written)

\* running_ = false and the notification; no other step tells them apart.
Stop ==
  /\ owner = "up"
  /\ running_' = FALSE
  /\ backend' = Notified
  /\ owner' = "joining"
  /\ owed' = Owed
  /\ UNCHANGED <<log, spares, files, fatal, aborted>>

Join ==
  /\ owner = "joining"
  /\ backend = "ended"
  /\ owner' = "joined"
  /\ UNCHANGED <<log, spares, files, running_, backend, fatal, aborted, owed>>

------------------------------------------------------------------------------
(* The backend thread. *)

\* latch_.notify, the two empty spares and the first LogFile.
Begin ==
  /\ backend = "started"
  /\ backend' = "head"
  /\ files' = << << >> >>
  /\ new_current' = << >> /\ new_next' = << >> /\ active_buffers' = << >>
  /\ UNCHANGED <<log, running_, owner, fatal, aborted, owed>>

ReadRunning ==
  /\ backend = "head"
  /\ backend' = IF running_ THEN "locking" ELSE "ended"
  /\ UNCHANGED <<log, spares, files, running_, owner, fatal, aborted, owed>>

\* logfile->Write for every buffer, then a new LogFile for a full one.
Write(ms) ==
  LET file == Last(files) \o ms
  IN  files' = Append(Front(files), file)
                 \o (IF Length(file) >= FileMaximumSize THEN << << >> >> ELSE << >>)

\* Mutated: next_ is replaced without a look at it.
TakesSpareAlways == TRUE

\* The front ends' spare is used up: the backend's takes its place.
TakesSpare == next_ = Null

\* The first half of a round: current_ joins buffers_, which the backend takes for
\* its empty list and writes; its spares replace current_ and, if need be, next_.
Swap ==
  LET full == Append(buffers_, current_)
  IN  /\ Write(FlattenSeq(full))
      /\ active_buffers' = full /\ buffers_' = active_buffers
      /\ current_' = new_current /\ new_current' = Null
      /\ next_' = IF TakesSpare THEN new_next ELSE next_
      /\ new_next' = IF TakesSpare THEN Null ELSE new_next
      /\ backend' = "recycling"

\* resize(2), for more than two.
Kept == IF Len(active_buffers) > 2 THEN SubSeq(active_buffers, 1, 2) ELSE active_buffers

\* Mutated: the buffer keeps what was written from it.
BzeroNot(buffer) == buffer

\* Buffer::bzero: cur_ is at the first byte again.
Bzero(buffer) == << >>

\* The second half: the last of the buffers that are kept become the spares that
\* are missing, and the others are deleted.
Recycle ==
  LET rest == IF new_current = Null THEN Front(Kept) ELSE Kept
  IN  /\ backend = "recycling"
      /\ new_current' = IF new_current = Null THEN Bzero(Last(Kept)) ELSE new_current
      /\ new_next' = IF new_next = Null THEN Bzero(Last(rest)) ELSE new_next
      /\ active_buffers' = << >>
      /\ backend' = "head"
      /\ UNCHANGED <<log, files, running_, owner, fatal, aborted, owed>>

WriteFull ==
  /\ backend = "locking"
  /\ buffers_ # << >>
  /\ Swap
  /\ UNCHANGED <<given, dropped, running_, owner, fatal, aborted, owed>>

Wait ==
  /\ backend = "locking"
  /\ buffers_ = << >>
  /\ backend' = "waiting"
  /\ UNCHANGED <<log, spares, files, running_, owner, fatal, aborted, owed>>

\* Mutated: a notified thread looks at running_ before it writes.
RecheckRunning ==
  /\ backend = "notified"
  /\ backend' = IF running_ THEN "waiting" ELSE "head"
  /\ UNCHANGED <<log, spares, files, running_, owner, fatal, aborted, owed>>

\* A notified thread evaluates the predicate, which is always false.
Recheck ==
  /\ backend = "notified"
  /\ backend' = "waiting"
  /\ UNCHANGED <<log, spares, files, running_, owner, fatal, aborted, owed>>

\* Mutated: a timeout is no reason to write when no buffer is full.
TimeoutFullOnly ==
  /\ backend \in {"waiting", "notified"}
  /\ \/ buffers_ # << >> /\ Swap
     \/ buffers_ = << >> /\ backend' = "locking"
                         /\ UNCHANGED <<current_, next_, buffers_, spares, files>>
  /\ UNCHANGED <<given, dropped, running_, owner, fatal, aborted, owed>>

\* BufferWriteTimeout seconds have passed.
Timeout ==
  /\ backend \in {"waiting", "notified"}
  /\ Swap
  /\ UNCHANGED <<given, dropped, running_, owner, fatal, aborted, owed>>

------------------------------------------------------------------------------
Backend == ~aborted /\ (Begin \/ ReadRunning \/ WriteFull \/ Wait \/ Recheck \/ Timeout
                         \/ Recycle)
Owner == ~aborted /\ (Start \/ Started \/ Stop \/ Join)
FrontEnd == ~aborted /\ (Abort \/ \E len \in Lens : Log(len) \/ LogFatal(len))

Next == Backend \/ Owner \/ FrontEnd

\* The threads run, and the clock brings the timeout whatever the notifications.
Fairness ==
  /\ WF_vars(~aborted /\ (Begin \/ ReadRunning \/ WriteFull \/ Wait \/ Recycle))
  /\ WF_vars(~aborted /\ Timeout)
  /\ WF_vars(~aborted /\ (Started \/ Join))

Spec == Init /\ [][Next]_vars /\ Fairness

------------------------------------------------------------------------------
(* Properties. *)

\* The messages, the spares and the threads have their types, and a buffer keeps a
\* byte free (FixedBuffer::append, LogStream.h:146-151).
TypeOK ==
  /\ given \in Seq(Lens) /\ Len(given) <= MaxMessages
  /\ dropped \subseteq DOMAIN given /\ fatal \in 0 .. Len(given)
  /\ \A ms \in ({current_, next_, new_current, new_next} \ {Null})
                 \cup ToSet(buffers_) \cup ToSet(active_buffers) :
        ms \in Seq(DOMAIN given) /\ Length(ms) < BufferSize
  /\ running_ \in BOOLEAN /\ aborted \in BOOLEAN
  /\ backend \in {"none", "started", "head", "locking", "waiting", "notified",
                  "recycling", "ended"}
  /\ owner \in {"new", "starting", "up", "joining", "joined"}
  /\ owed \in Nat

\* The files and the buffers hold, in the order of Append and each once, the
\* messages that were taken: across hand-overs, rounds, buffers that are used again
\* and new files nothing is lost, repeated or overtaken (AsyncLogging.cpp:42-124).
InOrder ==
  LET taken == Written \o Pending IN
  /\ ToSet(taken) = DOMAIN given \ dropped
  /\ \A i, j \in DOMAIN taken : i < j => taken[i] < taken[j]

\* The front ends always find a current buffer, and of the buffers that a round
\* keeps there is one for each spare that it gave away: active_buffers.back() is
\* never that of an empty vector (AsyncLogging.cpp:44, 90-94, 106-120).
SparesSuffice ==
  /\ current_ # Null
  /\ backend = "recycling" =>
       (IF new_current = Null THEN 1 ELSE 0) + (IF new_next = Null THEN 1 ELSE 0)
          <= Len(Kept)

\* Stop waits for the round that the backend has begun: when it returns, what was
\* in the files by then is there, and what was pending too if the backend had read
\* running_ and not yet written.  For a backend that reads running_ afterwards
\* nothing pending is promised, nor written (AsyncLogging.cpp:31-36, 77).
StopWritesWhatItOwes == owner = "joined" => Len(Written) >= owed

\* A message that was taken is written, unless the log is stopped or the program
\* aborts (AsyncLogging.cpp:81-99).
EventuallyWritten ==
  \A i \in 1 .. MaxMessages :
    (i \in DOMAIN given \ dropped /\ owner = "up")
      ~> (i \in ToSet(Written) \/ owner # "up" \/ aborted)

\* Append stores every message, "当前缓存没有空间 ... 向新的缓冲区写入信息": when the
\* current buffer has no space, it writes to a new one (AsyncLogging.cpp:48, 56).
EveryMessageStored == dropped = {}

\* Append and Stop wake the backend, "唤醒后端线程" (AsyncLogging.cpp:33, 59): a
\* notified thread does not go back to sleep.
NotifyWakes == [][backend = "notified" => backend' # "waiting"]_backend

\* "当日志级别为FATAL时，flush设备缓冲区并终止程序" (Logging.cpp:117): when the program
\* aborts, a FATAL message that was taken is in the log's file.
FatalIsWritten == aborted => fatal \in dropped \cup ToSet(Written)
===============================================================================
