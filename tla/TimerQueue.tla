----------------------------- MODULE TimerQueue -----------------------------
(***************************************************************************)
(* The timers of one EventLoop (src/Timer: TimerQueue, Timer, TimeStamp).  *)
(* Everything runs on the loop's thread; the hazards are the order of      *)
(* events, the re-arming of the one-shot timerfd, callbacks that add       *)
(* timers, and two clocks: expirations are wall-clock times, the timerfd   *)
(* counts CLOCK_MONOTONIC.                                                  *)
(*                                                                         *)
(* Times are counted in units of the 100 microseconds that ResetTimerFd     *)
(* rounds up to, and kept relative to TimeStamp::Now(): left[t] is the      *)
(* expiration of t minus Now.  Every expired timer has left = -1: how long  *)
(* ago it expired makes no difference to the code.                         *)
(***************************************************************************)
EXTENDS Integers, FiniteSets, FiniteSetsExt

CONSTANTS
  Timers,      \* the Timer objects
  MaxDelay,    \* the longest delay or interval asked for
  MaxSteps     \* bound: how often the wall clock is set

ASSUME TimerAssumption ==
  /\ MaxDelay \in Nat \ {0}
  /\ MaxSteps \in Nat

VARIABLES
  timers_,         \* the timers in timers_
  active_timers_,  \* active_timers_
  ran,             \* those of active_timers_ whose run() has returned
  left,            \* expiration_ - Now, per timer
  interval_,       \* interval_, 0 for a timer that does not repeat
  repeat_,         \* repeat_
  timerfd,         \* ticks until timerfd_ is readable, 0: readable, Off: disarmed
  polled,          \* Poll has returned the timerfd's channel
  pc,              \* "loop", "run" (in HandleRead) or "callback"
  cur,             \* the timers whose callback is running
  steps            \* how often the wall clock has been set

vars == <<timers_, active_timers_, ran, left, interval_, repeat_, timerfd,
          polled, pc, cur, steps>>

Off == -1

Init ==
  /\ timers_ = {} /\ active_timers_ = {} /\ ran = {} /\ cur = {}
  /\ left = [t \in Timers |-> 0]
  /\ interval_ = [t \in Timers |-> 0]
  /\ repeat_ = [t \in Timers |-> FALSE]
  /\ timerfd = Off
  /\ polled = FALSE
  /\ pc = "loop"
  /\ steps = 0

\* timers_.begin(): the expiration of the earliest timer of S.
Earliest(S, time) == Min({time[t] : t \in S})

\* ResetTimerFd: the delay that is set, at least one unit.
Arm(time) == Max({time, 1})

\* Insert: is the new timer, due in d, to be the next one?
InsertResets(d) == timers_ = {} \/ d < Earliest(timers_, left)

\* RunAt, RunAfter, RunEvery -> AddTimer, by code outside the timer callbacks or
\* by a callback.  RunAt may name a time that has passed.
AddTimer(t) ==
  /\ pc \in {"loop", "callback"}
  /\ t \notin timers_ \cup active_timers_
  /\ \E d \in -1 .. MaxDelay, i \in 0 .. MaxDelay :
        /\ i > 0 => d = i
        /\ left' = [left EXCEPT ![t] = d]
        /\ interval_' = [interval_ EXCEPT ![t] = i]
        /\ repeat_' = [repeat_ EXCEPT ![t] = i > 0]
        /\ timerfd' = IF InsertResets(d) THEN Arm(d) ELSE timerfd
  /\ timers_' = timers_ \cup {t}
  /\ UNCHANGED <<active_timers_, ran, polled, pc, cur, steps>>

\* epoll_wait returns the timerfd.  Other channels of the same poll may be
\* handled before it and add timers.
Poll ==
  /\ pc = "loop"
  /\ ~polled
  /\ timerfd = 0
  /\ polled' = TRUE
  /\ UNCHANGED <<timers_, active_timers_, ran, left, interval_, repeat_, timerfd,
                 pc, cur, steps>>

\* Mutated: the timers that expire just now are erased with the expired ones.
HandleReadErasingMore ==
  /\ pc = "loop"
  /\ polled
  /\ polled' = FALSE
  /\ timerfd' = IF timerfd = 0 THEN Off ELSE timerfd
  /\ active_timers_' = {t \in timers_ : left[t] < 0}
  /\ timers_' = {t \in timers_ : left[t] > 0}
  /\ ran' = {}
  /\ pc' = "run"
  /\ UNCHANGED <<left, interval_, repeat_, cur, steps>>

\* HandleRead up to the loop over active_timers_.  The read disarms an expired
\* timerfd; one that AddTimer has armed again in the meantime is left running
\* (the read fails, which is only logged).  lower_bound takes the timers that
\* expired strictly before Now.
HandleRead ==
  /\ pc = "loop"
  /\ polled
  /\ polled' = FALSE
  /\ timerfd' = IF timerfd = 0 THEN Off ELSE timerfd
  /\ active_timers_' = {t \in timers_ : left[t] < 0}
  /\ timers_' = timers_ \ active_timers_'
  /\ ran' = {}
  /\ pc' = "run"
  /\ UNCHANGED <<left, interval_, repeat_, cur, steps>>

Run(t) ==
  /\ pc = "run"
  /\ t \in active_timers_ \ ran
  /\ cur' = {t}
  /\ pc' = "callback"
  /\ UNCHANGED <<timers_, active_timers_, ran, left, interval_, repeat_, timerfd,
                 polled, steps>>

\* Timer::run: the callback's result and the interval decide about repetition.
Repeats(again, t) == IF ~again \/ interval_[t] = 0 THEN FALSE ELSE repeat_[t]

EndCallback ==
  /\ pc = "callback"
  /\ \E t \in cur, again \in BOOLEAN :
        /\ repeat_' = [repeat_ EXCEPT ![t] = Repeats(again, t)]
        /\ ran' = ran \cup {t}
  /\ cur' = {}
  /\ pc' = "run"
  /\ UNCHANGED <<timers_, active_timers_, left, interval_, timerfd, polled, steps>>

\* Mutated: the timerfd is armed only for the timers that repeat.
ResetTimersRepeating ==
  /\ pc = "run"
  /\ ran = active_timers_
  /\ LET again == {t \in active_timers_ : repeat_[t]} IN
       /\ left' = [t \in Timers |-> IF t \in again THEN interval_[t] ELSE left[t]]
       /\ timers_' = timers_ \cup again
       /\ timerfd' = IF again = {} THEN timerfd ELSE Arm(Earliest(again, left'))
  /\ active_timers_' = {} /\ ran' = {}
  /\ pc' = "loop"
  /\ UNCHANGED <<interval_, repeat_, polled, cur, steps>>

\* ResetTimers: repeating timers start again from Now, and the timerfd is armed
\* for the earliest timer, whatever it was armed for.
ResetTimers ==
  /\ pc = "run"
  /\ ran = active_timers_
  /\ LET again == {t \in active_timers_ : repeat_[t]} IN
       /\ left' = [t \in Timers |-> IF t \in again THEN interval_[t] ELSE left[t]]
       /\ timers_' = timers_ \cup again
  /\ timerfd' = IF timers_' = {} THEN timerfd ELSE Arm(Earliest(timers_', left'))
  /\ active_timers_' = {} /\ ran' = {}
  /\ pc' = "loop"
  /\ UNCHANGED <<interval_, repeat_, polled, cur, steps>>

------------------------------------------------------------------------------
Live == timers_ \cup active_timers_

\* Time passes; both clocks advance.
Tick ==
  /\ left' = [t \in Timers |-> IF t \in Live THEN Max({left[t] - 1, -1}) ELSE left[t]]
  /\ timerfd' = IF timerfd > 0 THEN timerfd - 1 ELSE timerfd
  /\ <<left, timerfd>>' # <<left, timerfd>>
  /\ UNCHANGED <<timers_, active_timers_, ran, interval_, repeat_, polled, pc, cur, steps>>

\* The wall clock is set back or forward; the timerfd does not notice.
SetClock ==
  /\ steps < MaxSteps
  /\ \E k \in {-1, 1} :
        left' = [t \in Timers |-> IF t \in Live THEN Max({left[t] + k, -1}) ELSE left[t]]
  /\ steps' = steps + 1
  /\ UNCHANGED <<timers_, active_timers_, ran, interval_, repeat_, timerfd, polled, pc, cur>>

System ==
  \/ Poll \/ HandleRead \/ (\E t \in Timers : Run(t)) \/ EndCallback \/ ResetTimers

Next == System \/ (\E t \in Timers : AddTimer(t)) \/ Tick \/ SetClock

\* The loop's thread is scheduled and time passes.
Spec == Init /\ [][Next]_vars /\ WF_vars(System) /\ WF_vars(Tick)

------------------------------------------------------------------------------
TypeOK ==
  /\ timers_ \subseteq Timers /\ active_timers_ \subseteq Timers
  /\ ran \subseteq active_timers_ /\ cur \subseteq active_timers_ \ ran
  /\ left \in [Timers -> -1 .. MaxDelay + MaxSteps]
  /\ interval_ \in [Timers -> 0 .. MaxDelay]
  /\ repeat_ \in [Timers -> BOOLEAN]
  /\ timerfd \in {Off} \cup 0 .. MaxDelay + MaxSteps
  /\ polled \in BOOLEAN
  /\ pc \in {"loop", "run", "callback"}
  /\ steps \in 0 .. MaxSteps

\* The timerfd is one-shot and armed by Insert and ResetTimers only: outside
\* HandleRead a waiting timer always has it armed or readable, whatever the wall
\* clock does; and as long as nobody sets the wall clock the timerfd becomes
\* readable no later than any waiting timer expires, give or take the minimal
\* delay (TimerQueue.cpp:39-99).
NoForgottenTimer ==
  pc = "loop" /\ timers_ # {} =>
    /\ timerfd # Off
    /\ steps = 0 => \A t \in timers_ : timerfd <= Arm(left[t])

\* Every timer that is added is run at some time after its expiration, also when
\* the wall clock is set in between.
TimersRun == \A t \in Timers : t \in timers_ ~> t \in cur

------------------------------------------------------------------------------
(* Why NoForgottenTimer holds: the inductive invariant. *)

\* Nothing lies further ahead than the clock's steps can have moved it.
BoundInv ==
  /\ \A t \in Timers : left[t] <= MaxDelay + steps
  /\ timerfd <= MaxDelay + steps

\* Between two calls of HandleRead no timer is being run, and none is ever both
\* waiting and being run.
PhaseInv ==
  /\ pc = "loop" => active_timers_ = {}
  /\ pc # "callback" => cur = {}
  /\ timers_ \cap active_timers_ = {}

IInv == TypeOK /\ BoundInv /\ PhaseInv /\ NoForgottenTimer
===============================================================================
