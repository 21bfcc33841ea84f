----------------------------- MODULE TimerProofs -----------------------------
(***************************************************************************)
(* Proofs about TimerQueue, for any timers, delays and changes of the clock, *)
(* and about its user with the most timers, RtspSession with H264Rtp, for    *)
(* any files, streams and sizes.                                           *)
(***************************************************************************)
EXTENDS TimerQueue, RtspSession, FiniteSetTheorems, SequenceTheorems, WellFoundedInduction, TLAPS

\* A set of natural numbers has a smallest one.
LEMMA SmallestExists ==
  ASSUME NEW X \in SUBSET Nat, X # {}
  PROVE  \E x \in X : \A y \in X : x <= y
<1>1. PICK x \in X : \A y \in X : <<y, x>> \notin OpToRel(<, Nat)
  BY NatLessThanWellFounded, WFMin, Zenon
<1>2. \A y \in X : ~(y < x)
  BY <1>1, Zenon DEF OpToRel
<1>3. QED
  BY <1>2

\* timers_.begin() is one of the timers, and no other is due before it.
LEMMA EarliestIsFirst ==
  ASSUME NEW S \in SUBSET Timers, S # {}, NEW time,
         \A t \in S : time[t] \in Int /\ time[t] >= -1
  PROVE  /\ \E t \in S : Earliest(S, time) = time[t]
         /\ \A t \in S : Earliest(S, time) <= time[t]
<1> DEFINE T == {time[t] : t \in S}
           X == {time[t] + 1 : t \in S}
<1>1. X \in SUBSET Nat /\ X # {}
  OBVIOUS
<1>2. PICK x \in X : \A y \in X : x <= y
  BY <1>1, SmallestExists
<1>3. PICK first \in S : x = time[first] + 1
  OBVIOUS
<1>4. \A t \in S : time[t] + 1 \in X
  OBVIOUS
<1>5. ASSUME NEW t \in S
      PROVE  time[first] <= time[t]
  <2>1. time[first] + 1 <= time[t] + 1
    BY <1>2, <1>3, <1>4
  <2>2. QED
    BY <2>1
<1>6. time[first] \in T /\ \A y \in T : time[first] <= y
  BY <1>5
<1>7. Earliest(S, time) \in T /\ \A y \in T : Earliest(S, time) <= y
  BY <1>6, Zenon DEF Earliest, Min
<1>8. QED
  BY <1>7

\* The greater of two.
LEMMA MaxOfTwo ==
  ASSUME NEW a \in Int, NEW b \in Int
  PROVE  Max({a, b}) = IF a >= b THEN a ELSE b
<1> DEFINE m == IF a >= b THEN a ELSE b
<1>1. m \in {a, b} /\ \A y \in {a, b} : m >= y
  OBVIOUS
<1>2. Max({a, b}) \in {a, b} /\ \A y \in {a, b} : Max({a, b}) >= y
  BY <1>1, Zenon DEF Max
<1>3. QED
  BY <1>2

\* The delay that the timerfd is armed with.
LEMMA ArmIs ==
  ASSUME NEW d \in Int
  PROVE  /\ Arm(d) \in Int /\ Arm(d) >= 1 /\ Arm(d) >= d
         /\ Arm(d) = d \/ Arm(d) = 1
BY MaxOfTwo DEF Arm

\* A timer that is due later is not armed for earlier.
LEMMA ArmIsMonotonic ==
  ASSUME NEW c \in Int, NEW d \in Int, c <= d
  PROVE  Arm(c) <= Arm(d)
BY MaxOfTwo DEF Arm

\* A new queue.
LEMMA InitInv == Init => IInv
<1> SUFFICES ASSUME Init PROVE IInv
  OBVIOUS
<1>1. TypeOK
  <2>1. left \in [Timers -> {0}] /\ interval_ \in [Timers -> {0}]
    BY DEF Init
  <2>2. 0 \in -1 .. MaxDelay + MaxSteps /\ 0 \in 0 .. MaxDelay /\ 0 \in 0 .. MaxSteps
    BY TimerAssumption
  <2>3. QED
    BY <2>1, <2>2 DEF Init, TypeOK
<1>2. BoundInv
  BY TimerAssumption DEF Init, BoundInv, Off
<1>3. PhaseInv /\ NoForgottenTimer
  BY DEF Init, PhaseInv, NoForgottenTimer
<1>4. QED
  BY <1>1, <1>2, <1>3 DEF IInv

\* What the steps use of the types.
LEMMA Types ==
  ASSUME TypeOK
  PROVE  /\ \A t \in Timers : left[t] \in Int /\ left[t] >= -1
         /\ \A t \in Timers : interval_[t] \in 0 .. MaxDelay
         /\ timerfd \in Int /\ timerfd >= -1 /\ steps \in Nat
         /\ MaxDelay \in Nat /\ MaxDelay >= 1 /\ MaxSteps \in Nat
BY TimerAssumption DEF TypeOK, Off

------------------------------------------------------------------------------
(* The steps. *)

\* Insert arms the timerfd exactly when the new timer is the first.
LEMMA AddTimerInv ==
  ASSUME IInv, NEW t \in Timers, AddTimer(t)
  PROVE  IInv'
<1>1. TypeOK /\ BoundInv /\ PhaseInv /\ NoForgottenTimer
  BY DEF IInv
<1>2. PICK d \in -1 .. MaxDelay, i \in 0 .. MaxDelay :
        /\ left' = [left EXCEPT ![t] = d]
        /\ interval_' = [interval_ EXCEPT ![t] = i]
        /\ repeat_' = [repeat_ EXCEPT ![t] = i > 0]
        /\ timerfd' = IF InsertResets(d) THEN Arm(d) ELSE timerfd
  BY DEF AddTimer
<1>3. /\ UNCHANGED <<active_timers_, ran, polled, pc, cur, steps>>
      /\ timers_' = timers_ \cup {t}
      /\ t \notin timers_ \cup active_timers_
      /\ pc \in {"loop", "callback"}
  BY DEF AddTimer
<1>4. d \in Int /\ d >= -1 /\ d <= MaxDelay /\ steps \in Nat /\ MaxDelay \in Nat /\ MaxDelay >= 1
      /\ MaxSteps \in Nat /\ steps <= MaxSteps
  BY <1>1, TimerAssumption DEF TypeOK
<1>5. Arm(d) \in Int /\ Arm(d) >= 1 /\ Arm(d) <= MaxDelay
  BY <1>4, ArmIs
<1>6. left'[t] = d /\ \A u \in Timers \ {t} : left'[u] = left[u]
  BY <1>1, <1>2 DEF TypeOK
<1>7. TypeOK'
  <2>1. left' \in [Timers -> -1 .. MaxDelay + MaxSteps]
    BY <1>1, <1>2, <1>4 DEF TypeOK
  <2>2. timerfd' \in {Off} \cup 0 .. MaxDelay + MaxSteps
    BY <1>1, <1>2, <1>4, <1>5 DEF TypeOK
  <2>3. interval_' \in [Timers -> 0 .. MaxDelay] /\ repeat_' \in [Timers -> BOOLEAN]
    BY <1>1, <1>2 DEF TypeOK
  <2>4. QED
    BY <1>1, <1>3, <2>1, <2>2, <2>3 DEF TypeOK
<1>8. BoundInv'
  <2>1. \A u \in Timers : left'[u] <= MaxDelay + steps
    BY <1>1, <1>4, <1>6 DEF BoundInv
  <2>2. timerfd' <= MaxDelay + steps
    BY <1>1, <1>2, <1>4, <1>5 DEF BoundInv
  <2>3. QED
    BY <1>3, <2>1, <2>2 DEF BoundInv
<1>9. PhaseInv'
  BY <1>1, <1>3 DEF PhaseInv
<1>10. NoForgottenTimer'
  <2>1. SUFFICES ASSUME pc = "loop"
                 PROVE  /\ timerfd' # Off
                        /\ steps = 0 => \A u \in timers_ \cup {t} : timerfd' <= Arm(left'[u])
    BY <1>3 DEF NoForgottenTimer
  <2>2. CASE timers_ = {}
    <3>1. timerfd' = Arm(d)
      BY <1>2, <2>2 DEF InsertResets
    <3>2. QED
      BY <1>5, <1>6, <2>2, <3>1 DEF Off
  <2>3. CASE timers_ # {}
    <3>1. /\ \E u \in timers_ : Earliest(timers_, left) = left[u]
          /\ \A u \in timers_ : Earliest(timers_, left) <= left[u]
      BY <1>1, <2>3, Types, EarliestIsFirst DEF TypeOK
    <3>2. \A u \in timers_ : u \in Timers /\ u # t /\ left[u] \in Int /\ left'[u] = left[u]
      BY <1>1, <1>3, <1>6, Types DEF TypeOK
    <3>3. CASE d < Earliest(timers_, left)
      <4>1. timerfd' = Arm(d)
        BY <1>2, <3>3 DEF InsertResets
      <4>2. \A u \in timers_ : d <= left[u]
        BY <1>4, <3>1, <3>2, <3>3
      <4>3. \A u \in timers_ : Arm(d) <= Arm(left[u])
        BY <1>4, <3>2, <4>2, ArmIsMonotonic
      <4>4. QED
        BY <1>5, <1>6, <3>2, <4>1, <4>3 DEF Off
    <3>4. CASE ~(d < Earliest(timers_, left))
      <4>1. timerfd' = timerfd
        BY <1>2, <2>3, <3>4 DEF InsertResets
      <4>2. timerfd # Off /\ (steps = 0 => \A u \in timers_ : timerfd <= Arm(left[u]))
        BY <1>1, <2>1, <2>3 DEF NoForgottenTimer
      <4>3. PICK first \in timers_ : left[first] <= d
        BY <1>4, <3>1, <3>2, <3>4
      <4>4. Arm(left[first]) \in Int /\ Arm(left[first]) <= Arm(d)
        BY <1>4, <3>2, <4>3, ArmIs, ArmIsMonotonic
      <4>5. steps = 0 => timerfd <= Arm(d)
        <5>1. timerfd \in Int
          BY <1>1, Types
        <5>2. QED
          BY <1>5, <4>2, <4>3, <4>4, <5>1
      <4>6. QED
        BY <1>6, <3>2, <4>1, <4>2, <4>5
    <3>5. QED
      BY <3>3, <3>4
  <2>4. QED
    BY <2>2, <2>3
<1>11. QED
  BY <1>7, <1>8, <1>9, <1>10 DEF IInv

\* HandleRead: only here is the timerfd disarmed.
LEMMA HandleReadInv ==
  ASSUME IInv, HandleRead
  PROVE  IInv'
<1>1. TypeOK /\ BoundInv /\ PhaseInv
  BY DEF IInv
<1>2. timers_' \subseteq Timers /\ active_timers_' \subseteq Timers
      /\ timers_' \cap active_timers_' = {}
  BY <1>1 DEF HandleRead, TypeOK
<1>3. cur' = {} /\ ran' = {} /\ pc' = "run"
  BY <1>1 DEF HandleRead, PhaseInv
<1>4. timerfd' \in {Off, timerfd}
  BY DEF HandleRead
<1>5. TypeOK'
  BY <1>1, <1>2, <1>3, <1>4 DEF TypeOK, HandleRead
<1>6. BoundInv'
  <2>1. Off <= MaxDelay + steps
    BY <1>1, Types DEF Off
  <2>2. QED
    BY <1>1, <1>4, <2>1 DEF BoundInv, HandleRead
<1>7. PhaseInv' /\ NoForgottenTimer'
  BY <1>2, <1>3 DEF PhaseInv, NoForgottenTimer
<1>8. QED
  BY <1>5, <1>6, <1>7 DEF IInv

\* The callbacks.
LEMMA CallbackInv ==
  ASSUME IInv, Poll \/ (\E t \in Timers : Run(t)) \/ EndCallback
  PROVE  IInv'
<1>1. TypeOK /\ BoundInv /\ PhaseInv /\ NoForgottenTimer
  BY DEF IInv
<1>2. UNCHANGED <<timers_, active_timers_, left, interval_, timerfd, steps>>
  BY DEF Poll, Run, EndCallback
<1>3. CASE Poll
  BY <1>1, <1>2, <1>3 DEF Poll, IInv, TypeOK, BoundInv, PhaseInv, NoForgottenTimer
<1>4. ASSUME NEW t \in Timers, Run(t)
      PROVE  IInv'
  <2>1. /\ cur' = {t} /\ t \in active_timers_ \ ran /\ pc' = "callback"
        /\ UNCHANGED <<ran, repeat_, polled>>
    BY <1>4 DEF Run
  <2>2. QED
    BY <1>1, <1>2, <1>4, <2>1 DEF Run, IInv, TypeOK, BoundInv, PhaseInv, NoForgottenTimer
<1>5. CASE EndCallback
  <2>1. PICK t \in cur, again \in BOOLEAN :
          /\ repeat_' = [repeat_ EXCEPT ![t] = Repeats(again, t)]
          /\ ran' = ran \cup {t}
    BY <1>5 DEF EndCallback
  <2>2. t \in Timers /\ t \in active_timers_
    BY <1>1 DEF TypeOK
  <2>3. Repeats(again, t) \in BOOLEAN
    BY <1>1, <2>2 DEF Repeats, TypeOK
  <2>4. repeat_' \in [Timers -> BOOLEAN]
    BY <1>1, <2>1, <2>3 DEF TypeOK
  <2>5. cur' = {} /\ pc' = "run" /\ polled' = polled
    BY <1>5 DEF EndCallback
  <2>6. QED
    BY <1>1, <1>2, <2>1, <2>2, <2>4, <2>5
       DEF IInv, TypeOK, BoundInv, PhaseInv, NoForgottenTimer
<1>6. QED
  BY <1>3, <1>4, <1>5

\* ResetTimers arms the timerfd for the earliest timer, whatever it was armed for.
LEMMA ResetTimersInv ==
  ASSUME IInv, ResetTimers
  PROVE  IInv'
<1>1. TypeOK /\ BoundInv /\ PhaseInv
  BY DEF IInv
<1>2. PICK again \in SUBSET active_timers_ :
        /\ left' = [t \in Timers |-> IF t \in again THEN interval_[t] ELSE left[t]]
        /\ timers_' = timers_ \cup again
  BY DEF ResetTimers
<1>3. /\ timerfd' = IF timers_' = {} THEN timerfd ELSE Arm(Earliest(timers_', left'))
      /\ active_timers_' = {} /\ ran' = {} /\ pc' = "loop" /\ pc = "run"
      /\ UNCHANGED <<interval_, repeat_, polled, cur, steps>>
  BY DEF ResetTimers
<1>4. /\ steps \in Nat /\ steps <= MaxSteps /\ MaxDelay \in Nat /\ MaxDelay >= 1 /\ MaxSteps \in Nat
      /\ timerfd \in Int
  BY <1>1, Types DEF TypeOK
<1>5. ASSUME NEW t \in Timers
      PROVE  left'[t] \in Int /\ left'[t] >= -1 /\ left'[t] <= MaxDelay + steps
  <2>1. left'[t] = IF t \in again THEN interval_[t] ELSE left[t]
    BY <1>2
  <2>2. interval_[t] \in 0 .. MaxDelay /\ left[t] \in Int /\ left[t] >= -1
    BY <1>1, Types
  <2>3. left[t] <= MaxDelay + steps
    BY <1>1 DEF BoundInv
  <2>4. QED
    BY <1>4, <2>1, <2>2, <2>3
<1>6. timers_' \in SUBSET Timers
  BY <1>1, <1>2 DEF TypeOK
<1>7. ASSUME timers_' # {}
      PROVE  /\ timerfd' \in Int /\ timerfd' >= 1 /\ timerfd' <= MaxDelay + steps
             /\ \A t \in timers_' : timerfd' <= Arm(left'[t])
  <2>1. \A t \in timers_' : left'[t] \in Int /\ left'[t] >= -1 /\ left'[t] <= MaxDelay + steps
    BY <1>5, <1>6
  <2>2. PICK due : due = left'
    OBVIOUS
  <2>3. PICK S \in SUBSET Timers : S = timers_' /\ S # {}
    BY <1>6, <1>7
  <2>4. \A t \in S : due[t] \in Int /\ due[t] >= -1 /\ due[t] <= MaxDelay + steps
    BY <2>1, <2>2, <2>3
  <2>5. PICK e : e = Earliest(S, due)
    OBVIOUS
  <2>6. (\E t \in S : e = due[t]) /\ \A t \in S : e <= due[t]
    BY <2>3, <2>4, <2>5, EarliestIsFirst
  <2>7. e \in Int /\ e <= MaxDelay + steps
    BY <2>4, <2>6
  <2>8. timerfd' = Arm(e)
    BY <1>3, <1>7, <2>2, <2>3, <2>5
  <2>9. \A t \in S : Arm(e) <= Arm(due[t])
    BY <2>4, <2>6, <2>7, ArmIsMonotonic
  <2>10. Arm(e) \in Int /\ Arm(e) >= 1 /\ Arm(e) <= MaxDelay + steps
    BY <1>4, <2>7, ArmIs
  <2>11. QED
    BY <2>2, <2>3, <2>8, <2>9, <2>10
<1>8. timerfd' \in {Off} \cup 0 .. MaxDelay + MaxSteps /\ timerfd' <= MaxDelay + steps
  <2>1. CASE timers_' = {}
    BY <1>1, <1>3, <2>1 DEF TypeOK, BoundInv
  <2>2. CASE timers_' # {}
    BY <1>4, <1>7, <2>2
  <2>3. QED
    BY <2>1, <2>2
<1>9. TypeOK'
  <2>1. left' \in [Timers -> -1 .. MaxDelay + MaxSteps]
    <3>1. \A t \in Timers : left'[t] \in -1 .. MaxDelay + MaxSteps
      BY <1>4, <1>5
    <3>2. QED
      BY <1>2, <3>1
  <2>2. cur' = {}
    BY <1>1, <1>3 DEF PhaseInv
  <2>3. QED
    BY <1>1, <1>3, <1>6, <1>8, <2>1, <2>2 DEF TypeOK
<1>10. BoundInv'
  BY <1>3, <1>5, <1>8 DEF BoundInv
<1>11. PhaseInv'
  BY <1>1, <1>3 DEF PhaseInv
<1>12. NoForgottenTimer'
  <2>1. timers_' # {} => timerfd' # Off
    BY <1>7 DEF Off
  <2>2. QED
    BY <1>7, <2>1 DEF NoForgottenTimer
<1>13. QED
  BY <1>9, <1>10, <1>11, <1>12 DEF IInv

\* Both clocks advance: the timerfd stays as near as it was.
LEMMA TickInv ==
  ASSUME IInv, Tick
  PROVE  IInv'
<1>1. TypeOK /\ BoundInv /\ PhaseInv /\ NoForgottenTimer
  BY DEF IInv
<1>2. /\ left' = [t \in Timers |-> IF t \in Live THEN Max({left[t] - 1, -1}) ELSE left[t]]
      /\ timerfd' = IF timerfd > 0 THEN timerfd - 1 ELSE timerfd
      /\ UNCHANGED <<timers_, active_timers_, ran, interval_, repeat_, polled, pc, cur, steps>>
  BY DEF Tick
<1>3. /\ steps \in Nat /\ MaxDelay \in Nat /\ MaxDelay >= 1 /\ MaxSteps \in Nat
      /\ timerfd \in Int /\ timerfd >= -1
  BY <1>1, Types
<1>4. ASSUME NEW t \in Timers
      PROVE  /\ left[t] \in Int /\ left'[t] \in Int
             /\ left'[t] >= -1 /\ left'[t] <= left[t] /\ left'[t] >= left[t] - 1
  <2>1. left[t] \in Int /\ left[t] >= -1
    BY <1>1, Types
  <2>2. Max({left[t] - 1, -1}) = IF left[t] - 1 >= -1 THEN left[t] - 1 ELSE -1
    BY <2>1, MaxOfTwo
  <2>3. left'[t] = IF t \in Live THEN Max({left[t] - 1, -1}) ELSE left[t]
    BY <1>2
  <2>4. QED
    BY <2>1, <2>2, <2>3
<1>5. timerfd' \in Int /\ timerfd' <= timerfd /\ (timerfd # Off => timerfd' # Off /\ timerfd' >= 0)
  BY <1>2, <1>3 DEF Off
<1>6. TypeOK'
  <2>1. \A t \in Timers : left'[t] \in -1 .. MaxDelay + MaxSteps
    BY <1>1, <1>3, <1>4 DEF TypeOK
  <2>2. left' \in [Timers -> -1 .. MaxDelay + MaxSteps]
    BY <1>2, <2>1
  <2>3. timerfd' \in {Off} \cup 0 .. MaxDelay + MaxSteps
    BY <1>1, <1>2, <1>3 DEF TypeOK, Off
  <2>4. QED
    BY <1>1, <1>2, <2>2, <2>3 DEF TypeOK
<1>7. BoundInv'
  <2>1. ASSUME NEW t \in Timers
        PROVE  left'[t] <= MaxDelay + steps
    BY <1>1, <1>3, <1>4 DEF BoundInv
  <2>2. timerfd' <= MaxDelay + steps
    BY <1>1, <1>3, <1>5 DEF BoundInv
  <2>3. QED
    BY <1>2, <2>1, <2>2 DEF BoundInv
<1>8. PhaseInv'
  BY <1>1, <1>2 DEF PhaseInv
<1>9. NoForgottenTimer'
  <2>1. SUFFICES ASSUME pc = "loop", timers_ # {}
                 PROVE  timerfd' # Off /\ (steps = 0 => \A t \in timers_ : timerfd' <= Arm(left'[t]))
    BY <1>2 DEF NoForgottenTimer
  <2>2. timerfd # Off /\ (steps = 0 => \A t \in timers_ : timerfd <= Arm(left[t]))
    BY <1>1, <2>1 DEF NoForgottenTimer
  <2>3. ASSUME NEW t \in timers_, timerfd <= Arm(left[t])
        PROVE  timerfd' <= Arm(left'[t])
    <3>1. t \in Timers
      BY <1>1 DEF TypeOK
    <3>2. left[t] \in Int /\ left'[t] \in Int /\ left'[t] >= left[t] - 1
      BY <1>4, <3>1
    <3>3. Arm(left[t]) \in Int /\ (Arm(left[t]) = left[t] \/ Arm(left[t]) = 1)
          /\ Arm(left'[t]) \in Int /\ Arm(left'[t]) >= 1 /\ Arm(left'[t]) >= left'[t]
      BY <3>2, ArmIs
    <3>4. QED
      BY <1>2, <1>3, <2>3, <3>2, <3>3
  <2>4. QED
    BY <1>5, <2>2, <2>3
<1>10. QED
  BY <1>6, <1>7, <1>8, <1>9 DEF IInv

\* The wall clock is set: the timerfd stays armed.
LEMMA SetClockInv ==
  ASSUME IInv, SetClock
  PROVE  IInv'
<1>1. TypeOK /\ BoundInv /\ PhaseInv /\ NoForgottenTimer
  BY DEF IInv
<1>2. PICK k \in {-1, 1} :
        left' = [t \in Timers |-> IF t \in Live THEN Max({left[t] + k, -1}) ELSE left[t]]
  BY DEF SetClock
<1>3. /\ steps' = steps + 1 /\ steps < MaxSteps
      /\ UNCHANGED <<timers_, active_timers_, ran, interval_, repeat_, timerfd, polled, pc, cur>>
  BY DEF SetClock
<1>4. /\ steps \in Nat /\ MaxDelay \in Nat /\ MaxSteps \in Nat
      /\ timerfd \in Int /\ timerfd <= MaxDelay + steps
  BY <1>1, Types DEF BoundInv
<1>5. ASSUME NEW t \in Timers
      PROVE  left'[t] \in Int /\ left'[t] >= -1 /\ left'[t] <= MaxDelay + steps + 1
  <2>1. left[t] \in Int /\ left[t] >= -1 /\ left[t] <= MaxDelay + steps
    BY <1>1, Types DEF BoundInv
  <2>2. Max({left[t] + k, -1}) = IF left[t] + k >= -1 THEN left[t] + k ELSE -1
    BY <2>1, MaxOfTwo
  <2>3. left'[t] = IF t \in Live THEN Max({left[t] + k, -1}) ELSE left[t]
    BY <1>2
  <2>4. QED
    BY <1>4, <2>1, <2>2, <2>3
<1>6. TypeOK'
  <2>1. \A t \in Timers : left'[t] \in -1 .. MaxDelay + MaxSteps
    BY <1>3, <1>4, <1>5
  <2>2. left' \in [Timers -> -1 .. MaxDelay + MaxSteps]
    BY <1>2, <2>1
  <2>3. steps' \in 0 .. MaxSteps
    BY <1>3, <1>4
  <2>4. QED
    BY <1>1, <1>3, <2>2, <2>3 DEF TypeOK
<1>7. BoundInv'
  BY <1>3, <1>4, <1>5 DEF BoundInv
<1>8. PhaseInv'
  BY <1>1, <1>3 DEF PhaseInv
<1>9. NoForgottenTimer'
  <2>1. steps' # 0
    BY <1>3, <1>4
  <2>2. QED
    BY <1>1, <1>3, <2>1 DEF NoForgottenTimer
<1>10. QED
  BY <1>6, <1>7, <1>8, <1>9 DEF IInv

------------------------------------------------------------------------------
(* The results. *)

LEMMA NextInv ==
  ASSUME IInv, [Next]_vars
  PROVE  IInv'
<1>1. CASE UNCHANGED vars
  BY <1>1 DEF vars, IInv, TypeOK, BoundInv, PhaseInv, NoForgottenTimer
<1>2. CASE System
  BY <1>2, HandleReadInv, CallbackInv, ResetTimersInv DEF System
<1>3. QED
  BY <1>1, <1>2, AddTimerInv, TickInv, SetClockInv DEF Next

\* The variables have their types.
THEOREM TypeCorrect == Spec => []TypeOK
<1>1. IInv => TypeOK
  BY DEF IInv
<1>2. QED
  BY InitInv, NextInv, <1>1, PTL DEF Spec

\* A waiting timer always has the one-shot timerfd armed or readable, early enough
\* unless the wall clock was set, for any number of timers and any delays.
THEOREM NoTimerIsForgotten == Spec => []NoForgottenTimer
<1>1. IInv => NoForgottenTimer
  BY DEF IInv
<1>2. QED
  BY InitInv, NextInv, <1>1, PTL DEF Spec

------------------------------------------------------------------------------
(* The types of an RTSP session. *)

SetOf(type) == {n \in Nalus : n.nal_unit_type = type}
Held == [nalu : {n \in Nalus : sendable(n)}, stamp : Nat]

Encoders ==
  [sps       : SetOf("SPS") \cup {NoNalu},
   pps       : SetOf("PPS") \cup {NoNalu},
   last_nalu : Held \cup {NoNalu},
   seq       : 0 .. SeqNumbers - 1]

MediaStreams ==
  [data        : Nat \ {0},
   encoder     : Encoders,
   send_cb     : BOOLEAN,
   time_stamp  : Nat,
   create_time : Nat]

PlayTimers == [id : 1 .. MaxPlays, stream : Nat \ {0}, due : Nat, ran : BOOLEAN, began : Nat]

\* Every timer plays one of the streams, which has its callback; timers are told
\* apart by their number.
TimersInv ==
  /\ timers \subseteq PlayTimers /\ IsFiniteSet(timers)
  /\ \A t, u \in timers : t.id = u.id => t = u
  /\ \A t \in timers : t.stream <= stream /\ streams[t.stream].send_cb /\ file # << >>

\* What is read is the newest stream, for one of its timers, since a time that has been.
ReadingInv ==
  reading # NotReading =>
    \E t \in timers, at \in Nat :
      /\ t.stream = stream /\ at <= now
      /\ reading = [timer |-> t.id, stream |-> t.stream, at |-> at]

SessionTypes ==
  /\ file \in Files
  /\ state \in {"Connected", "Disconected", "gone"}
  /\ now \in Nat
  /\ streams \in Seq(MediaStreams) /\ stream = Len(streams)
  /\ \A i \in 1 .. stream : /\ file # << >> => streams[i].data <= Len(file)
                            /\ streams[i].create_time <= now
  /\ TimersInv
  /\ ReadingInv

\* The bounds of Paced.
SessionInv == SessionTypes /\ Paced
------------------------------------------------------------------------------
(* The packets of a unit. *)

Packets ==
  [nalu : Nalus, from : Nat, to : Nat, start : BOOLEAN, end : BOOLEAN,
   mark : BOOLEAN, stamp : Nat, seq : Nat]

\* P carries the first len bytes of n, each byte once and in order.
Carries(P, n, len) ==
  /\ P \in Seq(Packets) /\ P # << >>
  /\ \A k \in 1 .. Len(P) : /\ P[k].nalu = n
                            /\ P[k].start <=> k = 1
                            /\ P[k].end <=> k = Len(P)
  /\ \A k \in 1 .. Len(P) - 1 : P[k + 1].from = P[k].to
  /\ P[Len(P)].to = len

\* The numbers of P follow each other from seq on; P has one time stamp, and the
\* marker on its last packet or nowhere.
Framed(P, seq, stamp, mark) ==
  \A k \in 1 .. Len(P) : /\ P[k].seq = (seq + k - 1) % SeqNumbers
                         /\ P[k].stamp = stamp
                         /\ P[k].mark <=> mark /\ k = Len(P)

LEMMA SequenceNumbers ==
  ASSUME NEW a \in Nat
  PROVE  a % SeqNumbers \in 0 .. SeqNumbers - 1
  BY RtpAssumption

\* A packet of its own.
LEMMA WholeUnit ==
  ASSUME NEW n \in Nalus, NEW len \in Nat, NEW stamp \in Nat, NEW mark \in BOOLEAN, NEW seq \in Nat
  PROVE  LET P == packRtpStapA(n, len, stamp, mark, seq)
         IN  Carries(P, n, len) /\ Framed(P, seq, stamp, mark) /\ Len(P) = 1
<1>1. seq % SeqNumbers \in Nat
  BY SequenceNumbers
<1>2. PICK p : p = makeRtp(n, 0, len, TRUE, TRUE, mark, stamp, seq)
  OBVIOUS
<1>3. /\ p.nalu = n /\ p.from = 0 /\ p.to = len /\ p.start = TRUE /\ p.end = TRUE
      /\ p.mark = mark /\ p.stamp = stamp /\ p.seq = seq % SeqNumbers
      /\ p \in Packets
  BY <1>1, <1>2 DEF makeRtp, Packets
<1>4. PICK P : P = << p >>
  OBVIOUS
<1>5. P \in Seq(Packets) /\ Len(P) = 1 /\ P[1] = p /\ P # << >>
  BY <1>3, <1>4
<1>6. Carries(P, n, len) /\ Framed(P, seq, stamp, mark)
  BY <1>3, <1>5 DEF Carries, Framed
<1>7. QED
  BY <1>2, <1>4, <1>5, <1>6 DEF packRtpStapA

\* A unit in fragments.
LEMMA Fragments ==
  ASSUME NEW n \in Nalus, NEW len \in Nat, len > FragmentSize, NEW stamp \in Nat,
         NEW mark \in BOOLEAN, NEW seq \in Nat
  PROVE  LET P == packRtpFu(n, len, stamp, mark, seq)
         IN  Carries(P, n, len) /\ Framed(P, seq, stamp, mark)
<1> DEFINE offset(k) == 1 + (k - 1) * FragmentSize
           Ends == {k \in 2 .. len : len <= offset(k) + FragmentSize}
           last == Min(Ends)
           packet(k) == makeRtp(n, offset(k), IF k = last THEN len ELSE offset(k + 1),
                                k = 1, k = last, mark /\ k = last, stamp, seq + k - 1)
           P == [k \in 1 .. last |-> packet(k)]
<1>1. FragmentSize \in Nat /\ FragmentSize >= 2
  BY RtpAssumption
<1>2. last \in Nat /\ last >= 2
  <2>1. len \in Ends
    BY <1>1
  <2>2. Ends \in SUBSET Nat /\ Ends # {}
    BY <2>1
  <2>3. \E x \in Ends : \A y \in Ends : x <= y
    BY <2>2, SmallestExists
  <2>4. last \in Ends
    BY <2>3, Zenon DEF Min
  <2>5. QED
    BY <2>4
<1>3. \A k \in 1 .. last : offset(k) \in Nat /\ offset(k + 1) \in Nat
  BY <1>1, <1>2
<1> HIDE DEF offset, last
<1>4. \A k \in 1 .. last : seq + k - 1 \in Nat /\ (seq + k - 1) % SeqNumbers \in Nat
  BY <1>2, SequenceNumbers
<1>5. \A k \in 1 .. last :
        /\ packet(k).nalu = n /\ packet(k).from = offset(k)
        /\ packet(k).to = IF k = last THEN len ELSE offset(k + 1)
        /\ packet(k).start = (k = 1) /\ packet(k).end = (k = last)
        /\ packet(k).mark = (mark /\ k = last)
        /\ packet(k).stamp = stamp /\ packet(k).seq = (seq + k - 1) % SeqNumbers
  BY DEF makeRtp
<1>6. \A k \in 1 .. last : packet(k) \in Packets
  <2>1. SUFFICES ASSUME NEW k \in 1 .. last
                 PROVE  packet(k) \in Packets
    OBVIOUS
  <2>2. PICK to, mk, st, en :
          to = (IF k = last THEN len ELSE offset(k + 1)) /\ mk = (mark /\ k = last) /\ st = (k = 1) /\ en = (k = last)
    OBVIOUS
  <2>3. to \in Nat /\ mk \in BOOLEAN /\ st \in BOOLEAN /\ en \in BOOLEAN
    BY <1>3, <2>2
  <2>4. packet(k) = [nalu |-> n, from |-> offset(k), to |-> to, start |-> st, end |-> en,
                     mark |-> mk, stamp |-> stamp, seq |-> (seq + k - 1) % SeqNumbers]
    BY <2>2 DEF makeRtp
  <2>5. QED
    BY <1>3, <1>4, <2>3, <2>4 DEF Packets
<1> HIDE DEF packet
<1>7. P \in Seq(Packets) /\ Len(P) = last /\ P # << >> /\ \A k \in 1 .. last : P[k] = packet(k)
  <2>1. P \in Seq(Packets)
    BY <1>2, <1>6, IsASeq
  <2>2. Len(P) = last
    BY <1>2, <2>1, LenProperties
  <2>3. QED
    BY <1>2, <2>1, <2>2
<1> HIDE DEF P
<1>8. \A k \in 1 .. Len(P) :
        /\ P[k].nalu = n /\ P[k].from = offset(k)
        /\ P[k].to = IF k = last THEN len ELSE offset(k + 1)
        /\ P[k].start <=> k = 1
        /\ P[k].end <=> k = last
        /\ P[k].mark <=> mark /\ k = last
        /\ P[k].stamp = stamp /\ P[k].seq = (seq + k - 1) % SeqNumbers
  <2>1. SUFFICES ASSUME NEW k \in 1 .. Len(P)
                 PROVE  /\ P[k].nalu = n /\ P[k].from = offset(k)
                        /\ P[k].to = IF k = last THEN len ELSE offset(k + 1)
                        /\ P[k].start <=> k = 1
                        /\ P[k].end <=> k = last
                        /\ P[k].mark <=> mark /\ k = last
                        /\ P[k].stamp = stamp /\ P[k].seq = (seq + k - 1) % SeqNumbers
    OBVIOUS
  <2>2. P[k] = packet(k) /\ k \in 1 .. last
    BY <1>7
  <2>3. /\ P[k].nalu = n /\ P[k].from = offset(k)
        /\ P[k].to = IF k = last THEN len ELSE offset(k + 1)
        /\ P[k].start = (k = 1) /\ P[k].end = (k = last)
        /\ P[k].mark = (mark /\ k = last)
        /\ P[k].stamp = stamp /\ P[k].seq = (seq + k - 1) % SeqNumbers
    BY <1>5, <2>2
  <2>4. QED
    BY <2>3, Zenon
<1>9. Framed(P, seq, stamp, mark) /\ Carries(P, n, len)
  <2>1. Framed(P, seq, stamp, mark)
    BY <1>7, <1>8, Zenon DEF Framed
  <2>2. \A k \in 1 .. Len(P) - 1 : P[k + 1].from = P[k].to
    BY <1>2, <1>7, <1>8
  <2>3. P[Len(P)].to = len
    BY <1>2, <1>7, <1>8
  <2>4. QED
    BY <1>7, <1>8, <2>1, <2>2, <2>3, Zenon DEF Carries
<1>10. P = packRtpFu(n, len, stamp, mark, seq)
  BY DEF P, packet, last, offset, packRtpFu
<1>11. QED
  BY <1>9, <1>10

LEMMA UnitIsPacked ==
  ASSUME NEW n \in Nalus, NEW len \in Nat \ {0, FragmentSize}, NEW stamp \in Nat,
         NEW mark \in BOOLEAN, NEW seq \in Nat, NEW P, P = packRtp(n, len, stamp, mark, seq)
  PROVE  /\ Carries(P, n, len) /\ Framed(P, seq, stamp, mark)
         /\ len < FragmentSize => Len(P) = 1
<1>1. CASE len <= FragmentSize - 1
  <2>1. P = packRtpStapA(n, len, stamp, mark, seq)
    BY <1>1, Zenon DEF packRtp
  <2>2. QED
    BY <2>1, WholeUnit
<1>2. CASE ~(len <= FragmentSize - 1)
  <2>1. P = packRtpFu(n, len, stamp, mark, seq)
    BY <1>2, Zenon DEF packRtp
  <2>2. len > FragmentSize
    BY <1>2, RtpAssumption
  <2>3. QED
    BY <2>1, <2>2, Fragments, RtpAssumption
<1>3. QED
  BY <1>1, <1>2

\* Packets behind packets of the same time stamp.
LEMMA FramedTogether ==
  ASSUME NEW P \in Seq(Packets), NEW Q \in Seq(Packets), Q # << >>,
         NEW seq \in Nat, NEW stamp \in Nat, NEW none \in BOOLEAN, ~none, NEW mark \in BOOLEAN,
         NEW next, next = seq + Len(P),
         Framed(P, seq, stamp, none), Framed(Q, next, stamp, mark)
  PROVE  Framed(P \o Q, seq, stamp, mark)
<1>1. PICK R : R = P \o Q
  OBVIOUS
<1>2. /\ Len(P) \in Nat /\ Len(Q) \in Nat /\ Len(Q) >= 1
      /\ R \in Seq(Packets) /\ Len(R) = Len(P) + Len(Q)
      /\ \A k \in 1 .. Len(P) : R[k] = P[k]
      /\ \A k \in 1 .. Len(Q) : R[Len(P) + k] = Q[k]
  BY <1>1, LenProperties, EmptySeq, ConcatProperties
<1>3. SUFFICES ASSUME NEW k \in 1 .. Len(R)
               PROVE  /\ R[k].seq = (seq + k - 1) % SeqNumbers
                      /\ R[k].stamp = stamp
                      /\ R[k].mark <=> mark /\ k = Len(R)
  BY <1>1 DEF Framed
<1>4. CASE k <= Len(P)
  <2>1. R[k] = P[k] /\ k \in 1 .. Len(P) /\ k # Len(R)
    BY <1>2, <1>4
  <2>2. QED
    BY <2>1, Zenon DEF Framed
<1>5. CASE k > Len(P)
  <2>1. PICK j \in 1 .. Len(Q) : j = k - Len(P)
    <3>1. k - Len(P) \in 1 .. Len(Q)
      BY <1>2, <1>5
    <3>2. QED
      BY <3>1
  <2>2. R[k] = Q[j] /\ (j = Len(Q) <=> k = Len(R)) /\ next + j - 1 = seq + k - 1
    BY <1>2, <2>1
  <2>3. /\ Q[j].seq = (next + j - 1) % SeqNumbers
        /\ Q[j].stamp = stamp
        /\ Q[j].mark <=> mark /\ j = Len(Q)
    BY Zenon DEF Framed
  <2>4. QED
    BY <2>2, <2>3, Zenon
<1>6. QED
  BY <1>2, <1>4, <1>5

\* The parameter sets in front of a key frame.
LEMMA ConfigIs ==
  ASSUME NEW e \in Encoders, NEW stamp \in Nat, NEW none \in BOOLEAN, ~none,
         NEW C, C = insertConfigFrame(e, stamp)
  PROVE  /\ C \in Seq(Packets) /\ Framed(C, e.seq, stamp, none)
         /\ \A k \in 1 .. Len(C) : ~sendable(C[k].nalu)
         /\ e.sps # NoNalu /\ e.pps # NoNalu /\ e.sps.len < FragmentSize =>
              /\ Len(C) = 2
              /\ C[1].nalu = e.sps /\ C[2].nalu = e.pps
              /\ \A k \in {1, 2} : C[k].start /\ C[k].end /\ C[k].to = e.sps.len
<1>1. CASE e.sps = NoNalu \/ e.pps = NoNalu
  <2>1. C = << >>
    BY <1>1, Zenon DEF insertConfigFrame
  <2>2. QED
    BY <1>1, <2>1 DEF Framed
<1>2. CASE ~(e.sps = NoNalu \/ e.pps = NoNalu)
  <2>1. /\ e.sps \in Nalus /\ e.sps.nal_unit_type = "SPS"
        /\ e.pps \in Nalus /\ e.pps.nal_unit_type = "PPS"
        /\ e.seq \in Nat
    BY <1>2, RtpAssumption DEF Encoders, SetOf
  <2>2. e.sps.len \in Nat \ {0, FragmentSize}
    BY <2>1 DEF Nalus
  <2>3. PICK S : S = packRtp(e.sps, e.sps.len, stamp, none, e.seq)
    OBVIOUS
  <2>4. /\ Carries(S, e.sps, e.sps.len) /\ Framed(S, e.seq, stamp, none)
        /\ e.sps.len < FragmentSize => Len(S) = 1
    BY <2>1, <2>2, <2>3, UnitIsPacked
  <2>5. S \in Seq(Packets) /\ Len(S) \in Nat /\ e.seq + Len(S) \in Nat
    BY <2>1, <2>4 DEF Carries
  <2>6. PICK next \in Nat : next = e.seq + Len(S)
    BY <2>5
  <2>7. PICK Q : Q = packRtp(e.pps, e.sps.len, stamp, none, next)
    OBVIOUS
  <2>8. /\ Carries(Q, e.pps, e.sps.len) /\ Framed(Q, next, stamp, none)
        /\ e.sps.len < FragmentSize => Len(Q) = 1
    BY <2>1, <2>2, <2>6, <2>7, UnitIsPacked
  <2>9. Q \in Seq(Packets) /\ Q # << >> /\ Len(Q) \in Nat
    BY <2>8 DEF Carries
  <2>10. C = S \o Q
    <3>1. none = FALSE
      OBVIOUS
    <3>2. QED
      BY <1>2, <2>3, <2>6, <2>7, <3>1, Zenon DEF insertConfigFrame
  <2>11. /\ C \in Seq(Packets) /\ Len(C) = Len(S) + Len(Q)
         /\ \A k \in 1 .. Len(S) : C[k] = S[k]
         /\ \A k \in 1 .. Len(Q) : C[Len(S) + k] = Q[k]
    BY <2>5, <2>9, <2>10, ConcatProperties
  <2>12. Framed(C, e.seq, stamp, none)
    BY <2>1, <2>4, <2>5, <2>6, <2>8, <2>9, <2>10, FramedTogether
  <2>13. \A k \in 1 .. Len(C) : C[k].nalu \in {e.sps, e.pps}
    <3>1. SUFFICES ASSUME NEW k \in 1 .. Len(C)
                   PROVE  C[k].nalu \in {e.sps, e.pps}
      OBVIOUS
    <3>2. CASE k <= Len(S)
      BY <2>4, <2>5, <2>11, <3>2 DEF Carries
    <3>3. CASE k > Len(S)
      <4>1. PICK j \in 1 .. Len(Q) : k = Len(S) + j
        <5>1. k - Len(S) \in 1 .. Len(Q) /\ k = Len(S) + (k - Len(S))
          BY <2>5, <2>9, <2>11, <3>3
        <5>2. QED
          BY <5>1
      <4>2. QED
        BY <2>8, <2>11, <4>1 DEF Carries
    <3>4. QED
      BY <2>5, <2>9, <2>11, <3>2, <3>3
  <2>14. \A k \in 1 .. Len(C) : ~sendable(C[k].nalu)
    BY <2>1, <2>13 DEF sendable
  <2>15. ASSUME e.sps.len < FragmentSize
         PROVE  /\ Len(C) = 2
                /\ C[1].nalu = e.sps /\ C[2].nalu = e.pps
                /\ \A k \in {1, 2} : C[k].start /\ C[k].end /\ C[k].to = e.sps.len
    <3>1. Len(S) = 1 /\ Len(Q) = 1 /\ C[1] = S[1] /\ C[2] = Q[1] /\ Len(C) = 2
      BY <2>4, <2>8, <2>11, <2>15
    <3>2. /\ S[1].nalu = e.sps /\ S[1].start /\ S[1].end /\ S[1].to = e.sps.len
          /\ Q[1].nalu = e.pps /\ Q[1].start /\ Q[1].end /\ Q[1].to = e.sps.len
      BY <2>4, <2>8, <3>1 DEF Carries
    <3>3. QED
      BY <3>1, <3>2
  <2>16. QED
    BY <2>11, <2>12, <2>14, <2>15
<1>3. QED
  BY <1>1, <1>2

\* P is what carries the unit h that the encoder e holds: parameter sets or nothing,
\* C, then the unit, U.
Carrying(P, e, h, mark) ==
  \E C, U \in Seq(Packets) :
    /\ P = C \o U
    /\ \A k \in 1 .. Len(C) : ~sendable(C[k].nalu)
    /\ Carries(U, h.nalu, h.nalu.len)
    /\ Framed(P, e.seq, h.stamp, mark)
    /\ keyFrame(h.nalu) => C = insertConfigFrame(e, h.stamp)

\* What inputFrame sends when a unit to send follows the unit e.last_nalu.
LEMMA PacketsAre ==
  ASSUME NEW e \in Encoders, NEW n, sendable(n), NEW stamp \in Nat,
         NEW h \in Held, e.last_nalu = h,
         NEW P, P = PacketsFor(e, n, stamp),
         NEW mark \in BOOLEAN, mark <=> h.stamp # stamp
  PROVE  Carrying(P, e, h, mark)
<1>1. h.nalu \in Nalus /\ sendable(h.nalu) /\ h.stamp \in Nat /\ h # NoNalu /\ e.seq \in Nat
      /\ h.nalu.len \in Nat \ {0, FragmentSize}
  BY RtpAssumption DEF Held, Encoders, Nalus
<1>2. P = inputFrame_l(e, h.nalu, h.stamp, mark)
  <2>1. mark = (h.stamp # stamp)
    OBVIOUS
  <2>2. QED
    BY <1>1, <2>1, Zenon DEF PacketsFor
<1>3. PICK none \in BOOLEAN : ~none
  OBVIOUS
<1>4. PICK C : C = IF keyFrame(h.nalu) THEN insertConfigFrame(e, h.stamp) ELSE << >>
  OBVIOUS
<1>5. /\ C \in Seq(Packets) /\ Framed(C, e.seq, h.stamp, none)
      /\ \A k \in 1 .. Len(C) : ~sendable(C[k].nalu)
  <2>1. CASE keyFrame(h.nalu)
    <3>1. C = insertConfigFrame(e, h.stamp)
      BY <1>4, <2>1
    <3>2. QED
      BY <1>1, <1>3, <3>1, ConfigIs
  <2>2. CASE ~keyFrame(h.nalu)
    BY <1>4, <2>2 DEF Framed
  <2>3. QED
    BY <2>1, <2>2
<1>6. PICK next \in Nat : next = e.seq + Len(C)
  <2>1. e.seq + Len(C) \in Nat
    BY <1>1, <1>5
  <2>2. QED
    BY <2>1
<1>7. PICK U : U = packRtp(h.nalu, h.nalu.len, h.stamp, mark, next)
  OBVIOUS
<1>8. Carries(U, h.nalu, h.nalu.len) /\ Framed(U, next, h.stamp, mark)
  BY <1>1, <1>6, <1>7, UnitIsPacked
<1>9. U \in Seq(Packets) /\ U # << >>
  BY <1>8 DEF Carries
<1>10. P = C \o U
  BY <1>2, <1>4, <1>6, <1>7, Zenon DEF inputFrame_l
<1>11. Framed(P, e.seq, h.stamp, mark)
  BY <1>1, <1>3, <1>5, <1>6, <1>8, <1>9, <1>10, FramedTogether
<1>12. keyFrame(h.nalu) => C = insertConfigFrame(e, h.stamp)
  BY <1>4
<1>13. QED
  BY <1>5, <1>8, <1>9, <1>10, <1>11, <1>12 DEF Carrying

\* What inputFrame leaves in the encoder.
LEMMA InputIs ==
  ASSUME NEW e \in Encoders, NEW n \in Nalus, NEW stamp \in Nat,
         NEW f, f = inputFrame(e, n, stamp)
  PROVE  /\ f \in Encoders
         /\ f.sps = IF n.nal_unit_type = "SPS" THEN n ELSE e.sps
         /\ f.pps = IF n.nal_unit_type = "PPS" THEN n ELSE e.pps
         /\ f.last_nalu = IF sendable(n) THEN [nalu |-> n, stamp |-> stamp] ELSE e.last_nalu
         /\ f.seq = IF sendable(n) THEN (e.seq + Len(PacketsFor(e, n, stamp))) % SeqNumbers ELSE e.seq
<1>1. /\ e = [sps |-> e.sps, pps |-> e.pps, last_nalu |-> e.last_nalu, seq |-> e.seq]
      /\ e.sps \in SetOf("SPS") \cup {NoNalu} /\ e.pps \in SetOf("PPS") \cup {NoNalu}
      /\ e.last_nalu \in Held \cup {NoNalu} /\ e.seq \in 0 .. SeqNumbers - 1
  BY DEF Encoders
<1>2. n.nal_unit_type \in NaluTypes
  BY DEF Nalus
<1>3. CASE n.nal_unit_type = "SPS"
  <2>1. f = [e EXCEPT !.sps = n]
    BY <1>3 DEF inputFrame, dropAble, sendable
  <2>2. n \in SetOf("SPS") /\ ~sendable(n)
    BY <1>3 DEF SetOf, sendable
  <2>3. QED
    BY <1>1, <1>3, <2>1, <2>2 DEF Encoders
<1>4. CASE n.nal_unit_type = "PPS"
  <2>1. f = [e EXCEPT !.pps = n]
    BY <1>4 DEF inputFrame, dropAble, sendable
  <2>2. n \in SetOf("PPS") /\ ~sendable(n)
    BY <1>4 DEF SetOf, sendable
  <2>3. QED
    BY <1>1, <1>4, <2>1, <2>2 DEF Encoders
<1>5. CASE n.nal_unit_type \in {"SEI", "AUD"}
  <2>1. f = e
    BY <1>5 DEF inputFrame, dropAble, sendable
  <2>2. QED
    BY <1>1, <1>5, <2>1 DEF sendable
<1>6. CASE n.nal_unit_type \in {"B_P", "DP", "IDR", "other"}
  <2>1. PICK P : P = PacketsFor(e, n, stamp)
    OBVIOUS
  <2>2. sendable(n)
    BY <1>6 DEF sendable
  <2>3. Len(P) \in Nat
    <3>1. CASE e.last_nalu = NoNalu
      <4>1. P = << >>
        BY <2>1, <3>1, Zenon DEF PacketsFor
      <4>2. QED
        BY <4>1
    <3>2. CASE e.last_nalu # NoNalu
      <4>1. PICK h \in Held : e.last_nalu = h
        BY <1>1, <3>2
      <4>2. PICK mark \in BOOLEAN : mark <=> h.stamp # stamp
        OBVIOUS
      <4>3. Carrying(P, e, h, mark)
        BY <1>1, <2>1, <2>2, <4>1, <4>2, PacketsAre
      <4>4. QED
        BY <4>3, ConcatProperties DEF Carrying
    <3>3. QED
      BY <3>1, <3>2
  <2>4. PICK q : q = (e.seq + Len(P)) % SeqNumbers
    OBVIOUS
  <2>5. q \in 0 .. SeqNumbers - 1
    <3>1. e.seq + Len(P) \in Nat
      BY <1>1, <2>3, RtpAssumption
    <3>2. QED
      BY <2>4, <3>1, SequenceNumbers
  <2>6. f = [e EXCEPT !.last_nalu = [nalu |-> n, stamp |-> stamp], !.seq = q]
    BY <1>6, <2>1, <2>4 DEF inputFrame, dropAble, sendable
  <2>7. [nalu |-> n, stamp |-> stamp] \in Held
    BY <2>2 DEF Held
  <2>8. /\ f.sps = e.sps /\ f.pps = e.pps /\ f.seq = q
        /\ f.last_nalu = [nalu |-> n, stamp |-> stamp]
        /\ f = [sps |-> e.sps, pps |-> e.pps, last_nalu |-> [nalu |-> n, stamp |-> stamp], seq |-> q]
    BY <1>1, <2>6
  <2>9. f \in Encoders
    BY <1>1, <2>5, <2>7, <2>8 DEF Encoders
  <2>10. QED
    BY <1>6, <2>1, <2>2, <2>4, <2>8, <2>9
<1>7. QED
  BY <1>2, <1>3, <1>4, <1>5, <1>6 DEF NaluTypes

------------------------------------------------------------------------------
(* An RTSP session keeps its types and its pace. *)

LEMMA InitSession == RtspInit => SessionInv
<1> SUFFICES ASSUME RtspInit PROVE SessionInv
  OBVIOUS
<1>1. streams \in Seq(MediaStreams) /\ Len(streams) = 0 /\ stream = 0
  BY EmptySeq DEF RtspInit
<1>2. IsFiniteSet(timers) /\ timers = {}
  BY FS_EmptySet DEF RtspInit
<1>3. SessionTypes
  BY <1>1, <1>2 DEF RtspInit, SessionTypes, TimersInv, ReadingInv
<1>4. Paced
  BY <1>1, <1>2 DEF RtspInit, Paced
<1>5. QED
  BY <1>3, <1>4 DEF SessionInv

LEMMA DescribeKeeps ==
  ASSUME SessionInv, handleDescribe
  PROVE  SessionInv'
<1> USE DEF handleDescribe, SessionInv
<1>1. PICK s : s = NewStream(now)
  OBVIOUS
<1>2. /\ s \in MediaStreams /\ s.data = 1 /\ s.time_stamp = 0 /\ s.create_time = now
  <2>1. NewEncoder \in Encoders
    BY RtpAssumption DEF NewEncoder, Encoders
  <2>2. QED
    BY <1>1, <2>1 DEF NewStream, MediaStreams, SessionTypes
<1>3. /\ streams' \in Seq(MediaStreams) /\ Len(streams') = stream + 1
      /\ streams'[stream + 1] = s
      /\ \A i \in 1 .. stream : streams'[i] = streams[i]
      /\ stream \in Nat /\ stream' = stream + 1
  <2>1. stream = Len(streams) /\ streams \in Seq(MediaStreams) /\ streams' = Append(streams, s)
    BY <1>1 DEF SessionTypes
  <2>2. QED
    BY <1>2, <2>1, AppendProperties, LenProperties
<1>4. file # << >> => Len(file) >= 1 /\ Len(file) \in Nat
  BY SessionAssumption, EmptySeq, LenProperties DEF SessionTypes
<1>5. \A i \in 1 .. stream' : /\ file' # << >> => streams'[i].data <= Len(file')
                              /\ streams'[i].create_time <= now'
  <2>1. SUFFICES ASSUME NEW i \in 1 .. stream + 1
                 PROVE  /\ file # << >> => streams'[i].data <= Len(file)
                        /\ streams'[i].create_time <= now
    BY <1>3
  <2>2. CASE i = stream + 1
    BY <1>2, <1>3, <1>4, <2>2 DEF SessionTypes
  <2>3. CASE i \in 1 .. stream
    BY <1>3, <2>3 DEF SessionTypes
  <2>4. QED
    BY <1>3, <2>2, <2>3
<1>6. TimersInv'
  <2>1. \A t \in timers : t.stream \in 1 .. stream
    BY <1>3 DEF SessionTypes, TimersInv, PlayTimers
  <2>2. QED
    BY <1>3, <2>1 DEF SessionTypes, TimersInv
<1>7. ReadingInv'
  BY DEF Request, Idle, ReadingInv
<1>8. SessionTypes'
  BY <1>3, <1>5, <1>6, <1>7 DEF SessionTypes
<1>9. Paced'
  <2>1. \A t \in timers : t.stream \in 1 .. stream
    BY <1>3 DEF SessionTypes, TimersInv, PlayTimers
  <2>2. \A i \in DOMAIN streams' :
          streams'[i].time_stamp = 0 \/
          streams'[i].time_stamp < now - streams'[i].create_time - Delay + Frame
    <3>1. SUFFICES ASSUME NEW i \in 1 .. stream + 1
                   PROVE  streams'[i].time_stamp = 0 \/
                          streams'[i].time_stamp < now - streams'[i].create_time - Delay + Frame
      BY <1>3, LenProperties
    <3>2. CASE i = stream + 1
      BY <1>2, <1>3, <3>2
    <3>3. CASE i \in 1 .. stream
      <4>1. i \in DOMAIN streams
        BY <3>3, LenProperties DEF SessionTypes
      <4>2. QED
        BY <1>3, <3>3, <4>1 DEF Paced
    <3>4. QED
      BY <1>3, <3>2, <3>3
  <2>3. QED
    BY <1>3, <2>1, <2>2 DEF Paced
<1>10. QED
  BY <1>8, <1>9

\* A sequence with one element replaced.
LEMMA OneReplaced ==
  ASSUME NEW S, NEW q \in Seq(S), NEW i \in 1 .. Len(q), NEW e \in S,
         NEW p, p = [q EXCEPT ![i] = e]
  PROVE  /\ p \in Seq(S) /\ Len(p) = Len(q) /\ p[i] = e
         /\ \A j \in 1 .. Len(q) : j # i => p[j] = q[j]
<1>1. Len(q) \in Nat /\ DOMAIN q = 1 .. Len(q) /\ \A j \in 1 .. Len(q) : q[j] \in S
  BY LenProperties, ElementOfSeq
<1>2. PICK r : r = [j \in 1 .. Len(q) |-> IF j = i THEN e ELSE q[j]]
  OBVIOUS
<1>3. p = r
  BY <1>1, <1>2
<1>4. \A j \in 1 .. Len(q) : r[j] \in S
  BY <1>1, <1>2
<1>5. r \in Seq(S) /\ DOMAIN r = 1 .. Len(q)
  BY <1>1, <1>2, <1>4, IsASeq
<1>6. Len(r) = Len(q)
  BY <1>1, <1>5, LenProperties
<1>7. QED
  BY <1>1, <1>2, <1>3, <1>5, <1>6

LEMMA StreamTyped ==
  ASSUME SessionTypes, NEW i \in 1 .. stream
  PROVE  /\ stream \in Nat /\ i \in DOMAIN streams /\ streams[i] \in MediaStreams
         /\ streams[i] = [data |-> streams[i].data, encoder |-> streams[i].encoder,
                          send_cb |-> streams[i].send_cb, time_stamp |-> streams[i].time_stamp,
                          create_time |-> streams[i].create_time]
         /\ streams[i].data \in Nat \ {0} /\ streams[i].encoder \in Encoders
         /\ streams[i].send_cb \in BOOLEAN
         /\ streams[i].time_stamp \in Nat /\ streams[i].create_time \in Nat
<1>1. streams \in Seq(MediaStreams) /\ stream = Len(streams)
  BY DEF SessionTypes
<1>2. stream \in Nat /\ i \in DOMAIN streams
  BY <1>1, LenProperties
<1>3. PICK s : s = streams[i]
  OBVIOUS
<1>4. s \in MediaStreams
  BY <1>1, <1>3, ElementOfSeq
<1>5. /\ s = [data |-> s.data, encoder |-> s.encoder, send_cb |-> s.send_cb,
              time_stamp |-> s.time_stamp, create_time |-> s.create_time]
      /\ s.data \in Nat \ {0} /\ s.encoder \in Encoders /\ s.send_cb \in BOOLEAN
      /\ s.time_stamp \in Nat /\ s.create_time \in Nat
  BY <1>4 DEF MediaStreams
<1>6. QED
  BY <1>2, <1>3, <1>4, <1>5

\* What the steps that leave the streams alone need.
LEMMA PaceKept ==
  ASSUME SessionInv, UNCHANGED streams, now' \in Nat, now' >= now,
         \A u \in timers' : \/ \E t \in timers : u.stream = t.stream /\ u.began = t.began
                            \/ /\ u.stream \in 1 .. stream
                               /\ streams[u.stream].time_stamp
                                    >= u.began - streams[u.stream].create_time - Delay
  PROVE  Paced'
<1>1. \A i \in DOMAIN streams :
        /\ streams[i].time_stamp \in Nat /\ streams[i].create_time \in Nat
  <2>1. DOMAIN streams = 1 .. stream
    BY LenProperties DEF SessionInv, SessionTypes
  <2>2. QED
    BY <2>1, StreamTyped DEF SessionInv
<1>2. \A i \in DOMAIN streams :
        streams[i].time_stamp = 0 \/
        streams[i].time_stamp < now' - streams[i].create_time - Delay + Frame
  <2>1. SUFFICES ASSUME NEW i \in DOMAIN streams, streams[i].time_stamp # 0
                 PROVE  streams[i].time_stamp < now' - streams[i].create_time - Delay + Frame
    OBVIOUS
  <2>2. streams[i].time_stamp < now - streams[i].create_time - Delay + Frame
    BY <2>1 DEF SessionInv, Paced
  <2>3. now \in Nat /\ Delay \in Nat /\ Frame \in Nat
    BY SessionAssumption DEF SessionInv, SessionTypes
  <2>4. QED
    BY <1>1, <2>2, <2>3
<1>3. \A u \in timers' : streams[u.stream].time_stamp
                             >= u.began - streams[u.stream].create_time - Delay
  BY DEF SessionInv, Paced
<1>4. QED
  BY <1>2, <1>3 DEF Paced

LEMMA PlayKeeps ==
  ASSUME SessionInv, handlePlay
  PROVE  SessionInv'
<1> USE DEF handlePlay, SessionInv
<1> DEFINE used == {t.id : t \in timers}
           id == Min(1 .. MaxPlays \ used)
<1>1. PICK t : t = [id |-> id, stream |-> stream, due |-> now + Period, ran |-> FALSE, began |-> 0]
  OBVIOUS
<1>2. id \in 1 .. MaxPlays /\ id \notin used
  <2>1. MaxPlays \in Nat /\ IsFiniteSet(timers) /\ timers \subseteq PlayTimers
    BY SessionAssumption DEF SessionTypes, TimersInv
  <2>2. 1 .. MaxPlays \ used # {}
    <3>1. SUFFICES ASSUME 1 .. MaxPlays \subseteq used
                   PROVE  FALSE
      OBVIOUS
    <3>2. IsFiniteSet(used) /\ Cardinality(used) <= Cardinality(timers)
      <4>1. PICK f : f = [u \in timers |-> u.id]
        OBVIOUS
      <4>2. f \in Surjection(timers, used)
        BY <4>1 DEF Surjection
      <4>3. QED
        BY <2>1, <4>2, FS_Surjection
    <3>3. Cardinality(1 .. MaxPlays) = MaxPlays /\ Cardinality(1 .. MaxPlays) <= Cardinality(used)
      <4>1. IsFiniteSet(1 .. MaxPlays) /\ Cardinality(1 .. MaxPlays) = MaxPlays
        BY <2>1, FS_Interval
      <4>2. QED
        BY <3>1, <3>2, <4>1, FS_Subset
    <3>4. /\ Cardinality(timers) < MaxPlays /\ Cardinality(timers) \in Nat
          /\ Cardinality(used) \in Nat
      BY <2>1, <3>2, FS_CardinalityType
    <3>5. PICK a, b : a = Cardinality(timers) /\ b = Cardinality(used)
      OBVIOUS
    <3>6. a \in Nat /\ b \in Nat /\ a < MaxPlays /\ b <= a /\ MaxPlays <= b
      BY <3>2, <3>3, <3>4, <3>5
    <3>7. QED
      BY <2>1, <3>6
  <2>3. 1 .. MaxPlays \ used \in SUBSET Nat
    OBVIOUS
  <2>4. \E x \in 1 .. MaxPlays \ used : \A y \in 1 .. MaxPlays \ used : x <= y
    BY <2>2, <2>3, SmallestExists
  <2>5. id \in 1 .. MaxPlays \ used
    BY <2>4, Zenon DEF Min
  <2>6. QED
    BY <2>5
<1>3. /\ stream \in 1 .. Len(streams) /\ streams \in Seq(MediaStreams) /\ Len(streams) \in Nat
      /\ stream \in Nat \ {0} /\ stream = Len(streams)
  BY LenProperties DEF SessionTypes
<1> HIDE DEF id
<1>4. t \in PlayTimers /\ t.id = id /\ t.stream = stream /\ t.began = 0 /\ timers' = timers \cup {t}
  BY <1>1, <1>2, <1>3, SessionAssumption DEF PlayTimers, SessionTypes, id
<1>5. PICK s : s = [streams[stream] EXCEPT !.send_cb = TRUE]
  OBVIOUS
<1>6. /\ streams[stream] \in MediaStreams /\ s \in MediaStreams /\ s.send_cb = TRUE
      /\ s.data = streams[stream].data /\ s.time_stamp = streams[stream].time_stamp
      /\ s.create_time = streams[stream].create_time
  <2>1. PICK r : r = streams[stream]
    OBVIOUS
  <2>2. r \in MediaStreams
    BY <1>3, <2>1, StreamTyped
  <2>3. s = [r EXCEPT !.send_cb = TRUE]
    BY <1>5, <2>1
  <2>4. /\ s \in MediaStreams /\ s.send_cb = TRUE /\ s.data = r.data
        /\ s.time_stamp = r.time_stamp /\ s.create_time = r.create_time
    BY <2>2, <2>3 DEF MediaStreams
  <2>5. QED
    BY <2>1, <2>2, <2>4
<1>7. streams' = [streams EXCEPT ![stream] = s]
  BY <1>3, <1>5
<1>8. /\ streams' \in Seq(MediaStreams) /\ Len(streams') = Len(streams)
      /\ streams'[stream] = s
      /\ \A i \in 1 .. Len(streams) : i # stream => streams'[i] = streams[i]
  <2>1. stream \in 1 .. Len(streams) /\ streams \in Seq(MediaStreams) /\ s \in MediaStreams
    BY <1>3, <1>6
  <2>2. QED
    BY ONLY <1>7, <2>1, OneReplaced
<1>9. \A i \in 1 .. stream : /\ streams'[i].data = streams[i].data
                             /\ streams'[i].time_stamp = streams[i].time_stamp
                             /\ streams'[i].create_time = streams[i].create_time
                             /\ streams[i].send_cb => streams'[i].send_cb
  BY <1>3, <1>6, <1>8
<1>10. TimersInv'
  <2>1. IsFiniteSet(timers')
    <3>1. IsFiniteSet(timers)
      BY DEF SessionTypes, TimersInv
    <3>2. IsFiniteSet(timers \cup {t})
      BY <3>1, FS_AddElement
    <3>3. QED
      BY <1>4, <3>2
  <2>2. \A u \in timers : u.stream \in 1 .. stream /\ u.id # id
    BY <1>2, <1>3 DEF SessionTypes, TimersInv, PlayTimers
  <2>3. \A u, w \in timers' : u.id = w.id => u = w
    BY <1>4, <2>2 DEF SessionTypes, TimersInv
  <2>4. \A u \in timers' : u.stream <= stream /\ streams'[u.stream].send_cb /\ file # << >>
    <3>1. SUFFICES ASSUME NEW u \in timers'
                   PROVE  u.stream <= stream /\ streams'[u.stream].send_cb
      OBVIOUS
    <3>2. CASE u = t
      BY <1>3, <1>4, <1>6, <1>8, <3>2
    <3>3. CASE u \in timers
      BY <1>9, <2>2, <3>3 DEF SessionTypes, TimersInv
    <3>4. QED
      BY <1>4, <3>2, <3>3
  <2>5. QED
    BY <1>4, <2>1, <2>3, <2>4 DEF SessionTypes, TimersInv
<1>11. SessionTypes'
  <2>1. ReadingInv'
    BY DEF Request, Idle, ReadingInv
  <2>2. QED
    BY <1>3, <1>8, <1>9, <1>10, <2>1 DEF SessionTypes
<1>12. Paced'
  <2>1. DOMAIN streams = 1 .. stream /\ DOMAIN streams' = 1 .. stream
    BY <1>3, <1>8, LenProperties
  <2>2. \A u \in timers : u.stream \in 1 .. stream
    BY <1>3 DEF SessionTypes, TimersInv, PlayTimers
  <2>3. streams'[stream].time_stamp >= t.began - streams'[stream].create_time - Delay
    <3>1. /\ streams'[stream].time_stamp \in Nat /\ streams'[stream].create_time \in Nat
          /\ Delay \in Nat
      BY <1>3, <1>9, StreamTyped, SessionAssumption
    <3>2. QED
      BY <1>4, <3>1
  <2>4. QED
    BY <1>4, <1>9, <2>1, <2>2, <2>3 DEF Paced
<1>13. QED
  BY <1>11, <1>12

LEMMA CloseKeeps ==
  ASSUME SessionInv, HandleClose \/ Destroy
  PROVE  SessionInv'
<1>1. /\ state' \in {"Connected", "Disconected", "gone"}
      /\ UNCHANGED <<file, stream, streams, timers, reading, now>>
  BY DEF HandleClose, Destroy
<1>2. SessionTypes'
  BY <1>1 DEF SessionInv, SessionTypes, TimersInv, ReadingInv
<1>3. Paced'
  BY <1>1 DEF SessionInv, Paced
<1>4. QED
  BY <1>2, <1>3 DEF SessionInv

LEMMA ExpireKeeps ==
  ASSUME SessionInv, Expire
  PROVE  SessionInv'
<1> USE DEF SessionInv
<1>1. PICK t \in timers :
        /\ reading = NotReading
        /\ \/ /\ Alive(t.stream)
              /\ reading' = [timer |-> t.id, stream |-> t.stream, at |-> now]
              /\ UNCHANGED timers
           \/ /\ timers' = timers \ {t}
              /\ UNCHANGED reading
        /\ UNCHANGED <<file, state, stream, streams, now, sent>>
  BY DEF Expire, Expired
<1>2. t.stream \in Nat \ {0}
  BY DEF SessionTypes, TimersInv, PlayTimers
<1>3. timers' \subseteq timers /\ IsFiniteSet(timers')
  BY <1>1, FS_Subset DEF SessionTypes, TimersInv
<1>4. TimersInv'
  BY <1>1, <1>3 DEF SessionTypes, TimersInv
<1>5. ReadingInv'
  <2>1. now \in Nat /\ UNCHANGED now
    BY <1>1 DEF SessionTypes
  <2>2. QED
    BY <1>1, <1>2, <2>1 DEF ReadingInv, Alive, NotReading
<1>6. SessionTypes'
  BY <1>1, <1>4, <1>5 DEF SessionTypes
<1>7. Paced'
  BY <1>1, <1>3 DEF Paced
<1>8. QED
  BY <1>6, <1>7

LEMMA NextPlace ==
  ASSUME NEW len \in Nat, NEW d \in 1 .. len
  PROVE  (d % len) + 1 = IF d = len THEN 1 ELSE d + 1
<1>1. CASE d = len
  BY <1>1
<1>2. CASE d < len
  BY <1>2
<1>3. QED
  BY <1>1, <1>2

\* What a round of readFrame's loop does to the newest stream: it was s, reads n and
\* becomes r.
Reads(s, n, r) ==
  /\ stream \in 1 .. Len(streams) /\ streams \in Seq(MediaStreams) /\ stream = Len(streams)
  /\ reading # NotReading /\ reading.stream = stream
  /\ file # << >> /\ Len(file) \in Nat /\ DOMAIN file = 1 .. Len(file)
  /\ s = streams[stream] /\ s \in MediaStreams /\ s.data \in 1 .. Len(file) /\ s.send_cb
  /\ reading.at \in Nat /\ reading.at <= now
  /\ s.time_stamp < reading.at - s.create_time - Delay
  /\ n = file[s.data] /\ n \in Nalus
  /\ r \in MediaStreams
  /\ r.data = IF s.data = Len(file) THEN 1 ELSE s.data + 1
  /\ r.encoder = inputFrame(s.encoder, n, s.time_stamp)
  /\ r.send_cb = s.send_cb /\ r.create_time = s.create_time
  /\ r.time_stamp = s.time_stamp + StampAfter(n)
  /\ streams' \in Seq(MediaStreams) /\ Len(streams') = Len(streams)
  /\ streams'[stream] = r
  /\ \A i \in 1 .. stream : i # stream => streams'[i] = streams[i]
  /\ Send(PacketsFor(s.encoder, n, s.time_stamp))
  /\ UNCHANGED <<file, state, stream, timers, reading, now>>

\* readFrame has a stream to read.
LEMMA StreamIsThere ==
  ASSUME SessionTypes, reading # NotReading
  PROVE  /\ stream \in 1 .. Len(streams) /\ reading.stream = stream
         /\ streams[stream].send_cb /\ file # << >>
         /\ \E t \in timers : t.stream = stream /\ reading.timer = t.id
         /\ reading.at \in Nat /\ reading.at <= now
<1>1. PICK t \in timers, at \in Nat :
        /\ t.stream = stream /\ at <= now
        /\ reading = [timer |-> t.id, stream |-> t.stream, at |-> at]
  BY DEF SessionTypes, ReadingInv
<1>2. t.stream \in Nat \ {0}
  BY DEF SessionTypes, TimersInv, PlayTimers
<1>3. QED
  BY <1>1, <1>2 DEF SessionTypes, TimersInv

LEMMA ReadNaluIs ==
  ASSUME SessionTypes, ReadNalu
  PROVE  \E s, n, r : Reads(s, n, r)
<1>1. /\ stream \in 1 .. Len(streams) /\ reading # NotReading /\ reading.stream = stream
      /\ streams[stream].send_cb /\ file # << >>
      /\ streams \in Seq(MediaStreams) /\ stream = Len(streams) /\ now \in Nat
      /\ reading.at \in Nat /\ reading.at <= now
  BY StreamIsThere DEF ReadNalu, SessionTypes
<1>2. PICK s : s = streams[stream]
  OBVIOUS
<1>3. /\ s \in MediaStreams /\ s.data \in Nat \ {0} /\ s.encoder \in Encoders
      /\ s.time_stamp \in Nat /\ s.create_time \in Nat
      /\ s.data <= Len(file)
  BY <1>1, <1>2, StreamTyped DEF SessionTypes
<1>4. file \in Seq(Nalus) /\ Len(file) \in Nat /\ DOMAIN file = 1 .. Len(file)
  BY SessionAssumption, LenProperties DEF SessionTypes
<1>5. s.data \in 1 .. Len(file)
  BY <1>3, <1>4
<1>6. PICK n : n = file[s.data]
  OBVIOUS
<1>7. n \in Nalus
  BY <1>4, <1>5, <1>6, ElementOfSeq
<1>8. PICK stamp : stamp = s.time_stamp + StampAfter(n)
  OBVIOUS
<1>9. stamp \in Nat
  BY <1>3, <1>8, SessionAssumption DEF StampAfter
<1>10. PICK f : f = inputFrame(s.encoder, n, s.time_stamp)
  OBVIOUS
<1>11. f \in Encoders
  BY <1>3, <1>7, <1>10, InputIs
<1>12. PICK d : d = (s.data % Len(file)) + 1
  OBVIOUS
<1>13. d = (IF s.data = Len(file) THEN 1 ELSE s.data + 1) /\ d \in Nat \ {0}
  <2>1. PICK len \in Nat : len = Len(file)
    BY <1>4
  <2>2. (s.data % len) + 1 = IF s.data = len THEN 1 ELSE s.data + 1
    BY <1>5, <2>1, NextPlace
  <2>3. QED
    BY <1>5, <1>12, <2>1, <2>2
<1>14. PICK r : r = [s EXCEPT !.data = d, !.encoder = f, !.time_stamp = stamp]
  OBVIOUS
<1>15. /\ r \in MediaStreams /\ r.data = d /\ r.encoder = f /\ r.time_stamp = stamp
       /\ r.send_cb = s.send_cb /\ r.create_time = s.create_time
  BY <1>3, <1>9, <1>11, <1>13, <1>14 DEF MediaStreams
<1>16. /\ streams' = [streams EXCEPT ![stream] = r]
       /\ Send(PacketsFor(s.encoder, n, s.time_stamp))
       /\ UNCHANGED <<file, state, stream, timers, reading, now>>
  <2>1. [s EXCEPT !.data = (@ % Len(file)) + 1,
                  !.encoder = inputFrame(@, n, s.time_stamp),
                  !.time_stamp = @ + StampAfter(n)] = r
    BY <1>3, <1>8, <1>10, <1>12, <1>14 DEF MediaStreams
  <2>2. QED
    BY <1>1, <1>2, <1>6, <2>1 DEF ReadNalu
<1>17. /\ streams' \in Seq(MediaStreams) /\ Len(streams') = Len(streams)
       /\ streams'[stream] = r
       /\ \A i \in 1 .. stream : i # stream => streams'[i] = streams[i]
  <2>1. stream \in 1 .. Len(streams) /\ streams \in Seq(MediaStreams) /\ r \in MediaStreams
        /\ streams' = [streams EXCEPT ![stream] = r] /\ stream = Len(streams)
    BY <1>1, <1>15, <1>16
  <2>2. QED
    BY <2>1, OneReplaced
<1>18. s.time_stamp < reading.at - s.create_time - Delay
  BY <1>1, <1>2 DEF ReadNalu, Behind
<1>19. Reads(s, n, r)
  BY <1>1, <1>2, <1>3, <1>4, <1>5, <1>6, <1>7, <1>8, <1>10, <1>13, <1>15, <1>16, <1>17, <1>18 DEF Reads
<1>20. QED
  BY <1>19

LEMMA ReadKeeps ==
  ASSUME SessionInv, ReadNalu
  PROVE  SessionInv'
<1> USE DEF SessionInv
<1>1. PICK s, n, r : Reads(s, n, r)
  BY ReadNaluIs
<1>2. /\ r.time_stamp \in Nat /\ s.time_stamp \in Nat /\ s.create_time \in Nat /\ r.data \in Nat
      /\ stream \in Nat
  <2>1. s \in MediaStreams /\ r \in MediaStreams /\ stream \in Nat
    BY <1>1 DEF Reads
  <2>2. QED
    BY <2>1 DEF MediaStreams
<1>3. /\ s.time_stamp <= r.time_stamp /\ r.time_stamp < now - s.create_time - Delay + Frame
      /\ now \in Nat /\ Delay \in Nat /\ Frame \in Nat /\ Period \in Nat
  <2>1. StampAfter(n) \in {0, Frame}
    BY DEF StampAfter
  <2>2. now \in Nat /\ Delay \in Nat /\ Frame \in Nat /\ Frame > 0 /\ Period \in Nat
    BY SessionAssumption DEF SessionTypes
  <2>3. /\ s.time_stamp < reading.at - s.create_time - Delay /\ r.time_stamp = s.time_stamp + StampAfter(n)
        /\ reading.at \in Nat /\ reading.at <= now
    BY <1>1 DEF Reads
  <2>4. QED
    BY <1>2, <2>1, <2>2, <2>3
<1>4. TimersInv'
  <2>1. \A t \in timers : t.stream \in 1 .. stream
    BY <1>2 DEF SessionTypes, TimersInv, PlayTimers
  <2>2. \A i \in 1 .. stream : streams[i].send_cb => streams'[i].send_cb
    BY <1>1 DEF Reads
  <2>3. UNCHANGED <<timers, stream, file>>
    BY <1>1 DEF Reads
  <2>4. QED
    BY <2>1, <2>2, <2>3 DEF SessionTypes, TimersInv
<1>5. ReadingInv'
  BY <1>1 DEF Reads, SessionTypes, ReadingInv
<1>6. \A i \in 1 .. stream : /\ streams'[i].data <= Len(file)
                             /\ streams'[i].create_time = streams[i].create_time
  BY <1>1, <1>2 DEF Reads, SessionTypes
<1>7. SessionTypes'
  BY <1>1, <1>4, <1>5, <1>6 DEF Reads, SessionTypes
<1>8. Paced'
  <2>1. \A t \in timers : t.stream \in 1 .. stream /\ t.began \in Nat
    BY <1>2 DEF SessionTypes, TimersInv, PlayTimers
  <2>2. DOMAIN streams = 1 .. stream /\ DOMAIN streams' = 1 .. stream /\ UNCHANGED <<timers, now>>
    BY <1>1, LenProperties DEF Reads
  <2>3. \A i \in 1 .. stream :
          streams'[i].time_stamp = 0 \/
          streams'[i].time_stamp < now - streams'[i].create_time - Delay + Frame
    <3>1. SUFFICES ASSUME NEW i \in 1 .. stream
                   PROVE  streams'[i].time_stamp = 0 \/
                          streams'[i].time_stamp < now - streams'[i].create_time - Delay + Frame
      OBVIOUS
    <3>2. CASE i = stream
      BY <1>1, <1>3, <3>2 DEF Reads
    <3>3. CASE i # stream
      BY <1>1, <2>2, <3>3 DEF Reads, Paced
    <3>4. QED
      BY <3>2, <3>3
  <2>4. \A t \in timers :
          streams'[t.stream].time_stamp >= t.began - streams'[t.stream].create_time - Delay
    <3>1. SUFFICES ASSUME NEW t \in timers
                   PROVE  streams'[t.stream].time_stamp >= t.began - streams'[t.stream].create_time - Delay
      OBVIOUS
    <3>2. streams[t.stream].time_stamp >= t.began - streams[t.stream].create_time - Delay
      BY <3>1 DEF Paced
    <3>3. CASE t.stream = stream
      <4>1. streams[t.stream] = s /\ streams'[t.stream] = r /\ r.create_time = s.create_time
        BY <1>1, <3>3 DEF Reads
      <4>2. QED
        BY <1>2, <1>3, <2>1, <3>2, <4>1
    <3>4. CASE t.stream # stream
      BY <1>1, <2>1, <3>2, <3>4 DEF Reads
    <3>5. QED
      BY <3>3, <3>4
  <2>5. QED
    BY <2>2, <2>3, <2>4 DEF Paced
<1>9. QED
  BY <1>7, <1>8

\* Timers that keep their numbers and streams, each one put back in place of itself.
LEMMA TimersPutBack ==
  ASSUME SessionTypes, UNCHANGED <<file, stream, streams>>, NEW put, DOMAIN put = timers,
         timers' = {put[t] : t \in timers},
         \A t \in timers : put[t] \in PlayTimers /\ put[t].id = t.id /\ put[t].stream = t.stream
  PROVE  TimersInv'
<1>1. timers' \subseteq PlayTimers
  OBVIOUS
<1>2. IsFiniteSet(timers')
  <2>1. PICK f : f = [t \in timers |-> put[t]]
    OBVIOUS
  <2>2. f \in Surjection(timers, timers')
    BY <2>1 DEF Surjection
  <2>3. QED
    BY <2>2, FS_Surjection DEF SessionTypes, TimersInv
<1>3. \A t, u \in timers' : t.id = u.id => t = u
  BY DEF SessionTypes, TimersInv
<1>4. \A t \in timers' : t.stream <= stream' /\ streams'[t.stream].send_cb /\ file' # << >>
  BY DEF SessionTypes, TimersInv
<1>5. QED
  BY <1>1, <1>2, <1>3, <1>4 DEF TimersInv

LEMMA FrameEndsKeeps ==
  ASSUME SessionInv, ReadFrameEnds
  PROVE  SessionInv'
<1> USE DEF SessionInv
<1> DEFINE put(t) == IF t.id = reading.timer THEN [t EXCEPT !.ran = TRUE, !.began = reading.at] ELSE t
<1>1. /\ timers' = {put(t) : t \in timers} /\ reading' = NotReading /\ reading # NotReading
      /\ ~Behind
      /\ UNCHANGED <<file, state, stream, streams, now, sent>>
  BY DEF ReadFrameEnds
<1>2. /\ stream \in 1 .. Len(streams) /\ reading.stream = stream
      /\ \A t \in timers : t.id = reading.timer => t.stream = stream
      /\ reading.at \in Nat
  BY <1>1, StreamIsThere DEF SessionTypes, TimersInv
<1>3. now \in Nat /\ Delay \in Nat
  BY SessionAssumption DEF SessionTypes
<1>4. \A t \in timers : /\ put(t) \in PlayTimers /\ put(t).id = t.id /\ put(t).stream = t.stream
                        /\ \/ put(t) = t
                           \/ t.id = reading.timer /\ put(t).began = reading.at
  <2>1. SUFFICES ASSUME NEW t \in timers
                 PROVE  /\ put(t) \in PlayTimers /\ put(t).id = t.id /\ put(t).stream = t.stream
                        /\ \/ put(t) = t
                           \/ t.id = reading.timer /\ put(t).began = reading.at
    OBVIOUS
  <2>2. t \in PlayTimers
    BY DEF SessionTypes, TimersInv
  <2>3. CASE t.id = reading.timer
    <3>1. PICK u : u = [t EXCEPT !.ran = TRUE, !.began = reading.at]
      OBVIOUS
    <3>2. u \in PlayTimers /\ u.id = t.id /\ u.stream = t.stream /\ u.began = reading.at
      <4>1. PICK at \in Nat : at = reading.at
        BY <1>2
      <4>2. u = [t EXCEPT !.ran = TRUE, !.began = at]
        BY <3>1, <4>1
      <4>3. /\ u = [id |-> t.id, stream |-> t.stream, due |-> t.due, ran |-> TRUE, began |-> at]
            /\ t.id \in 1 .. MaxPlays /\ t.stream \in Nat \ {0} /\ t.due \in Nat
        BY <2>2, <4>2 DEF PlayTimers
      <4>4. QED
        BY <4>1, <4>3 DEF PlayTimers
    <3>3. put(t) = u
      BY <2>3, <3>1
    <3>4. QED
      BY <2>3, <3>2, <3>3
  <2>4. CASE t.id # reading.timer
    BY <2>2, <2>4
  <2>5. QED
    BY <2>3, <2>4
<1> HIDE DEF put
<1>5. TimersInv'
  <2>1. PICK f : f = [t \in timers |-> put(t)]
    OBVIOUS
  <2>2. DOMAIN f = timers /\ \A t \in timers : f[t] = put(t)
    BY <2>1
  <2>3. timers' = {f[t] : t \in timers}
    BY <1>1, <2>2
  <2>4. \A t \in timers : f[t] \in PlayTimers /\ f[t].id = t.id /\ f[t].stream = t.stream
    BY <1>4, <2>2
  <2>5. QED
    BY <1>1, <2>2, <2>3, <2>4, TimersPutBack
<1>6. ReadingInv'
  BY <1>1 DEF ReadingInv
<1>7. SessionTypes'
  BY <1>1, <1>5, <1>6 DEF SessionTypes
<1>8. Paced'
  <2>1. stream \in Nat /\ stream \in 1 .. stream /\ streams[stream].time_stamp \in Nat
        /\ streams[stream].create_time \in Nat
    BY <1>2, StreamTyped DEF SessionTypes
  <2>2. streams[stream].time_stamp >= reading.at - streams[stream].create_time - Delay
    BY <1>1, <1>2, <1>3, <2>1 DEF Behind
  <2>3. \A u \in timers' : \/ u \in timers
                           \/ u.stream = stream /\ u.began = reading.at
    BY <1>1, <1>2, <1>4
  <2>4. \A u \in timers' : \/ \E t \in timers : u.stream = t.stream /\ u.began = t.began
                           \/ /\ u.stream \in 1 .. stream
                              /\ streams[u.stream].time_stamp
                                   >= u.began - streams[u.stream].create_time - Delay
    BY <2>1, <2>2, <2>3
  <2>5. UNCHANGED streams /\ now' \in Nat /\ now' >= now
    BY <1>1, <1>3
  <2>6. QED
    BY <2>4, <2>5, PaceKept
<1>9. QED
  BY <1>7, <1>8

LEMMA RestartKeeps ==
  ASSUME SessionInv, Restart
  PROVE  SessionInv'
<1> USE DEF SessionInv
<1> DEFINE put(t) == IF t.ran THEN [t EXCEPT !.ran = FALSE, !.due = now + Period] ELSE t
<1>1. /\ timers' = {put(t) : t \in timers}
      /\ UNCHANGED <<file, state, stream, streams, reading, now, sent>> /\ reading = NotReading
  BY DEF Restart
<1>2. now \in Nat /\ Period \in Nat
  BY SessionAssumption DEF SessionTypes
<1>3. \A t \in timers : /\ put(t) \in PlayTimers /\ put(t).id = t.id /\ put(t).stream = t.stream
                        /\ put(t).began = t.began
  <2>1. SUFFICES ASSUME NEW t \in timers
                 PROVE  /\ put(t) \in PlayTimers /\ put(t).id = t.id /\ put(t).stream = t.stream
                        /\ put(t).began = t.began
    OBVIOUS
  <2>2. t \in PlayTimers
    BY DEF SessionTypes, TimersInv
  <2>3. CASE t.ran
    <3>1. PICK due \in Nat : due = now + Period
      BY <1>2
    <3>2. PICK u : u = [t EXCEPT !.ran = FALSE, !.due = due]
      OBVIOUS
    <3>3. /\ u = [id |-> t.id, stream |-> t.stream, due |-> due, ran |-> FALSE, began |-> t.began]
          /\ t.id \in 1 .. MaxPlays /\ t.stream \in Nat \ {0} /\ t.began \in Nat
      BY <2>2, <3>2 DEF PlayTimers
    <3>4. u \in PlayTimers
      BY <3>3 DEF PlayTimers
    <3>5. put(t) = u
      BY <2>3, <3>1, <3>2
    <3>6. QED
      BY <3>3, <3>4, <3>5
  <2>4. CASE ~t.ran
    BY <2>2, <2>4
  <2>5. QED
    BY <2>3, <2>4
<1> HIDE DEF put
<1>4. TimersInv'
  <2>1. PICK f : f = [t \in timers |-> put(t)]
    OBVIOUS
  <2>2. DOMAIN f = timers /\ \A t \in timers : f[t] = put(t)
    BY <2>1
  <2>3. timers' = {f[t] : t \in timers}
    BY <1>1, <2>2
  <2>4. \A t \in timers : f[t] \in PlayTimers /\ f[t].id = t.id /\ f[t].stream = t.stream
    BY <1>3, <2>2
  <2>5. QED
    BY <1>1, <2>2, <2>3, <2>4, TimersPutBack
<1>5. SessionTypes'
  BY <1>1, <1>4 DEF SessionTypes, ReadingInv
<1>6. Paced'
  <2>1. UNCHANGED streams /\ now' \in Nat /\ now' >= now
    BY <1>1, <1>2
  <2>2. \A u \in timers' : \E t \in timers : u.stream = t.stream /\ u.began = t.began
    BY <1>1, <1>3
  <2>3. QED
    BY <2>1, <2>2, PaceKept
<1>7. QED
  BY <1>5, <1>6

LEMMA ElapseKeeps ==
  ASSUME SessionInv, Elapse
  PROVE  SessionInv'
<1> USE DEF SessionInv
<1>1. /\ now \in Nat /\ now' = now + 1 /\ now' \in Nat /\ now' >= now
      /\ UNCHANGED <<file, state, stream, streams, timers, reading, sent>>
  BY DEF SessionTypes, Elapse
<1>2. \A i \in 1 .. stream : streams[i].create_time \in Nat /\ streams[i].create_time <= now
  BY StreamTyped DEF SessionTypes
<1>3. SessionTypes'
  <2>1. ReadingInv'
    BY <1>1 DEF SessionTypes, ReadingInv
  <2>2. QED
    BY <1>1, <1>2, <2>1 DEF SessionTypes, TimersInv
<1>4. Paced'
  BY <1>1, PaceKept
<1>5. QED
  BY <1>3, <1>4

------------------------------------------------------------------------------
(* The place in the file. *)

\* The unit at p is the last one to send that is read before d, in this round of the file
\* or the one before.
After(p, d) ==
  /\ p \in Units
  /\ IF p < d THEN \A i \in Units : i <= p \/ i >= d
              ELSE \A i \in Units : d <= i /\ i <= p

\* The unit that the encoder of the newest stream holds is the one read last.
PlaceInv ==
  file # << >> /\ stream > 0 =>
    LET s == streams[stream]
        h == s.encoder.last_nalu
    IN  IF h = NoNalu
        THEN \A i \in Units : i >= s.data
        ELSE h.nalu = file[h.nalu.id] /\ After(h.nalu.id, s.data)

LEMMA SmallestIs ==
  ASSUME NEW S \in SUBSET Nat, NEW m \in S, \A y \in S : m <= y
  PROVE  Min(S) = m
<1>1. PICK k : k = Min(S)
  OBVIOUS
<1>2. k \in S /\ \A y \in S : k <= y
  BY <1>1, Zenon DEF Min
<1>3. k \in Nat /\ m \in Nat /\ k <= m /\ m <= k
  BY <1>2
<1>4. QED
  BY <1>1, <1>3

LEMMA GreatestIs ==
  ASSUME NEW S \in SUBSET Nat, NEW m \in S, \A y \in S : y <= m
  PROVE  Max(S) = m
<1>1. \A y \in S : m >= y
  OBVIOUS
<1>2. PICK k : k = Max(S)
  OBVIOUS
<1>3. k \in S /\ \A y \in S : k >= y
  BY <1>1, <1>2, Zenon DEF Max
<1>4. k \in Nat /\ m \in Nat /\ k >= m /\ m >= k
  BY <1>3
<1>5. QED
  BY <1>2, <1>4

LEMMA UnitsAre ==
  ASSUME SessionTypes
  PROVE  /\ Units \in SUBSET (1 .. Len(file)) /\ Len(file) \in Nat
         /\ file # << >> => Units # {}
         /\ \A i \in 1 .. Len(file) : file[i] \in Nalus /\ file[i].id = i
         /\ \A i \in 1 .. Len(file) : i \in Units <=> sendable(file[i])
<1>1. file \in Seq(Nalus) /\ Len(file) \in Nat /\ DOMAIN file = 1 .. Len(file)
  BY SessionAssumption, LenProperties DEF SessionTypes
<1>2. \A i \in 1 .. Len(file) : file[i] \in Nalus /\ file[i].id = i
  BY <1>1, SessionAssumption, ElementOfSeq DEF SessionTypes
<1>3. \A i \in 1 .. Len(file) : i \in Units <=> sendable(file[i])
  BY <1>1 DEF Units
<1>4. file # << >> => Units # {}
  BY <1>1, SessionAssumption DEF SessionTypes, Units, decodeAble, slice, sendable
<1>5. QED
  BY <1>1, <1>2, <1>3, <1>4 DEF Units

\* The unit read after the one at p is the one that follows it.
LEMMA FollowingIs ==
  ASSUME SessionTypes, NEW p, NEW d \in Units, After(p, d)
  PROVE  Following(file[p]) = file[d]
<1>1. /\ p \in Units /\ p \in 1 .. Len(file) /\ d \in 1 .. Len(file)
      /\ Units \in SUBSET Nat /\ file[p].id = p
  BY UnitsAre DEF After
<1>2. PICK later : later = {i \in Units : i > file[p].id}
  OBVIOUS
<1>3. later = {i \in Units : i > p}
  BY <1>1, <1>2
<1>4. CASE p < d
  <2>1. d \in later /\ later \in SUBSET Nat /\ \A i \in later : d <= i
    <3>1. \A i \in Units : i \in Nat /\ (i <= p \/ i >= d)
      BY <1>1, <1>4 DEF After
    <3>2. p \in Nat /\ d \in Nat
      BY <1>1
    <3>3. \A i : i \in later <=> i \in Units /\ i > p
      BY <1>3
    <3>4. d \in later
      BY <1>4, <3>2, <3>3
    <3>5. ASSUME NEW i \in later
          PROVE  i \in Nat /\ d <= i
      <4>1. i \in Units /\ i > p
        BY <3>3
      <4>2. i \in Nat /\ (i <= p \/ i >= d)
        BY <3>1, <4>1
      <4>3. QED
        BY <3>2, <4>1, <4>2
    <3>6. QED
      BY <3>4, <3>5
  <2>2. Min(later) = d /\ later # {}
    BY <2>1, SmallestIs
  <2>3. QED
    BY <1>2, <2>2, Zenon DEF Following
<1>5. CASE ~(p < d)
  <2>1. later = {} /\ \A i \in Units : d <= i
    <3>1. \A i \in Units : i \in Nat /\ d <= i /\ i <= p
      BY <1>1, <1>5 DEF After
    <3>2. p \in Nat
      BY <1>1
    <3>3. QED
      BY <1>3, <3>1, <3>2
  <2>2. Min(Units) = d
    BY <1>1, <2>1, SmallestIs
  <2>3. QED
    BY <1>2, <2>1, <2>2, Zenon DEF Following, FirstUnit
<1>6. QED
  BY <1>4, <1>5

\* The first unit to send that a stream reads is the first one of the file.
LEMMA FirstIs ==
  ASSUME SessionTypes, NEW d \in Units, \A i \in Units : i >= d
  PROVE  FirstUnit = file[d]
<1>1. Units \in SUBSET Nat /\ \A i \in Units : d <= i
  BY UnitsAre
<1>2. Min(Units) = d
  BY <1>1, SmallestIs
<1>3. QED
  BY <1>2 DEF FirstUnit

LEMMA ReadKeepsPlace ==
  ASSUME SessionInv, PlaceInv, NEW s, NEW n, NEW r, Reads(s, n, r)
  PROVE  PlaceInv'
<1> DEFINE h == s.encoder.last_nalu
           g == r.encoder.last_nalu
<1>1. /\ s.data \in 1 .. Len(file) /\ n = file[s.data] /\ n \in Nalus /\ n.id = s.data
      /\ r.data = IF s.data = Len(file) THEN 1 ELSE s.data + 1
      /\ file # << >> /\ stream \in Nat /\ stream > 0
      /\ UNCHANGED <<file, stream>> /\ streams[stream] = s /\ streams'[stream] = r
      /\ s.encoder \in Encoders /\ s.time_stamp \in Nat
  <2>1. s \in MediaStreams /\ stream \in 1 .. Len(streams) /\ streams \in Seq(MediaStreams)
    BY DEF Reads
  <2>2. s.encoder \in Encoders /\ s.time_stamp \in Nat /\ stream \in Nat /\ stream > 0
    BY <2>1, LenProperties DEF MediaStreams
  <2>3. file[s.data].id = s.data
    BY UnitsAre DEF Reads, SessionInv
  <2>4. QED
    BY <2>2, <2>3 DEF Reads
<1>2. /\ Units \in SUBSET (1 .. Len(file)) /\ Len(file) \in Nat /\ Units # {}
      /\ s.data \in Units <=> sendable(n)
  BY <1>1, UnitsAre DEF SessionInv
<1>3. g = IF sendable(n) THEN [nalu |-> n, stamp |-> s.time_stamp] ELSE h
  BY <1>1, InputIs DEF Reads
<1>4. IF h = NoNalu
      THEN \A i \in Units : i >= s.data
      ELSE h.nalu = file[h.nalu.id] /\ After(h.nalu.id, s.data)
  BY <1>1 DEF PlaceInv
<1>5. IF g = NoNalu
      THEN \A i \in Units : i >= r.data
      ELSE g.nalu = file[g.nalu.id] /\ After(g.nalu.id, r.data)
  <2>1. CASE sendable(n)
    <3>1. g # NoNalu /\ g.nalu = n /\ g.nalu.id = s.data
      <4>1. [nalu |-> n, stamp |-> s.time_stamp] \in [nalu : Nalus, stamp : Nat]
        BY <1>1
      <4>2. QED
        BY <1>1, <1>3, <2>1, <4>1, RtpAssumption
    <3>2. After(s.data, r.data)
      BY <1>1, <1>2, <2>1 DEF After
    <3>3. QED
      BY <1>1, <3>1, <3>2
  <2>2. CASE ~sendable(n) /\ h = NoNalu
    <3>1. \A i \in Units : i >= s.data /\ i # s.data
      BY <1>2, <1>4, <2>2
    <3>2. s.data # Len(file)
      <4>1. PICK i \in Units : i \in 1 .. Len(file)
        BY <1>2
      <4>2. i >= s.data /\ i # s.data /\ s.data \in Nat
        BY <1>1, <3>1, <4>1
      <4>3. QED
        BY <1>2, <4>1, <4>2
    <3>3. QED
      BY <1>1, <1>2, <1>3, <2>2, <3>1, <3>2
  <2>3. CASE ~sendable(n) /\ h # NoNalu
    <3>1. PICK p : p = h.nalu.id
      OBVIOUS
    <3>2. After(p, s.data) /\ p \in 1 .. Len(file) /\ s.data \notin Units
      BY <1>2, <1>4, <2>3, <3>1 DEF After
    <3>3. After(p, r.data)
      BY <1>1, <1>2, <3>2 DEF After
    <3>4. QED
      BY <1>3, <1>4, <2>3, <3>1, <3>3
  <2>4. QED
    BY <2>1, <2>2, <2>3
<1>6. Units' = Units /\ \A p, d : After(p, d)' <=> After(p, d)
  BY <1>1 DEF Units, After
<1>7. QED
  BY <1>1, <1>5, <1>6 DEF PlaceInv

\* The other steps leave the place of the newest stream alone, or begin a stream.
LEMMA PlaceKept ==
  ASSUME SessionInv, PlaceInv, RtspNext, ~ReadNalu
  PROVE  PlaceInv'
<1>1. UNCHANGED file /\ Units' = Units /\ \A p, d : After(p, d)' <=> After(p, d)
  BY DEF RtspNext, handleDescribe, handlePlay, HandleClose, Destroy, Loop, Expire, ReadFrameEnds, Restart, Elapse, Units, After
<1>2. CASE handleDescribe
  <2>1. /\ stream \in Nat /\ streams \in Seq(MediaStreams) /\ stream = Len(streams)
        /\ stream' = stream + 1 /\ streams' = Append(streams, NewStream(now))
    BY <1>2, LenProperties DEF handleDescribe, SessionInv, SessionTypes
  <2>2. PICK s : s = NewStream(now)
    OBVIOUS
  <2>3. s.data = 1 /\ s.encoder.last_nalu = NoNalu /\ s \in MediaStreams
    <3>1. NewEncoder \in Encoders
      BY RtpAssumption DEF NewEncoder, Encoders
    <3>2. QED
      BY <2>2, <3>1 DEF NewStream, NewEncoder, MediaStreams, SessionInv, SessionTypes
  <2>4. streams'[stream'] = s
    BY <2>1, <2>2, <2>3, AppendProperties
  <2>5. \A i \in Units : i >= 1
    BY UnitsAre DEF SessionInv
  <2>6. QED
    BY <1>1, <2>3, <2>4, <2>5 DEF PlaceInv
<1>3. CASE handlePlay
  <2>1. /\ stream \in 1 .. Len(streams) /\ streams \in Seq(MediaStreams) /\ stream = Len(streams)
        /\ streams' = [streams EXCEPT ![stream].send_cb = TRUE]
        /\ UNCHANGED stream
    BY <1>3, LenProperties DEF handlePlay, SessionInv, SessionTypes
  <2>2. /\ streams'[stream].data = streams[stream].data
        /\ streams'[stream].encoder = streams[stream].encoder
    <3>1. PICK s : s = streams[stream]
      OBVIOUS
    <3>2. s \in MediaStreams
      BY <2>1, <3>1, ElementOfSeq
    <3>3. streams'[stream] = [s EXCEPT !.send_cb = TRUE]
      BY <2>1, <3>1, LenProperties
    <3>4. QED
      BY <3>1, <3>2, <3>3 DEF MediaStreams
  <2>3. QED
    BY <1>1, <2>1, <2>2 DEF PlaceInv
<1>4. CASE HandleClose \/ Destroy \/ Expire \/ ReadFrameEnds \/ Restart \/ Elapse
  <2>1. UNCHANGED <<stream, streams>>
    BY <1>4 DEF HandleClose, Destroy, Expire, ReadFrameEnds, Restart, Elapse
  <2>2. QED
    BY <1>1, <2>1 DEF PlaceInv
<1>5. QED
  BY <1>2, <1>3, <1>4 DEF RtspNext, Loop

------------------------------------------------------------------------------
(* What has been sent. *)

Messages == [stream : Nat, packet : Packets]

\* MediaBefore, and what ArrivesWhole says of one message and of two neighbours, for
\* any messages w.
MediaIn(w, i) == {j \in 1 .. i - 1 : sendable(w[j].packet.nalu)}

WholeAt(w, i) ==
  LET q == w[i]
      p == w[Max(MediaIn(w, i))]
  IN  sendable(q.packet.nalu) =>
        IF MediaIn(w, i) # {} /\ p.stream = q.stream
        THEN Continues(p.packet, q.packet)
        ELSE /\ MediaIn(w, i) # {} => p.stream < q.stream
             /\ q.packet.start /\ q.packet.nalu = FirstUnit

InSequence(p, q) ==
  q.stream = p.stream =>
    /\ q.packet.seq = (p.packet.seq + 1) % SeqNumbers
    /\ p.packet.mark <=> p.packet.stamp # q.packet.stamp

Whole(w) ==
  /\ \A i \in 1 .. Len(w) : WholeAt(w, i)
  /\ \A i \in 2 .. Len(w) : InSequence(w[i - 1], w[i])

\* The messages w and what the encoder e will send fit together.
Joined(w, e) ==
  /\ LET media == MediaIn(w, Len(w) + 1)
         p == w[Max(media)]
     IN  IF media # {} /\ p.stream = stream
         THEN /\ p.packet.end /\ p.packet.to = p.packet.nalu.len
              /\ e.last_nalu # NoNalu
              /\ e.last_nalu.nalu = Following(p.packet.nalu)
         ELSE e.last_nalu # NoNalu => e.last_nalu.nalu = FirstUnit
  /\ Len(w) > 0 /\ w[Len(w)].stream = stream =>
       /\ e.last_nalu # NoNalu
       /\ e.seq = (w[Len(w)].packet.seq + 1) % SeqNumbers
       /\ w[Len(w)].packet.mark <=> w[Len(w)].packet.stamp # e.last_nalu.stamp

SentInv ==
  /\ sent \in Seq(Messages)
  /\ \A i \in 1 .. Len(sent) : sent[i].stream <= stream
  /\ state # "gone" /\ stream > 0 => Joined(sent, streams[stream].encoder)

RtspInv == SessionInv /\ PlaceInv /\ SentInv /\ ArrivesWhole

LEMMA ArrivesWholeIs ==
  ASSUME sent \in Seq(Messages)
  PROVE  ArrivesWhole <=> Whole(sent)
<1>1. DOMAIN sent = 1 .. Len(sent)
  BY LenProperties
<1>2. \A i : MediaBefore(i) = MediaIn(sent, i)
  BY DEF MediaBefore, MediaIn
<1>3. QED
  BY <1>1, <1>2, Zenon DEF ArrivesWhole, Whole, WholeAt, InSequence

LEMMA NextNumber ==
  ASSUME NEW a \in Nat
  PROVE  (a + 1) % SeqNumbers = ((a % SeqNumbers) + 1) % SeqNumbers
<1>1. PICK N \in Nat \ {0, 1} : N = SeqNumbers
  BY RtpAssumption
<1>2. PICK r : r = a % N
  OBVIOUS
<1>3. PICK q : q = a \div N
  OBVIOUS
<1>4. r \in 0 .. N - 1 /\ q \in Nat /\ a = N * q + r
  BY <1>1, <1>2, <1>3
<1>5. CASE r < N - 1
  <2>1. a + 1 = N * q + (r + 1) /\ r + 1 \in 0 .. N - 1
    BY <1>1, <1>4, <1>5
  <2>2. (a + 1) % N = r + 1 /\ (r + 1) % N = r + 1
    BY <1>1, <1>4, <2>1
  <2>3. QED
    BY <1>1, <1>2, <2>2
<1>6. CASE r = N - 1
  <2>1. a + 1 = N * (q + 1) /\ r + 1 = N
    BY <1>1, <1>4, <1>6
  <2>2. (a + 1) % N = 0 /\ (r + 1) % N = 0
    BY <1>1, <1>4, <2>1
  <2>3. QED
    BY <1>1, <1>2, <2>2
<1>7. QED
  BY <1>1, <1>4, <1>5, <1>6

LEMMA GreatestExists ==
  ASSUME NEW n \in Nat, NEW S \in SUBSET (1 .. n), S # {}
  PROVE  Max(S) \in S /\ \A y \in S : y <= Max(S)
<1>1. PICK T : T = {n - x : x \in S}
  OBVIOUS
<1>2. T \in SUBSET Nat /\ T # {}
  <2>1. \A x \in S : n - x \in Nat
    OBVIOUS
  <2>2. QED
    BY <1>1, <2>1
<1>3. PICK k \in T : \A y \in T : k <= y
  BY <1>2, SmallestExists
<1>4. PICK m \in S : k = n - m
  BY <1>1
<1>5. \A y \in S : m >= y
  BY <1>1, <1>2, <1>3, <1>4
<1>6. PICK g : g = Max(S)
  OBVIOUS
<1>7. g \in S /\ \A y \in S : g >= y
  BY <1>5, <1>6, Zenon DEF Max
<1>8. QED
  BY <1>6, <1>7

\* The packets P behind the messages w.
Extended(w, P, new) ==
  /\ new \in Seq(Messages) /\ Len(new) = Len(w) + Len(P)
  /\ \A i \in 1 .. Len(w) : new[i] = w[i]
  /\ \A k \in 1 .. Len(P) : /\ new[Len(w) + k].stream = stream
                            /\ new[Len(w) + k].packet = P[k]

LEMMA SendExtends ==
  ASSUME NEW w \in Seq(Messages), stream \in Nat, NEW P \in Seq(Packets),
         NEW new, new = w \o [k \in DOMAIN P |-> [stream |-> stream, packet |-> P[k]]]
  PROVE  Extended(w, P, new)
<1>1. /\ Len(P) \in Nat /\ Len(w) \in Nat /\ DOMAIN P = 1 .. Len(P)
      /\ \A k \in 1 .. Len(P) : P[k] \in Packets
  BY LenProperties, ElementOfSeq
<1>2. PICK T : T = [k \in 1 .. Len(P) |-> [stream |-> stream, packet |-> P[k]]]
  OBVIOUS
<1>3. /\ \A k \in 1 .. Len(P) : T[k].stream = stream /\ T[k].packet = P[k] /\ T[k] \in Messages
      /\ DOMAIN T = 1 .. Len(P)
  BY <1>1, <1>2 DEF Messages
<1>4. T \in Seq(Messages) /\ Len(T) = Len(P)
  <2>1. T = [k \in 1 .. Len(P) |-> T[k]]
    BY <1>2, <1>3
  <2>2. T \in Seq(Messages)
    BY <1>1, <1>3, <2>1, IsASeq
  <2>3. QED
    BY <1>1, <1>3, <2>2, LenProperties
<1>5. new = w \o T
  BY <1>1, <1>2
<1>6. new \in Seq(Messages) /\ Len(new) = Len(w) + Len(T)
  BY <1>4, <1>5, ConcatProperties
<1>7. \A i \in 1 .. Len(w) : new[i] = w[i]
  BY ONLY <1>4, <1>5, ConcatProperties, w \in Seq(Messages)
<1>8. \A k \in 1 .. Len(T) : new[Len(w) + k] = T[k]
  BY ONLY <1>4, <1>5, ConcatProperties, w \in Seq(Messages)
<1>9. QED
  BY <1>3, <1>4, <1>6, <1>7, <1>8 DEF Extended

\* The last message carries the end of the unit h.
Ended(new, e, h, mark, len) ==
  LET p == new[Len(new)]
  IN  /\ p.stream = stream /\ p.packet.nalu = h.nalu
      /\ p.packet.end /\ p.packet.to = h.nalu.len
      /\ p.packet.seq = (e.seq + len - 1) % SeqNumbers
      /\ p.packet.stamp = h.stamp
      /\ p.packet.mark <=> mark

LEMMA UnitWhole ==
  ASSUME SessionTypes, stream \in Nat, NEW w \in Seq(Messages),
         \A i \in 1 .. Len(w) : w[i].stream <= stream, Whole(w),
         NEW e \in Encoders, NEW h \in Held, e.last_nalu = h, Joined(w, e),
         NEW mark \in BOOLEAN, NEW P, Carrying(P, e, h, mark),
         NEW new, Extended(w, P, new)
  PROVE  Whole(new) /\ P \in Seq(Packets) /\ Len(P) \in Nat /\ Len(P) >= 1 /\ Ended(new, e, h, mark, Len(P))
<1>1. PICK C, U \in Seq(Packets) :
        /\ P = C \o U
        /\ \A k \in 1 .. Len(C) : ~sendable(C[k].nalu)
        /\ Carries(U, h.nalu, h.nalu.len)
        /\ Framed(P, e.seq, h.stamp, mark)
  BY DEF Carrying
<1>2. h.nalu \in Nalus /\ sendable(h.nalu) /\ h.stamp \in Nat /\ h # NoNalu /\ e.seq \in 0 .. SeqNumbers - 1
  BY RtpAssumption DEF Held, Encoders
<1> DEFINE m == Len(w)
           c == Len(C)
           u == Len(U)
<1>3. m \in Nat /\ c \in Nat /\ u \in Nat /\ u >= 1
  BY <1>1, LenProperties, EmptySeq DEF Carries
<1>4. /\ P \in Seq(Packets) /\ Len(P) = c + u
      /\ \A k \in 1 .. c : P[k] = C[k]
      /\ \A k \in 1 .. u : P[c + k] = U[k]
  BY <1>1, ConcatProperties
<1>5. /\ Len(new) = m + c + u /\ new \in Seq(Messages)
      /\ \A i \in 1 .. m : new[i] = w[i]
      /\ \A k \in 1 .. c + u : new[m + k].stream = stream /\ new[m + k].packet = P[k]
  <2>1. /\ new \in Seq(Messages) /\ Len(new) = m + Len(P)
        /\ \A i \in 1 .. m : new[i] = w[i]
        /\ \A k \in 1 .. Len(P) : new[m + k].stream = stream /\ new[m + k].packet = P[k]
    BY DEF Extended
  <2>2. Len(P) = c + u /\ m + (c + u) = m + c + u
    BY <1>3, <1>4
  <2>3. QED
    BY <2>1, <2>2
<1> HIDE DEF m, c, u
<1>6. \A k \in 1 .. c : new[m + k].packet = C[k]
  BY <1>3, <1>4, <1>5
<1>7. \A k \in 1 .. u : new[m + c + k].stream = stream /\ new[m + c + k].packet = U[k]
  <2>1. SUFFICES ASSUME NEW k \in 1 .. u
                 PROVE  new[m + c + k].stream = stream /\ new[m + c + k].packet = U[k]
    OBVIOUS
  <2>2. PICK j : j = c + k
    OBVIOUS
  <2>3. j \in 1 .. c + u /\ m + j = m + c + k /\ P[j] = U[k]
    BY <1>3, <1>4, <2>2
  <2>4. QED
    BY <1>5, <2>3
<1>8. \A k \in 1 .. u : /\ U[k].nalu = h.nalu
                        /\ U[k].start <=> k = 1
                        /\ U[k].end <=> k = u
                        /\ k > 1 => U[k].from = U[k - 1].to
  <2>1. SUFFICES ASSUME NEW k \in 1 .. u
                 PROVE  /\ U[k].nalu = h.nalu
                        /\ U[k].start <=> k = 1
                        /\ U[k].end <=> k = u
                        /\ k > 1 => U[k].from = U[k - 1].to
    OBVIOUS
  <2>2. U[k].nalu = h.nalu /\ (U[k].start <=> k = 1) /\ (U[k].end <=> k = u)
    BY <1>1 DEF Carries, u
  <2>3. ASSUME k > 1
        PROVE  U[k].from = U[k - 1].to
    <3>1. PICK j : j = k - 1
      OBVIOUS
    <3>2. j \in 1 .. u - 1 /\ j + 1 = k
      BY <1>3, <2>3, <3>1
    <3>3. U[j + 1].from = U[j].to
      BY <1>1, <3>2 DEF Carries, u
    <3>4. QED
      BY <3>1, <3>2, <3>3
  <2>4. QED
    BY <2>2, <2>3
<1>9. U[u].to = h.nalu.len
  BY <1>1 DEF Carries, u
<1>10. \A i \in 1 .. m + c + 1 : MediaIn(new, i) = MediaIn(w, IF i <= m THEN i ELSE m + 1)
  <2>1. SUFFICES ASSUME NEW i \in 1 .. m + c + 1, NEW j
                 PROVE  j \in MediaIn(new, i) <=> j \in MediaIn(w, IF i <= m THEN i ELSE m + 1)
    BY Zenon
  <2>2. CASE j \in 1 .. m
    <3>1. new[j] = w[j]
      BY <1>5, <2>2
    <3>2. j \in 1 .. i - 1 <=> j \in 1 .. (IF i <= m THEN i ELSE m + 1) - 1
      BY <1>3, <2>2
    <3>3. QED
      BY <3>1, <3>2, Zenon DEF MediaIn
  <2>3. CASE j \in Nat /\ j > m /\ j < i
    <3>1. PICK k \in 1 .. c : j = m + k
      <4>1. j - m \in 1 .. c /\ j = m + (j - m)
        BY <1>3, <2>3
      <4>2. QED
        BY <4>1
    <3>2. ~sendable(new[j].packet.nalu)
      BY <1>1, <1>6, <3>1 DEF c
    <3>3. QED
      BY <1>3, <2>3, <3>2 DEF MediaIn
  <2>4. CASE ~(j \in 1 .. m) /\ ~(j \in Nat /\ j > m /\ j < i)
    BY <1>3, <2>4 DEF MediaIn
  <2>5. QED
    BY <2>2, <2>3, <2>4
<1>11. \A i \in 1 .. m + 1 : MediaIn(w, i) # {} => Max(MediaIn(w, i)) \in 1 .. m
  <2>1. SUFFICES ASSUME NEW i \in 1 .. m + 1, MediaIn(w, i) # {}
                 PROVE  Max(MediaIn(w, i)) \in 1 .. m
    OBVIOUS
  <2>2. MediaIn(w, i) \in SUBSET (1 .. m)
    BY <1>3 DEF MediaIn
  <2>3. QED
    BY <1>3, <2>1, <2>2, GreatestExists
<1>12. \A i \in 1 .. m : WholeAt(new, i)
  <2>1. SUFFICES ASSUME NEW i \in 1 .. m
                 PROVE  WholeAt(new, i)
    OBVIOUS
  <2>2. MediaIn(new, i) = MediaIn(w, i) /\ new[i] = w[i]
    BY <1>3, <1>5, <1>10
  <2>3. MediaIn(w, i) # {} => new[Max(MediaIn(w, i))] = w[Max(MediaIn(w, i))]
    BY <1>3, <1>5, <1>11
  <2>4. WholeAt(w, i)
    BY DEF Whole, m
  <2>5. QED
    BY <2>2, <2>3, <2>4, Zenon DEF WholeAt
<1>13. \A k \in 1 .. c : WholeAt(new, m + k)
  BY <1>1, <1>6 DEF WholeAt, c
<1>14. WholeAt(new, m + c + 1)
  <2>1. PICK media : media = MediaIn(w, m + 1)
    OBVIOUS
  <2>2. MediaIn(new, m + c + 1) = media
    <3>1. m + c + 1 \in 1 .. m + c + 1 /\ (m + c + 1 <= m => m + c + 1 = m + 1)
      BY <1>3
    <3>2. QED
      BY <1>3, <1>10, <2>1, <3>1
  <2>3. PICK q : q = new[m + c + 1]
    OBVIOUS
  <2>4. q.stream = stream /\ q.packet.nalu = h.nalu /\ q.packet.start
    BY <1>3, <1>7, <1>8, <2>3
  <2>5. PICK p : p = w[Max(media)]
    OBVIOUS
  <2>6. media # {} => new[Max(media)] = p /\ p.stream <= stream /\ p.stream \in Nat
    <3>1. SUFFICES ASSUME media # {}
                   PROVE  new[Max(media)] = p /\ p.stream <= stream /\ p.stream \in Nat
      OBVIOUS
    <3>2. Max(media) \in 1 .. m
      BY <1>3, <1>11, <2>1, <3>1
    <3>3. p \in Messages
      BY <2>5, <3>2, ElementOfSeq DEF m
    <3>4. QED
      BY <1>5, <2>5, <3>2, <3>3 DEF Messages, m
  <2>7. IF media # {} /\ p.stream = stream
        THEN p.packet.end /\ p.packet.to = p.packet.nalu.len /\ h.nalu = Following(p.packet.nalu)
        ELSE h.nalu = FirstUnit
    BY <1>2, <2>1, <2>5, Zenon DEF Joined, m
  <2>8. IF media # {} /\ p.stream = q.stream
        THEN Continues(p.packet, q.packet)
        ELSE /\ media # {} => p.stream < q.stream
             /\ q.packet.start /\ q.packet.nalu = FirstUnit
    BY <2>4, <2>6, <2>7 DEF Continues
  <2>9. QED
    BY <2>2, <2>3, <2>5, <2>6, <2>8, Zenon DEF WholeAt
<1>15. \A k \in 2 .. u : WholeAt(new, m + c + k)
  <2>1. SUFFICES ASSUME NEW k \in 2 .. u
                 PROVE  WholeAt(new, m + c + k)
    OBVIOUS
  <2>2. PICK i, j : i = m + c + k /\ j = m + c + (k - 1)
    OBVIOUS
  <2>3. k \in 1 .. u /\ k - 1 \in 1 .. u /\ k > 1 /\ k # 1 /\ k - 1 # u /\ i - 1 = j /\ j \in Nat /\ j >= 1
    BY <1>3, <2>2
  <2>4. /\ new[i].stream = stream /\ new[i].packet = U[k]
        /\ new[j].stream = stream /\ new[j].packet = U[k - 1]
    BY <1>7, <2>2, <2>3
  <2>5. Max(MediaIn(new, i)) = j /\ MediaIn(new, i) # {}
    <3>1. MediaIn(new, i) \in SUBSET Nat /\ \A y \in MediaIn(new, i) : y <= j
      BY <2>3 DEF MediaIn
    <3>2. j \in MediaIn(new, i)
      BY <1>2, <1>8, <2>3, <2>4 DEF MediaIn
    <3>3. QED
      BY <3>1, <3>2, GreatestIs
  <2>6. Continues(U[k - 1], U[k])
    BY <1>8, <2>3 DEF Continues
  <2>7. QED
    BY <2>2, <2>4, <2>5, <2>6 DEF WholeAt
<1>16. \A i \in 1 .. Len(new) : WholeAt(new, i)
  <2>1. SUFFICES ASSUME NEW i \in 1 .. m + c + u
                 PROVE  WholeAt(new, i)
    BY <1>5
  <2>2. CASE i <= m
    BY <1>3, <1>12, <2>2
  <2>3. CASE i > m /\ i <= m + c
    <3>1. i - m \in 1 .. c /\ m + (i - m) = i
      BY <1>3, <2>3
    <3>2. QED
      BY <1>13, <3>1
  <2>4. CASE i = m + c + 1
    BY <1>14, <2>4
  <2>5. CASE i > m + c + 1
    <3>1. i - (m + c) \in 2 .. u /\ m + c + (i - (m + c)) = i
      BY <1>3, <2>5
    <3>2. QED
      BY <1>15, <3>1
  <2>6. QED
    BY <1>3, <2>2, <2>3, <2>4, <2>5
<1>17. \A k \in 1 .. c + u : /\ new[m + k].packet.seq = (e.seq + k - 1) % SeqNumbers
                             /\ new[m + k].packet.stamp = h.stamp
                             /\ new[m + k].packet.mark <=> mark /\ k = c + u
  <2>1. SUFFICES ASSUME NEW k \in 1 .. c + u
                 PROVE  /\ new[m + k].packet.seq = (e.seq + k - 1) % SeqNumbers
                        /\ new[m + k].packet.stamp = h.stamp
                        /\ new[m + k].packet.mark <=> mark /\ k = c + u
    OBVIOUS
  <2>2. k \in 1 .. Len(P) /\ Len(P) = c + u /\ new[m + k].packet = P[k]
    BY <1>4, <1>5
  <2>3. /\ P[k].seq = (e.seq + k - 1) % SeqNumbers
        /\ P[k].stamp = h.stamp
        /\ P[k].mark <=> mark /\ k = Len(P)
    BY <1>1, <2>2, Zenon DEF Framed
  <2>4. QED
    BY <2>2, <2>3, Zenon
<1>18. \A i \in 2 .. Len(new) : InSequence(new[i - 1], new[i])
  <2>1. SUFFICES ASSUME NEW i \in 2 .. m + c + u
                 PROVE  InSequence(new[i - 1], new[i])
    BY <1>5
  <2>2. CASE i <= m
    <3>1. i - 1 \in 1 .. m /\ i \in 1 .. m /\ i \in 2 .. m
      BY <1>3, <2>2
    <3>2. InSequence(w[i - 1], w[i])
      BY <3>1 DEF Whole, m
    <3>3. QED
      BY <1>5, <3>1, <3>2
  <2>3. CASE i = m + 1
    <3>1. m \in 1 .. m /\ 1 \in 1 .. c + u /\ m > 0 /\ i - 1 = m
      BY <1>3, <2>3
    <3>2. w[m].stream = stream =>
            /\ e.seq = (w[m].packet.seq + 1) % SeqNumbers
            /\ w[m].packet.mark <=> w[m].packet.stamp # h.stamp
      BY <3>1, Zenon DEF Joined, m
    <3>3. (e.seq + 1 - 1) % SeqNumbers = e.seq
      <4>1. PICK N \in Nat \ {0, 1} : N = SeqNumbers
        BY RtpAssumption
      <4>2. PICK a \in 0 .. N - 1 : a = e.seq
        BY <1>2, <4>1
      <4>3. (a + 1 - 1) % N = a
        <5>1. a + 1 - 1 = a
          BY <4>1, <4>2
        <5>2. N \in Nat /\ N > 0 /\ a \in Nat /\ a < N /\ a = N * 0 + a
          BY <4>1, <4>2
        <5>3. a % N = a
          BY <5>2
        <5>4. QED
          BY <5>1, <5>3
      <4>4. QED
        BY <4>1, <4>2, <4>3
    <3>4. new[i].stream = stream /\ new[i].packet.seq = e.seq /\ new[i].packet.stamp = h.stamp
      BY <1>5, <1>17, <2>3, <3>1, <3>3
    <3>5. new[i - 1] = w[m]
      BY <1>5, <3>1
    <3>6. QED
      BY <3>2, <3>4, <3>5, Zenon DEF InSequence
  <2>4. CASE i > m + 1
    <3>1. PICK k, l : k = i - m /\ l = k - 1
      OBVIOUS
    <3>2. k \in 1 .. c + u /\ l \in 1 .. c + u /\ l # c + u /\ m + k = i /\ m + l = i - 1
      BY <1>3, <2>4, <3>1
    <3>3. PICK b \in Nat : b = e.seq
      BY <1>2, RtpAssumption
    <3>8. PICK a \in Nat : a = b + l - 1 /\ b + k - 1 = a + 1
      <4>1. b + l - 1 \in Nat /\ b + k - 1 = (b + l - 1) + 1
        BY <1>3, <3>1, <3>2
      <4>2. QED
        BY <4>1
    <3>4. e.seq + k - 1 = a + 1 /\ e.seq + l - 1 = a
      BY <3>3, <3>8
    <3>5. (a + 1) % SeqNumbers = ((a % SeqNumbers) + 1) % SeqNumbers
      BY NextNumber
    <3>6. /\ new[i].packet.seq = (a + 1) % SeqNumbers /\ new[i].packet.stamp = h.stamp
          /\ new[i - 1].packet.seq = a % SeqNumbers /\ new[i - 1].packet.stamp = h.stamp
          /\ ~new[i - 1].packet.mark
      BY <1>17, <3>2, <3>4
    <3>7. QED
      BY <3>5, <3>6 DEF InSequence
  <2>5. QED
    BY <1>3, <2>2, <2>3, <2>4
<1>19. Ended(new, e, h, mark, Len(P))
  <2>1. u \in 1 .. u /\ c + u \in 1 .. c + u /\ m + c + u = m + (c + u)
    BY <1>3
  <2>2. PICK p : p = new[m + (c + u)]
    OBVIOUS
  <2>3. /\ p.packet.seq = (e.seq + (c + u) - 1) % SeqNumbers /\ p.packet.stamp = h.stamp
        /\ p.packet.mark <=> mark
        /\ p.stream = stream
    BY <1>5, <1>17, <2>1, <2>2
  <2>4. p.packet.nalu = h.nalu /\ p.packet.end /\ p.packet.to = h.nalu.len
    BY <1>7, <1>8, <1>9, <2>1, <2>2
  <2>5. new[Len(new)] = p /\ Len(P) = c + u
    BY <1>4, <1>5, <2>1, <2>2
  <2>6. QED
    BY <2>3, <2>4, <2>5, Zenon DEF Ended
<1>20. QED
  BY <1>3, <1>4, <1>16, <1>18, <1>19 DEF Whole

\* What is sent when a unit n to send is read, and what joins it.
LEMMA UnitSent ==
  ASSUME RtspInv, NEW s, NEW n, NEW r, Reads(s, n, r),
         sendable(n), s.encoder.last_nalu # NoNalu, state # "gone"
  PROVE  /\ sent' \in Seq(Messages) /\ Whole(sent')
         /\ \A i \in 1 .. Len(sent') : sent'[i].stream <= stream
         /\ Joined(sent', r.encoder)
<1> DEFINE e == s.encoder
           h == e.last_nalu
<1>1. /\ stream \in Nat /\ stream > 0 /\ SessionTypes /\ sent \in Seq(Messages)
      /\ \A i \in 1 .. Len(sent) : sent[i].stream <= stream
      /\ Whole(sent)
      /\ Joined(sent, e)
      /\ PlaceInv
  <2>1. stream \in Nat /\ stream > 0 /\ streams[stream] = s
    BY LenProperties DEF Reads
  <2>2. Whole(sent)
    BY ArrivesWholeIs DEF RtspInv, SentInv
  <2>3. QED
    BY <2>1, <2>2 DEF RtspInv, SentInv, SessionInv
<1>2. e \in Encoders /\ h \in Held /\ s.time_stamp \in Nat /\ n \in Nalus
  <2>1. e \in Encoders /\ s.time_stamp \in Nat /\ n \in Nalus
    BY DEF Reads, MediaStreams
  <2>2. QED
    BY <2>1 DEF Encoders
<1>3. PICK P : P = PacketsFor(e, n, s.time_stamp)
  OBVIOUS
<1>4. PICK mark \in BOOLEAN : mark <=> h.stamp # s.time_stamp
  OBVIOUS
<1>5. Carrying(P, e, h, mark)
  BY <1>2, <1>3, <1>4, PacketsAre
<1>6. P \in Seq(Packets)
  BY <1>5, ConcatProperties DEF Carrying
<1>7. PICK new : new = sent'
  OBVIOUS
<1>8. new = sent \o [k \in DOMAIN P |-> [stream |-> stream, packet |-> P[k]]]
  BY <1>3, <1>7 DEF Reads, Send
<1>9. Extended(sent, P, new)
  BY <1>1, <1>6, <1>8, SendExtends
<1>10. Whole(new) /\ Len(P) \in Nat /\ Len(P) >= 1 /\ Ended(new, e, h, mark, Len(P))
  <2>1. PICK f : f = e
    OBVIOUS
  <2>2. PICK g : g = f.last_nalu
    OBVIOUS
  <2>3. f \in Encoders /\ g \in Held /\ Joined(sent, f) /\ Carrying(P, f, g, mark)
    BY <1>1, <1>2, <1>5, <2>1, <2>2
  <2>4. Whole(new) /\ Len(P) \in Nat /\ Len(P) >= 1 /\ Ended(new, f, g, mark, Len(P))
    BY ONLY <1>1, <1>4, <1>9, <2>2, <2>3, UnitWhole
  <2>5. QED
    BY <2>1, <2>2, <2>4
<1>11. /\ new \in Seq(Messages) /\ Len(new) = Len(sent) + Len(P) /\ Len(sent) \in Nat
       /\ Len(new) \in Nat /\ Len(new) >= 1
       /\ \A i \in 1 .. Len(sent) : new[i] = sent[i]
       /\ \A k \in 1 .. Len(P) : new[Len(sent) + k].stream = stream
  <2>1. Len(sent) \in Nat
    BY <1>1, LenProperties
  <2>2. /\ new \in Seq(Messages) /\ Len(new) = Len(sent) + Len(P)
        /\ \A i \in 1 .. Len(sent) : new[i] = sent[i]
        /\ \A k \in 1 .. Len(P) : new[Len(sent) + k].stream = stream
    BY ONLY <1>9 DEF Extended
  <2>3. Len(new) \in Nat /\ Len(new) >= 1
    BY ONLY <1>10, <2>1, <2>2
  <2>4. QED
    BY ONLY <2>1, <2>2, <2>3
<1>12. \A i \in 1 .. Len(new) : new[i].stream <= stream
  <2>1. SUFFICES ASSUME NEW i \in 1 .. Len(new)
                 PROVE  new[i].stream <= stream
    OBVIOUS
  <2>2. CASE i <= Len(sent)
    BY <1>1, <1>11, <2>2
  <2>3. CASE i > Len(sent)
    <3>1. i - Len(sent) \in 1 .. Len(P) /\ Len(sent) + (i - Len(sent)) = i
      BY <1>10, <1>11, <2>3
    <3>2. PICK k \in 1 .. Len(P) : Len(sent) + k = i
      BY <3>1
    <3>3. new[i].stream = stream
      BY <1>11, <3>2
    <3>4. QED
      BY <1>1, <3>3
  <2>4. QED
    BY <1>11, <2>2, <2>3
<1>13. PICK p : p = new[Len(new)]
  OBVIOUS
<1>14. /\ p.stream = stream /\ p.packet.nalu = h.nalu
       /\ p.packet.end /\ p.packet.to = h.nalu.len
       /\ p.packet.seq = (e.seq + Len(P) - 1) % SeqNumbers
       /\ p.packet.stamp = h.stamp
       /\ p.packet.mark <=> mark
  BY <1>10, <1>13, Zenon DEF Ended
<1>15. PICK f : f = r.encoder
  OBVIOUS
<1>16. /\ f.last_nalu = [nalu |-> n, stamp |-> s.time_stamp]
       /\ f.seq = (e.seq + Len(P)) % SeqNumbers
  <2>1. f = inputFrame(e, n, s.time_stamp)
    BY <1>15 DEF Reads
  <2>2. QED
    BY <1>2, <1>3, <2>1, InputIs
<1>17. f.last_nalu # NoNalu /\ f.last_nalu.nalu = n /\ f.last_nalu.stamp = s.time_stamp
  <2>1. [nalu |-> n, stamp |-> s.time_stamp] \in [nalu : Nalus, stamp : Nat]
    BY <1>2
  <2>2. QED
    BY <1>16, <2>1, RtpAssumption
<1>18. Following(h.nalu) = n
  <2>1. /\ s.data \in 1 .. Len(file) /\ n = file[s.data] /\ streams[stream] = s /\ file # << >>
    BY DEF Reads
  <2>2. s.data \in Units
    BY <1>1, <2>1, UnitsAre
  <2>3. h.nalu = file[h.nalu.id] /\ After(h.nalu.id, s.data)
    BY <1>1, <2>1 DEF PlaceInv
  <2>4. PICK q : q = h.nalu.id
    OBVIOUS
  <2>5. Following(file[q]) = file[s.data]
    BY <1>1, <2>2, <2>3, <2>4, FollowingIs
  <2>6. QED
    BY <2>1, <2>3, <2>4, <2>5
<1>19. f.seq = (p.packet.seq + 1) % SeqNumbers
  <2>1. PICK b \in Nat : b = e.seq
    BY <1>2, RtpAssumption DEF Encoders
  <2>2. PICK a \in Nat : a = b + Len(P) - 1 /\ a + 1 = b + Len(P)
    <3>1. b + Len(P) - 1 \in Nat /\ (b + Len(P) - 1) + 1 = b + Len(P)
      BY <1>10
    <3>2. QED
      BY <3>1
  <2>3. (a + 1) % SeqNumbers = ((a % SeqNumbers) + 1) % SeqNumbers
    BY NextNumber
  <2>4. p.packet.seq = a % SeqNumbers /\ f.seq = (a + 1) % SeqNumbers
    BY <1>14, <1>16, <2>1, <2>2
  <2>5. QED
    BY <2>3, <2>4
<1>20. Max(MediaIn(new, Len(new) + 1)) = Len(new) /\ MediaIn(new, Len(new) + 1) # {}
  <2>1. PICK l \in Nat : l = Len(new) /\ l >= 1
    BY <1>11
  <2>2. MediaIn(new, l + 1) \in SUBSET Nat /\ \A y \in MediaIn(new, l + 1) : y <= l
    BY DEF MediaIn
  <2>3. l \in MediaIn(new, l + 1)
    <3>1. sendable(new[l].packet.nalu)
      BY <1>2, <1>13, <1>14, <2>1 DEF Held
    <3>2. QED
      BY <2>1, <3>1 DEF MediaIn
  <2>4. QED
    BY <2>1, <2>2, <2>3, GreatestIs
<1>21. Joined(new, f)
  <2>1. p.packet.mark <=> p.packet.stamp # f.last_nalu.stamp
    BY <1>4, <1>14, <1>17, Zenon
  <2>2. QED
    BY <1>13, <1>14, <1>17, <1>18, <1>19, <1>20, <2>1, Zenon DEF Joined
<1>22. QED
  BY <1>7, <1>10, <1>11, <1>12, <1>15, <1>21

\* Nothing is sent: a parameter set is read, or the first unit of a stream, or the
\* connection is gone.
LEMMA NothingSent ==
  ASSUME RtspInv, NEW s, NEW n, NEW r, Reads(s, n, r),
         ~sendable(n) \/ s.encoder.last_nalu = NoNalu \/ state = "gone"
  PROVE  /\ sent' = sent
         /\ state # "gone" => Joined(sent, r.encoder)
<1> DEFINE e == s.encoder
<1>1. /\ stream > 0 /\ SessionTypes /\ sent \in Seq(Messages)
      /\ state # "gone" => Joined(sent, e)
      /\ PlaceInv
  <2>1. stream > 0 /\ streams[stream] = s
    BY LenProperties DEF Reads
  <2>2. QED
    BY <2>1 DEF RtspInv, SentInv, SessionInv
<1>2. e \in Encoders /\ s.time_stamp \in Nat /\ n \in Nalus
  BY DEF Reads, MediaStreams
<1>3. PICK P : P = PacketsFor(e, n, s.time_stamp)
  OBVIOUS
<1>4. state # "gone" => P = << >>
  BY <1>3, Zenon DEF PacketsFor
<1>5. sent' = sent
  <2>1. CASE state = "gone"
    BY <2>1, Zenon DEF Reads, Send
  <2>2. CASE state # "gone"
    <3>1. P = << >>
      BY <1>4, <2>2
    <3>2. PICK T : T = [k \in DOMAIN P |-> [stream |-> stream, packet |-> P[k]]]
      OBVIOUS
    <3>3. T = << >>
      BY <3>1, <3>2
    <3>4. sent' = sent \o T
      BY <1>3, <2>2, <3>2 DEF Reads, Send
    <3>5. QED
      BY <1>1, <3>3, <3>4, ConcatEmptySeq
  <2>3. QED
    BY <2>1, <2>2
<1>6. PICK f : f = r.encoder
  OBVIOUS
<1>7. f = inputFrame(e, n, s.time_stamp)
  BY <1>6 DEF Reads
<1>8. CASE ~sendable(n)
  <2>1. f.last_nalu = e.last_nalu /\ f.seq = e.seq
    <3>1. /\ f.last_nalu = IF sendable(n) THEN [nalu |-> n, stamp |-> s.time_stamp] ELSE e.last_nalu
          /\ f.seq = IF sendable(n) THEN (e.seq + Len(PacketsFor(e, n, s.time_stamp))) % SeqNumbers ELSE e.seq
      BY <1>2, <1>7, InputIs, SMTT(60)
    <3>2. QED
      BY <1>8, <3>1
  <2>2. QED
    BY <1>1, <1>5, <1>6, <2>1, Zenon DEF Joined
<1>9. CASE sendable(n) /\ e.last_nalu = NoNalu /\ state # "gone"
  <2>1. f.last_nalu = [nalu |-> n, stamp |-> s.time_stamp]
    BY <1>2, <1>7, <1>9, InputIs
  <2>2. f.last_nalu # NoNalu /\ f.last_nalu.nalu = n
    <3>1. [nalu |-> n, stamp |-> s.time_stamp] \in [nalu : Nalus, stamp : Nat]
      BY <1>2
    <3>2. QED
      BY <2>1, <3>1, RtpAssumption
  <2>3. FirstUnit = n
    <3>1. s.data \in 1 .. Len(file) /\ n = file[s.data] /\ streams[stream] = s /\ file # << >>
      BY DEF Reads
    <3>2. s.data \in Units
      BY <1>1, <1>9, <3>1, UnitsAre
    <3>3. \A i \in Units : i >= s.data
      BY <1>1, <1>9, <3>1 DEF PlaceInv
    <3>4. QED
      BY <1>1, <3>1, <3>2, <3>3, FirstIs
  <2>4. Joined(sent, e)
    BY <1>1, <1>9
  <2>5. QED
    BY <1>5, <1>6, <1>9, <2>2, <2>3, <2>4, Zenon DEF Joined
<1>10. QED
  BY <1>5, <1>8, <1>9

\* What is said of the messages depends on the file and on the newest stream alone.
LEMMA SameFile ==
  ASSUME UNCHANGED file
  PROVE  /\ Whole(sent)' <=> Whole(sent')
         /\ UNCHANGED stream => Joined(sent, streams[stream].encoder)' <=> Joined(sent', streams'[stream].encoder)
<1>1. Units' = Units
  BY DEF Units
<1>2. FirstUnit' = FirstUnit
  BY <1>1 DEF FirstUnit
<1>3. \A i : MediaIn(sent, i)' = MediaIn(sent', i)
  BY DEF MediaIn
<1>4. ASSUME NEW i
      PROVE  Following(sent[Max(MediaIn(sent, i))].packet.nalu)' = Following(sent'[Max(MediaIn(sent', i))].packet.nalu)
  BY <1>1, <1>2, <1>3 DEF Following
<1>5. ASSUME NEW i
      PROVE  WholeAt(sent, i)' <=> WholeAt(sent', i)
  BY <1>2, <1>3, <1>4 DEF WholeAt, Continues
<1>6. Whole(sent)' <=> Whole(sent')
  BY <1>5 DEF Whole, InSequence
<1>7. ASSUME UNCHANGED stream
      PROVE  Joined(sent, streams[stream].encoder)' <=> Joined(sent', streams'[stream].encoder)
  BY <1>2, <1>3, <1>4, <1>7 DEF Joined
<1>8. QED
  BY <1>6, <1>7

LEMMA ReadSends ==
  ASSUME RtspInv, ReadNalu
  PROVE  (SentInv /\ ArrivesWhole)'
<1>1. PICK s, n, r : Reads(s, n, r)
  BY ReadNaluIs DEF RtspInv, SessionInv
<1>2. UNCHANGED <<file, state, stream>> /\ streams'[stream] = r
  BY <1>1 DEF Reads
<1>3. /\ sent' \in Seq(Messages) /\ Whole(sent')
      /\ \A i \in 1 .. Len(sent') : sent'[i].stream <= stream
      /\ state # "gone" => Joined(sent', r.encoder)
  <2>1. CASE sendable(n) /\ s.encoder.last_nalu # NoNalu /\ state # "gone"
    BY <1>1, <2>1, UnitSent
  <2>2. CASE ~sendable(n) \/ s.encoder.last_nalu = NoNalu \/ state = "gone"
    <3>1. sent' = sent /\ (state # "gone" => Joined(sent, r.encoder))
      BY <1>1, <2>2, NothingSent
    <3>2. sent \in Seq(Messages) /\ Whole(sent) /\ \A i \in 1 .. Len(sent) : sent[i].stream <= stream
      BY ArrivesWholeIs DEF RtspInv, SentInv
    <3>3. QED
      BY <3>1, <3>2
  <2>3. QED
    BY <2>1, <2>2
<1>4. Whole(sent)' /\ (state # "gone" => Joined(sent, streams[stream].encoder)')
  BY <1>2, <1>3, SameFile
<1>5. SentInv'
  BY <1>2, <1>3, <1>4 DEF SentInv
<1>6. ArrivesWhole'
  <2>1. (sent \in Seq(Messages))' => (ArrivesWhole <=> Whole(sent))'
    BY ArrivesWholeIs, PTL
  <2>2. QED
    BY <1>3, <1>4, <2>1
<1>7. QED
  BY <1>5, <1>6

\* The other steps send nothing.
LEMMA SentKept ==
  ASSUME RtspInv, RtspNext, ~ReadNalu
  PROVE  (SentInv /\ ArrivesWhole)'
<1>1. UNCHANGED <<file, sent>> /\ (state' # "gone" => state # "gone")
  BY DEF RtspNext, handleDescribe, Request, handlePlay, HandleClose, Destroy, Loop, Expire, ReadFrameEnds, Restart, Elapse
<1>2. /\ SessionTypes /\ sent \in Seq(Messages) /\ Whole(sent)
      /\ \A i \in 1 .. Len(sent) : sent[i].stream <= stream
      /\ stream \in Nat /\ stream = Len(streams) /\ streams \in Seq(MediaStreams)
  BY ArrivesWholeIs, LenProperties DEF RtspInv, SentInv, SessionInv, SessionTypes
<1>3. ASSUME handleDescribe
      PROVE  SentInv'
  <2>1. stream' = stream + 1 /\ streams' = Append(streams, NewStream(now))
    BY <1>3 DEF handleDescribe
  <2>2. PICK s : s = NewStream(now)
    OBVIOUS
  <2>3. s.encoder.last_nalu = NoNalu /\ s \in MediaStreams
    <3>1. NewEncoder \in Encoders
      BY RtpAssumption DEF NewEncoder, Encoders
    <3>2. QED
      BY <1>2, <2>2, <3>1 DEF NewStream, NewEncoder, MediaStreams, SessionTypes
  <2>4. streams'[stream'] = s
    BY <1>2, <2>1, <2>2, <2>3, AppendProperties
  <2>5. PICK media, len : media = MediaIn(sent, Len(sent) + 1) /\ len = Len(sent)
    OBVIOUS
  <2>6. len \in Nat /\ MediaIn(sent, Len(sent) + 1)' = media
    BY <1>1, <1>2, <2>5, LenProperties DEF MediaIn
  <2>7. media # {} => sent[Max(media)].stream # stream'
    <3>1. SUFFICES ASSUME media # {}
                   PROVE  sent[Max(media)].stream # stream'
      OBVIOUS
    <3>2. media \in SUBSET (1 .. len)
      BY <2>5, <2>6 DEF MediaIn
    <3>3. Max(media) \in 1 .. len
      BY <2>6, <3>1, <3>2, GreatestExists
    <3>4. sent[Max(media)].stream <= stream /\ sent[Max(media)] \in Messages
      BY <1>2, <2>5, <3>3, ElementOfSeq
    <3>5. QED
      BY <1>2, <2>1, <3>4 DEF Messages
  <2>8. len > 0 => sent[len].stream # stream'
    <3>1. SUFFICES ASSUME len > 0
                   PROVE  sent[len].stream # stream'
      OBVIOUS
    <3>2. sent[len].stream <= stream /\ sent[len] \in Messages
      BY <1>2, <2>5, <2>6, <3>1, ElementOfSeq
    <3>3. QED
      BY <1>2, <2>1, <3>2 DEF Messages
  <2>9. Joined(sent, streams[stream].encoder)'
    BY <1>1, <2>3, <2>4, <2>5, <2>6, <2>7, <2>8 DEF Joined
  <2>10. \A i \in 1 .. Len(sent) : sent[i].stream <= stream'
    <3>1. SUFFICES ASSUME NEW i \in 1 .. Len(sent)
                   PROVE  sent[i].stream <= stream'
      OBVIOUS
    <3>2. sent[i].stream <= stream /\ sent[i] \in Messages
      BY <1>2, ElementOfSeq
    <3>3. QED
      BY <1>2, <2>1, <3>2 DEF Messages
  <2>11. QED
    <3>1. sent' \in Seq(Messages)
      BY <1>1, <1>2
    <3>2. \A i \in 1 .. Len(sent') : sent'[i].stream <= stream'
      BY <1>1, <1>2, <2>9, <2>10
    <3>3. state' # "gone" /\ stream' > 0 => Joined(sent, streams[stream].encoder)'
      BY <2>9, <2>10
    <3>4. QED
      BY <3>1, <3>2, <3>3, Zenon DEF SentInv
<1>4. ASSUME ~handleDescribe
      PROVE  SentInv'
  <2>1. UNCHANGED stream
    BY <1>4 DEF RtspNext, handlePlay, HandleClose, Destroy, Loop, Expire, ReadFrameEnds, Restart, Elapse
  <2>2. stream > 0 => streams'[stream].encoder = streams[stream].encoder
    <3>1. CASE handlePlay
      <4>1. PICK s : s = streams[stream]
        OBVIOUS
      <4>2. /\ stream \in 1 .. Len(streams) /\ streams' = [streams EXCEPT ![stream].send_cb = TRUE]
        BY <1>2, <3>1 DEF handlePlay
      <4>3. s \in MediaStreams /\ streams'[stream] = [s EXCEPT !.send_cb = TRUE]
        BY <1>2, <4>1, <4>2, ElementOfSeq, LenProperties
      <4>4. QED
        BY <4>1, <4>3 DEF MediaStreams
    <3>2. CASE ~handlePlay
      BY <1>4, <3>2 DEF RtspNext, HandleClose, Destroy, Loop, Expire, ReadFrameEnds, Restart, Elapse
    <3>3. QED
      BY <3>1, <3>2
  <2>3. state' # "gone" /\ stream > 0 => Joined(sent', streams'[stream].encoder)
    BY <1>1, <2>2 DEF RtspInv, SentInv
  <2>4. state' # "gone" /\ stream > 0 => Joined(sent, streams[stream].encoder)'
    BY <1>1, <2>1, <2>3, SameFile
  <2>5. QED
    <3>1. sent' \in Seq(Messages)
      BY <1>1, <1>2
    <3>2. \A i \in 1 .. Len(sent') : sent'[i].stream <= stream'
      BY <1>1, <1>2, <2>1, <2>4
    <3>3. state' # "gone" /\ stream' > 0 => Joined(sent, streams[stream].encoder)'
      BY <2>1, <2>4
    <3>4. QED
      BY <3>1, <3>2, <3>3, Zenon DEF SentInv
<1>5. ArrivesWhole'
  <2>1. (sent \in Seq(Messages))' => (ArrivesWhole <=> Whole(sent))'
    BY ArrivesWholeIs, PTL
  <2>2. Whole(sent)'
    BY <1>1, <1>2, SameFile
  <2>3. QED
    BY <1>1, <1>2, <2>1, <2>2
<1>6. QED
  BY <1>3, <1>4, <1>5

LEMMA RtspInductive ==
  /\ RtspInit => RtspInv
  /\ RtspInv /\ [RtspNext]_rtspVars => RtspInv'
<1>1. ASSUME RtspInit
      PROVE  RtspInv
  <2>1. sent = << >> /\ sent \in Seq(Messages) /\ Len(sent) = 0 /\ stream = 0
    BY <1>1 DEF RtspInit
  <2>2. SentInv /\ PlaceInv
    BY <2>1 DEF SentInv, PlaceInv
  <2>3. ArrivesWhole
    BY <2>1, ArrivesWholeIs DEF Whole
  <2>4. QED
    BY <1>1, <2>2, <2>3, InitSession DEF RtspInv
<1>2. ASSUME RtspInv, RtspNext
      PROVE  RtspInv'
  <2>1. SessionInv'
    BY <1>2, DescribeKeeps, PlayKeeps, CloseKeeps, ExpireKeeps, ReadKeeps, FrameEndsKeeps, RestartKeeps, ElapseKeeps
       DEF RtspInv, RtspNext, Loop
  <2>2. PlaceInv'
    <3>1. CASE ReadNalu
      <4>1. PICK s, n, r : Reads(s, n, r)
        BY <1>2, <3>1, ReadNaluIs DEF RtspInv, SessionInv
      <4>2. QED
        BY <1>2, <4>1, ReadKeepsPlace DEF RtspInv
    <3>2. CASE ~ReadNalu
      BY <1>2, <3>2, PlaceKept DEF RtspInv
    <3>3. QED
      BY <3>1, <3>2
  <2>3. (SentInv /\ ArrivesWhole)'
    BY <1>2, ReadSends, SentKept
  <2>4. QED
    BY <2>1, <2>2, <2>3 DEF RtspInv
<1>3. ASSUME RtspInv, UNCHANGED rtspVars
      PROVE  RtspInv'
  <2>1. UNCHANGED <<file, state, stream, streams, timers, reading, now, sent>>
    BY <1>3 DEF rtspVars
  <2>2. SessionTypes'
    BY <1>3, <2>1 DEF RtspInv, SessionInv, SessionTypes, TimersInv, ReadingInv
  <2>3. Paced'
    BY <1>3, <2>1 DEF RtspInv, SessionInv, Paced
  <2>4. PlaceInv'
    BY <1>3, <2>1 DEF RtspInv, PlaceInv, After, Units
  <2>5. sent \in Seq(Messages) /\ Whole(sent)
    BY <1>3, ArrivesWholeIs DEF RtspInv, SentInv
  <2>6. Whole(sent)'
    BY <2>1, <2>5, SameFile
  <2>7. ArrivesWhole'
    <3>1. (sent \in Seq(Messages))' => (ArrivesWhole <=> Whole(sent))'
      BY ArrivesWholeIs, PTL
    <3>2. QED
      BY <2>1, <2>5, <2>6, <3>1
  <2>8. SentInv'
    <3>1. state' # "gone" /\ stream' > 0 => Joined(sent, streams[stream].encoder)'
      BY <1>3, <2>1, SameFile DEF RtspInv, SentInv
    <3>2. \A i \in 1 .. Len(sent') : sent'[i].stream <= stream'
      BY <1>3, <2>1 DEF RtspInv, SentInv
    <3>3. QED
      BY <2>1, <2>5, <3>1, <3>2, Zenon DEF SentInv
  <2>9. QED
    BY <2>2, <2>3, <2>4, <2>7, <2>8 DEF RtspInv, SessionInv
<1>4. QED
  BY <1>1, <1>2, <1>3

------------------------------------------------------------------------------
(* The theorems. *)

\* Paced, for every value of the constants: a stream is never ahead of the clock, and
\* it has caught up with the beginning of every callback that has read it
\* (RtspMediaStream.cpp:103-121, RtspSession.cpp:147-154, TimerQueue.cpp:68-79).
THEOREM StreamsKeepPace == RtspSpec => []Paced
<1>1. RtspInv => Paced
  BY DEF RtspInv, SessionInv
<1>2. QED
  BY <1>1, RtspInductive, PTL DEF RtspSpec

\* ArrivesWhole, for every value of the constants: the packets of each stream reassemble
\* to the units of the file, in order, whole, and each once
\* (H264Rtp.cpp:48-53, 64-109, 132; RtspMediaStream.cpp:103-121).
THEOREM UnitsArriveWhole == RtspSpec => []ArrivesWhole
<1>1. RtspInv => ArrivesWhole
  BY DEF RtspInv
<1>2. QED
  BY <1>1, RtspInductive, PTL DEF RtspSpec

------------------------------------------------------------------------------
(* The parameter sets in front of a key frame. *)

ConfigFiles == \A f \in Files : WellConfigured(f)

\* The parameter sets of a type before d in the file.
Before(type, d) == {i \in 1 .. d - 1 : file[i].nal_unit_type = type}

\* The encoder of s has the last sets that were read in this round of the file, and
\* as long as it holds a key frame the sets in force for that.
InForce(s) ==
  LET e == s.encoder
      h == e.last_nalu
  IN  /\ Before("SPS", s.data) # {} => e.sps = file[Max(Before("SPS", s.data))]
      /\ Before("PPS", s.data) # {} => e.pps = file[Max(Before("PPS", s.data))]
      /\ h # NoNalu /\ keyFrame(h.nalu) =>
           e.sps = ParameterSet("SPS", h.nalu) /\ e.pps = ParameterSet("PPS", h.nalu)

ConfigInv == file # << >> /\ stream > 0 => InForce(streams[stream])

LEMMA FileIs ==
  ASSUME SessionTypes, ConfigFiles
  PROVE  WellConfigured(file) /\ DOMAIN file = 1 .. Len(file) /\ Len(file) \in Nat
<1>1. file \in Seq(Nalus)
  BY SessionAssumption DEF SessionTypes
<1>2. QED
  BY <1>1, LenProperties DEF SessionTypes, ConfigFiles

\* What is held of a type, x, after the unit at d.
LEMMA LastSet ==
  ASSUME NEW d \in Nat \ {0}, NEW type, NEW x, NEW y,
         y = IF file[d].nal_unit_type = type THEN file[d] ELSE x,
         Before(type, d) # {} => x = file[Max(Before(type, d))],
         Before(type, d + 1) # {}
  PROVE  y = file[Max(Before(type, d + 1))]
<1>1. CASE file[d].nal_unit_type = type
  <2>1. d \in Before(type, d + 1) /\ Before(type, d + 1) \in SUBSET Nat
        /\ \A i \in Before(type, d + 1) : i <= d
    BY <1>1 DEF Before
  <2>2. Max(Before(type, d + 1)) = d
    BY <2>1, GreatestIs
  <2>3. QED
    BY <1>1, <2>2
<1>2. CASE file[d].nal_unit_type # type
  <2>1. Before(type, d + 1) = Before(type, d)
    BY <1>2 DEF Before
  <2>2. QED
    BY <1>2, <2>1
<1>3. QED
  BY <1>1, <1>2

\* A key frame of the file has its sets before it.
LEMMA KeyFrameHasSets ==
  ASSUME SessionTypes, ConfigFiles, NEW d \in 1 .. Len(file), keyFrame(file[d]),
         NEW type \in {"SPS", "PPS"}
  PROVE  /\ Before(type, d) # {}
         /\ ParameterSet(type, file[d]) = file[Max(Before(type, d))]
         /\ ParameterSet(type, file[d]) \in Nalus
         /\ ParameterSet(type, file[d]).nal_unit_type = type
         /\ \E i \in DOMAIN file : ParameterSet(type, file[d]) = file[i]
<1>1. file[d].id = d /\ file[d].nal_unit_type = "IDR" /\ Len(file) \in Nat /\ d \in Nat
  BY UnitsAre DEF keyFrame
<1>2. PICK j \in 1 .. d : file[j].nal_unit_type = type
  BY FileIs DEF WellConfigured
<1>3. j # d
  BY <1>1, <1>2
<1>4. j \in Before(type, d) /\ Before(type, d) \in SUBSET (1 .. d)
  BY <1>1, <1>2, <1>3 DEF Before
<1>5. Max(Before(type, d)) \in Before(type, d)
  BY <1>1, <1>4, GreatestExists
<1>6. PICK m : m = Max(Before(type, d))
  OBVIOUS
<1>7. m \in 1 .. Len(file) /\ file[m].nal_unit_type = type /\ file[m] \in Nalus /\ m \in DOMAIN file
  <2>1. m \in 1 .. Len(file) /\ file[m].nal_unit_type = type
    BY <1>1, <1>5, <1>6 DEF Before
  <2>2. QED
    BY <2>1, UnitsAre, FileIs
<1>8. {i \in 1 .. d : file[i].nal_unit_type = type} = Before(type, d)
  BY <1>1 DEF Before
<1>9. ParameterSet(type, file[d]) = file[m]
  BY <1>1, <1>6, <1>8, Zenon DEF ParameterSet
<1>10. QED
  BY <1>4, <1>6, <1>7, <1>9

\* No parameter set is read while a key frame is held.
LEMMA NoSetYet ==
  ASSUME SessionTypes, ConfigFiles, NEW p, NEW d \in 1 .. Len(file),
         After(p, d), keyFrame(file[p])
  PROVE  file[d].nal_unit_type \notin {"SPS", "PPS"}
<1>1. p \in 1 .. Len(file) /\ Units \in SUBSET (1 .. Len(file)) /\ Len(file) \in Nat
  BY UnitsAre DEF After
<1>2. PICK j \in 1 .. Len(file) :
        j > p /\ sendable(file[j]) /\ \A k \in p .. j : file[k].nal_unit_type \notin {"SPS", "PPS"}
  BY <1>1, FileIs DEF WellConfigured
<1>3. j \in Units
  BY <1>2, UnitsAre
<1>4. p < d /\ j >= d
  BY <1>1, <1>2, <1>3 DEF After
<1>5. d \in p .. j
  BY <1>1, <1>4
<1>6. QED
  BY <1>2, <1>5

LEMMA ReadKeepsConfig ==
  ASSUME SessionInv, PlaceInv, ConfigFiles, ConfigInv, NEW s, NEW n, NEW r, Reads(s, n, r)
  PROVE  ConfigInv'
<1> DEFINE h == s.encoder.last_nalu
<1>1. /\ s.data \in 1 .. Len(file) /\ n = file[s.data] /\ n \in Nalus
      /\ r.data = IF s.data = Len(file) THEN 1 ELSE s.data + 1
      /\ file # << >> /\ stream > 0 /\ Len(file) \in Nat
      /\ UNCHANGED <<file, stream>> /\ streams[stream] = s /\ streams'[stream] = r
      /\ s.encoder \in Encoders /\ s.time_stamp \in Nat
  <2>1. s \in MediaStreams /\ stream \in 1 .. Len(streams) /\ streams \in Seq(MediaStreams)
    BY DEF Reads
  <2>2. s.encoder \in Encoders /\ s.time_stamp \in Nat /\ stream > 0
    BY <2>1, LenProperties DEF MediaStreams
  <2>3. QED
    BY <2>2 DEF Reads
<1>2. PICK d : d = s.data
  OBVIOUS
<1>3. /\ Before("SPS", d) # {} => s.encoder.sps = file[Max(Before("SPS", d))]
      /\ Before("PPS", d) # {} => s.encoder.pps = file[Max(Before("PPS", d))]
      /\ h # NoNalu /\ keyFrame(h.nalu) =>
           /\ s.encoder.sps = ParameterSet("SPS", h.nalu)
           /\ s.encoder.pps = ParameterSet("PPS", h.nalu)
  BY <1>1, <1>2 DEF ConfigInv, InForce
<1>4. PICK f : f = r.encoder
  OBVIOUS
<1>5. /\ f.sps = IF n.nal_unit_type = "SPS" THEN n ELSE s.encoder.sps
      /\ f.pps = IF n.nal_unit_type = "PPS" THEN n ELSE s.encoder.pps
      /\ f.last_nalu = IF sendable(n) THEN [nalu |-> n, stamp |-> s.time_stamp] ELSE h
  BY <1>1, <1>4, InputIs DEF Reads
<1>6. d \in Nat \ {0} /\ (r.data = 1 \/ r.data = d + 1)
  BY <1>1, <1>2
<1>7. Before("SPS", r.data) # {} => f.sps = file[Max(Before("SPS", r.data))]
  <2>1. CASE r.data = 1
    BY <2>1 DEF Before
  <2>2. CASE r.data = d + 1
    <3>1. f.sps = IF file[d].nal_unit_type = "SPS" THEN file[d] ELSE s.encoder.sps
      BY <1>1, <1>2, <1>5
    <3>2. Before("SPS", d + 1) # {} => f.sps = file[Max(Before("SPS", d + 1))]
      BY <1>3, <1>6, <3>1, LastSet
    <3>3. QED
      BY <2>2, <3>2
  <2>3. QED
    BY <1>6, <2>1, <2>2
<1>8. Before("PPS", r.data) # {} => f.pps = file[Max(Before("PPS", r.data))]
  <2>1. CASE r.data = 1
    BY <2>1 DEF Before
  <2>2. CASE r.data = d + 1
    <3>1. f.pps = IF file[d].nal_unit_type = "PPS" THEN file[d] ELSE s.encoder.pps
      BY <1>1, <1>2, <1>5
    <3>2. Before("PPS", d + 1) # {} => f.pps = file[Max(Before("PPS", d + 1))]
      BY <1>3, <1>6, <3>1, LastSet
    <3>3. QED
      BY <2>2, <3>2
  <2>3. QED
    BY <1>6, <2>1, <2>2
<1>9. ASSUME f.last_nalu # NoNalu, keyFrame(f.last_nalu.nalu)
      PROVE  f.sps = ParameterSet("SPS", f.last_nalu.nalu) /\ f.pps = ParameterSet("PPS", f.last_nalu.nalu)
  <2>1. CASE sendable(n)
    <3>1. f.last_nalu.nalu = n /\ keyFrame(n)
      BY <1>5, <1>9, <2>1
    <3>2. f.sps = s.encoder.sps /\ f.pps = s.encoder.pps
      BY <1>5, <2>1 DEF sendable
    <3>3. /\ Before("SPS", d) # {} /\ ParameterSet("SPS", n) = file[Max(Before("SPS", d))]
          /\ Before("PPS", d) # {} /\ ParameterSet("PPS", n) = file[Max(Before("PPS", d))]
      BY <1>1, <1>2, <3>1, KeyFrameHasSets DEF SessionInv
    <3>4. QED
      BY <1>3, <3>1, <3>2, <3>3
  <2>2. CASE ~sendable(n)
    <3>1. f.last_nalu = h /\ h # NoNalu /\ keyFrame(h.nalu)
      BY <1>5, <1>9, <2>2
    <3>2. h.nalu = file[h.nalu.id] /\ After(h.nalu.id, d)
      BY <1>1, <1>2, <3>1 DEF PlaceInv
    <3>3. n.nal_unit_type \notin {"SPS", "PPS"}
      <4>1. PICK p : p = h.nalu.id
        OBVIOUS
      <4>2. After(p, d) /\ keyFrame(file[p]) /\ d \in 1 .. Len(file) /\ SessionTypes
        BY <1>1, <1>2, <3>1, <3>2, <4>1 DEF SessionInv
      <4>3. QED
        BY <1>1, <1>2, <4>2, NoSetYet
    <3>4. QED
      BY <1>3, <1>5, <3>1, <3>3
  <2>3. QED
    BY <2>1, <2>2
<1>10. InForce(r)
  BY <1>4, <1>7, <1>8, <1>9 DEF InForce
<1>11. InForce(streams[stream])'
  BY <1>1, <1>10 DEF InForce, Before, ParameterSet
<1>12. QED
  BY <1>11 DEF ConfigInv

LEMMA ConfigKept ==
  ASSUME SessionInv, ConfigInv, RtspNext, ~ReadNalu
  PROVE  ConfigInv'
<1>1. UNCHANGED file
  BY DEF RtspNext, handleDescribe, handlePlay, HandleClose, Destroy, Loop, Expire, ReadFrameEnds, Restart, Elapse
<1>2. stream \in Nat /\ stream = Len(streams) /\ streams \in Seq(MediaStreams)
  BY LenProperties DEF SessionInv, SessionTypes
<1>3. CASE handleDescribe
  <2>1. stream' = stream + 1 /\ streams' = Append(streams, NewStream(now))
    BY <1>3 DEF handleDescribe
  <2>2. PICK s : s = NewStream(now)
    OBVIOUS
  <2>3. s.encoder.last_nalu = NoNalu /\ s.data = 1 /\ s \in MediaStreams
    <3>1. NewEncoder \in Encoders
      BY RtpAssumption DEF NewEncoder, Encoders
    <3>2. QED
      BY <2>2, <3>1 DEF NewStream, NewEncoder, MediaStreams, SessionInv, SessionTypes
  <2>4. streams'[stream'] = s
    BY <1>2, <2>1, <2>2, <2>3, AppendProperties
  <2>5. QED
    BY <2>3, <2>4 DEF ConfigInv, InForce, Before
<1>4. CASE ~handleDescribe
  <2>1. UNCHANGED stream
    BY <1>4 DEF RtspNext, handlePlay, HandleClose, Destroy, Loop, Expire, ReadFrameEnds, Restart, Elapse
  <2>2. stream > 0 => /\ streams'[stream].encoder = streams[stream].encoder
                      /\ streams'[stream].data = streams[stream].data
    <3>1. CASE handlePlay
      <4>1. PICK s : s = streams[stream]
        OBVIOUS
      <4>2. /\ stream \in 1 .. Len(streams) /\ streams' = [streams EXCEPT ![stream].send_cb = TRUE]
        BY <1>2, <3>1 DEF handlePlay
      <4>3. s \in MediaStreams /\ streams'[stream] = [s EXCEPT !.send_cb = TRUE]
        BY <1>2, <4>1, <4>2, ElementOfSeq, LenProperties
      <4>4. QED
        BY <4>1, <4>3 DEF MediaStreams
    <3>2. CASE ~handlePlay
      BY <1>4, <3>2 DEF RtspNext, HandleClose, Destroy, Loop, Expire, ReadFrameEnds, Restart, Elapse
    <3>3. QED
      BY <3>1, <3>2
  <2>3. QED
    BY <1>1, <2>1, <2>2 DEF ConfigInv, InForce, Before, ParameterSet
<1>5. QED
  BY <1>3, <1>4

\* ConfigBeforeKeyFrame of one message of w.
ConfigAt(w, i) ==
  LET q == w[i].packet IN
  keyFrame(q.nalu) /\ q.start =>
    /\ i > 2
    /\ \A k \in {1, 2} :
         LET p == w[i - k].packet IN
         /\ p.nalu = ParameterSet(IF k = 1 THEN "PPS" ELSE "SPS", q.nalu)
         /\ p.start /\ p.end /\ p.to >= p.nalu.len
         /\ p.stamp = q.stamp /\ ~p.mark

\* The key frame h goes out behind its sets.
LEMMA ConfigExtended ==
  ASSUME SessionTypes, ConfigFiles, NEW w \in Seq(Messages), \A i \in 1 .. Len(w) : ConfigAt(w, i),
         NEW e \in Encoders, NEW h \in Held, NEW mark \in BOOLEAN,
         NEW d \in 1 .. Len(file), h.nalu = file[d],
         keyFrame(h.nalu) => e.sps = ParameterSet("SPS", h.nalu) /\ e.pps = ParameterSet("PPS", h.nalu),
         NEW P, Carrying(P, e, h, mark), NEW new, Extended(w, P, new)
  PROVE  \A i \in 1 .. Len(new) : ConfigAt(new, i)
<1>1. PICK C, U \in Seq(Packets) :
        /\ P = C \o U
        /\ \A k \in 1 .. Len(C) : ~sendable(C[k].nalu)
        /\ Carries(U, h.nalu, h.nalu.len)
        /\ Framed(P, e.seq, h.stamp, mark)
        /\ keyFrame(h.nalu) => C = insertConfigFrame(e, h.stamp)
  BY DEF Carrying
<1> DEFINE m == Len(w)
           c == Len(C)
           u == Len(U)
<1>2. m \in Nat /\ c \in Nat /\ u \in Nat /\ u >= 1
  BY <1>1, LenProperties, EmptySeq DEF Carries
<1>3. /\ P \in Seq(Packets) /\ Len(P) = c + u
      /\ \A k \in 1 .. c : P[k] = C[k]
      /\ \A k \in 1 .. u : P[c + k] = U[k]
  BY <1>1, ConcatProperties
<1>4. /\ Len(new) = m + c + u
      /\ \A i \in 1 .. m : new[i] = w[i]
      /\ \A k \in 1 .. c + u : new[m + k].packet = P[k]
  <2>1. /\ Len(new) = m + Len(P)
        /\ \A i \in 1 .. m : new[i] = w[i]
        /\ \A k \in 1 .. Len(P) : new[m + k].packet = P[k]
    BY DEF Extended
  <2>2. Len(P) = c + u /\ m + (c + u) = m + c + u
    BY <1>2, <1>3
  <2>3. QED
    BY <2>1, <2>2
<1> HIDE DEF m, c, u
<1>5. \A i \in 1 .. m : ConfigAt(new, i)
  <2>1. SUFFICES ASSUME NEW i \in 1 .. m
                 PROVE  ConfigAt(new, i)
    OBVIOUS
  <2>2. ConfigAt(w, i) /\ new[i] = w[i]
    BY <1>4 DEF m
  <2>3. i > 2 => \A k \in {1, 2} : new[i - k] = w[i - k]
    <3>1. i > 2 => i - 1 \in 1 .. m /\ i - 2 \in 1 .. m
      BY <1>2
    <3>2. QED
      BY <1>4, <3>1
  <2>4. i > 2 => new[i - 1] = w[i - 1] /\ new[i - 2] = w[i - 2]
    BY <2>3
  <2>5. QED
    BY <2>2, <2>4, SMTT(60) DEF ConfigAt
<1>6. \A k \in 1 .. c : ConfigAt(new, m + k)
  <2>1. SUFFICES ASSUME NEW k \in 1 .. c
                 PROVE  ConfigAt(new, m + k)
    OBVIOUS
  <2>2. new[m + k].packet = C[k]
    BY <1>2, <1>3, <1>4
  <2>3. ~keyFrame(C[k].nalu)
    BY <1>1 DEF c, keyFrame, sendable
  <2>4. QED
    BY <2>2, <2>3, Zenon DEF ConfigAt
<1>7. \A k \in 1 .. u : /\ m + (c + k) \in Nat
                        /\ new[m + (c + k)].packet.nalu = h.nalu
                        /\ new[m + (c + k)].packet.stamp = h.stamp
                        /\ new[m + (c + k)].packet.start <=> k = 1
  <2>1. SUFFICES ASSUME NEW k \in 1 .. u
                 PROVE  /\ m + (c + k) \in Nat
                        /\ new[m + (c + k)].packet.nalu = h.nalu
                        /\ new[m + (c + k)].packet.stamp = h.stamp
                        /\ new[m + (c + k)].packet.start <=> k = 1
    OBVIOUS
  <2>2. PICK j : j = c + k
    OBVIOUS
  <2>3. j \in 1 .. c + u /\ m + j \in Nat /\ P[j] = U[k] /\ new[m + j].packet = P[j]
    BY <1>2, <1>3, <1>4, <2>2
  <2>4. P[j].stamp = h.stamp
    BY <1>1, <1>3, <2>3 DEF Framed
  <2>5. U[k].nalu = h.nalu /\ (U[k].start <=> k = 1)
    BY <1>1 DEF Carries, u
  <2>6. QED
    BY <2>2, <2>3, <2>4, <2>5
<1>8. ASSUME keyFrame(h.nalu)
      PROVE  ConfigAt(new, m + (c + 1))
  <2>1. PICK sps, pps : sps = ParameterSet("SPS", h.nalu) /\ pps = ParameterSet("PPS", h.nalu)
    OBVIOUS
  <2>2. /\ sps \in Nalus /\ sps.nal_unit_type = "SPS" /\ \E i \in DOMAIN file : sps = file[i]
        /\ pps \in Nalus /\ pps.nal_unit_type = "PPS" /\ \E i \in DOMAIN file : pps = file[i]
    BY <1>8, <2>1, KeyFrameHasSets
  <2>3. sps.len < FragmentSize /\ pps.len <= sps.len /\ sps # NoNalu /\ pps # NoNalu
    <3>1. sps.len < FragmentSize /\ pps.len <= sps.len
      BY <2>2, FileIs DEF WellConfigured
    <3>2. QED
      BY <2>2, <3>1, RtpAssumption
  <2>4. e.sps = sps /\ e.pps = pps
    BY <1>8, <2>1
  <2>5. h.stamp \in Nat
    BY DEF Held
  <2>6. PICK none \in BOOLEAN : ~none
    OBVIOUS
  <2>7. C = insertConfigFrame(e, h.stamp)
    BY <1>1, <1>8
  <2>8. /\ c = 2 /\ C[1].nalu = sps /\ C[2].nalu = pps
        /\ \A k \in {1, 2} : C[k].start /\ C[k].end /\ C[k].to = sps.len
    BY <2>3, <2>4, <2>5, <2>6, <2>7, ConfigIs DEF c
  <2>9. /\ P[1] = C[1] /\ P[2] = C[2] /\ new[m + 1].packet = P[1] /\ new[m + 2].packet = P[2]
        /\ 1 \in 1 .. Len(P) /\ 2 \in 1 .. Len(P) /\ Len(P) # 1 /\ Len(P) # 2
    <3>1. 1 \in 1 .. c /\ 2 \in 1 .. c /\ 1 \in 1 .. c + u /\ 2 \in 1 .. c + u /\ Len(P) > 2
      BY <1>2, <1>3, <2>8
    <3>2. P[1] = C[1] /\ P[2] = C[2]
      BY <1>3, <3>1
    <3>3. new[m + 1].packet = P[1] /\ new[m + 2].packet = P[2]
      BY <1>4, <3>1
    <3>4. QED
      BY <1>2, <1>3, <3>1, <3>2, <3>3
  <2>10. P[1].stamp = h.stamp /\ ~P[1].mark /\ P[2].stamp = h.stamp /\ ~P[2].mark
    BY <1>1, <2>9 DEF Framed
  <2>11. PICK i : i = m + (c + 1)
    OBVIOUS
  <2>12. i > 2 /\ i - 1 = m + 2 /\ i - 2 = m + 1 /\ 1 \in 1 .. u
    BY <1>2, <2>8, <2>11
  <2>13. new[i].packet.nalu = h.nalu /\ new[i].packet.stamp = h.stamp
    BY <1>7, <2>11, <2>12
  <2>14. sps.len \in Nat /\ pps.len \in Nat
    BY <2>2 DEF Nalus
  <2>15. /\ new[i - 1].packet.nalu = ParameterSet("PPS", h.nalu)
         /\ new[i - 1].packet.start /\ new[i - 1].packet.end
         /\ new[i - 1].packet.to >= new[i - 1].packet.nalu.len
         /\ new[i - 1].packet.stamp = h.stamp /\ ~new[i - 1].packet.mark
    BY <2>1, <2>3, <2>8, <2>9, <2>10, <2>12, <2>14
  <2>16. /\ new[i - 2].packet.nalu = ParameterSet("SPS", h.nalu)
         /\ new[i - 2].packet.start /\ new[i - 2].packet.end
         /\ new[i - 2].packet.to >= new[i - 2].packet.nalu.len
         /\ new[i - 2].packet.stamp = h.stamp /\ ~new[i - 2].packet.mark
    BY <2>1, <2>3, <2>8, <2>9, <2>10, <2>12, <2>14
  <2>17. QED
    BY <2>11, <2>12, <2>13, <2>15, <2>16 DEF ConfigAt
<1>9. \A k \in 1 .. u : ConfigAt(new, m + (c + k))
  <2>1. SUFFICES ASSUME NEW k \in 1 .. u
                 PROVE  ConfigAt(new, m + (c + k))
    OBVIOUS
  <2>2. CASE keyFrame(h.nalu) /\ k = 1
    BY <1>8, <2>2
  <2>3. CASE ~(keyFrame(h.nalu) /\ k = 1)
    BY <1>7, <2>3 DEF ConfigAt
  <2>4. QED
    BY <2>2, <2>3
<1>10. SUFFICES ASSUME NEW i \in 1 .. m + c + u
                PROVE  ConfigAt(new, i)
  BY <1>4
<1>11. CASE i <= m
  BY <1>2, <1>5, <1>11
<1>12. CASE i > m /\ i <= m + c
  <2>1. i - m \in 1 .. c /\ m + (i - m) = i
    BY <1>2, <1>12
  <2>2. QED
    BY <1>6, <2>1
<1>13. CASE i > m + c
  <2>1. i - (m + c) \in 1 .. u /\ m + (c + (i - (m + c))) = i
    BY <1>2, <1>13
  <2>2. QED
    BY <1>9, <2>1
<1>14. QED
  BY <1>2, <1>11, <1>12, <1>13

LEMMA SameConfig ==
  ASSUME UNCHANGED file, NEW i
  PROVE  ConfigAt(sent, i)' <=> ConfigAt(sent', i)
<1>1. ASSUME NEW type
      PROVE  ParameterSet(type, sent[i].packet.nalu)' = ParameterSet(type, sent'[i].packet.nalu)
  BY DEF ParameterSet
<1>2. ASSUME NEW k
      PROVE  ParameterSet(IF k = 1 THEN "PPS" ELSE "SPS", sent[i].packet.nalu)'
               = ParameterSet(IF k = 1 THEN "PPS" ELSE "SPS", sent'[i].packet.nalu)
  BY <1>1 DEF ParameterSet
<1>3. QED
  BY <1>2, Zenon DEF ConfigAt

LEMMA ReadSendsConfig ==
  ASSUME RtspInv, ConfigFiles, ConfigInv, ConfigBeforeKeyFrame, ReadNalu
  PROVE  ConfigBeforeKeyFrame'
<1>1. PICK s, n, r : Reads(s, n, r)
  BY ReadNaluIs DEF RtspInv, SessionInv
<1> DEFINE e == s.encoder
           h == e.last_nalu
<1>2. sent \in Seq(Messages) /\ SessionTypes /\ stream \in Nat /\ \A i \in 1 .. Len(sent) : ConfigAt(sent, i)
  <2>1. sent \in Seq(Messages) /\ SessionTypes /\ stream \in Nat
    BY LenProperties DEF RtspInv, SessionInv, SentInv, SessionTypes
  <2>2. DOMAIN sent = 1 .. Len(sent)
    BY <2>1, LenProperties
  <2>3. QED
    BY <2>1, <2>2, Zenon DEF ConfigBeforeKeyFrame, ConfigAt
<1>3. PICK new : new = sent'
  OBVIOUS
<1>4. new \in Seq(Messages) /\ \A i \in 1 .. Len(new) : ConfigAt(new, i)
  <2>1. CASE sendable(n) /\ h # NoNalu /\ state # "gone"
    <3>1. e \in Encoders /\ h \in Held /\ s.time_stamp \in Nat
      <4>1. e \in Encoders /\ s.time_stamp \in Nat
        BY <1>1 DEF Reads, MediaStreams
      <4>2. QED
        BY <2>1, <4>1 DEF Encoders
    <3>2. PICK P : P = PacketsFor(e, n, s.time_stamp)
      OBVIOUS
    <3>3. PICK mark \in BOOLEAN : mark <=> h.stamp # s.time_stamp
      OBVIOUS
    <3>4. Carrying(P, e, h, mark)
      BY <2>1, <3>1, <3>2, <3>3, PacketsAre
    <3>5. P \in Seq(Packets)
      BY <3>4, ConcatProperties DEF Carrying
    <3>6. new = sent \o [k \in DOMAIN P |-> [stream |-> stream, packet |-> P[k]]]
      BY <1>1, <1>3, <2>1, <3>2 DEF Reads, Send
    <3>7. Extended(sent, P, new)
      BY <1>2, <3>5, <3>6, SendExtends
    <3>8. streams[stream] = s /\ file # << >> /\ stream > 0
      BY <1>1, <1>2 DEF Reads
    <3>9. keyFrame(h.nalu) => e.sps = ParameterSet("SPS", h.nalu) /\ e.pps = ParameterSet("PPS", h.nalu)
      BY <2>1, <3>8 DEF ConfigInv, InForce
    <3>10. PICK d : d = h.nalu.id
      OBVIOUS
    <3>11. d \in 1 .. Len(file) /\ h.nalu = file[d]
      <4>1. h.nalu = file[d] /\ d \in Units
        BY <2>1, <3>8, <3>10 DEF RtspInv, PlaceInv, After
      <4>2. QED
        BY <1>2, <4>1, UnitsAre
    <3>12. new \in Seq(Messages)
      BY <3>7 DEF Extended
    <3>13. \A i \in 1 .. Len(new) : ConfigAt(new, i)
      BY <1>2, <3>1, <3>4, <3>7, <3>9, <3>11, ConfigExtended
    <3>14. QED
      BY <3>12, <3>13
  <2>2. CASE ~sendable(n) \/ h = NoNalu \/ state = "gone"
    <3>1. new = sent
      BY <1>1, <1>3, <2>2, NothingSent
    <3>2. QED
      BY <1>2, <3>1
  <2>3. QED
    BY <2>1, <2>2
<1>5. UNCHANGED file
  BY <1>1 DEF Reads
<1>6. \A i \in 1 .. Len(sent') : ConfigAt(sent, i)'
  BY <1>3, <1>4, <1>5, SameConfig
<1>7. DOMAIN sent' = 1 .. Len(sent')
  BY <1>3, <1>4, LenProperties
<1>8. QED
  BY <1>6, <1>7, Zenon DEF ConfigBeforeKeyFrame, ConfigAt

\* ConfigBeforeKeyFrame, for files in order: every key frame goes out behind the
\* parameter sets that are in force for it (H264Rtp.cpp:24-31, 48-62).
THEOREM SetsComeBeforeKeyFrames ==
  ASSUME ConfigFiles
  PROVE  RtspSpec => []ConfigBeforeKeyFrame
<1> DEFINE ConfInv == RtspInv /\ ConfigInv /\ ConfigBeforeKeyFrame
<1>1. RtspInit => ConfInv
  <2>1. SUFFICES ASSUME RtspInit
                 PROVE  ConfInv
    OBVIOUS
  <2>2. RtspInv
    BY <2>1, RtspInductive
  <2>3. ConfigInv /\ ConfigBeforeKeyFrame
    BY <2>1 DEF RtspInit, ConfigInv, ConfigBeforeKeyFrame
  <2>4. QED
    BY <2>2, <2>3
<1>2. ConfInv /\ [RtspNext]_rtspVars => ConfInv'
  <2>1. SUFFICES ASSUME ConfInv, [RtspNext]_rtspVars
                 PROVE  ConfInv'
    OBVIOUS
  <2>2. RtspInv'
    BY <2>1, RtspInductive
  <2>3. CASE ReadNalu
    <3>1. PICK s, n, r : Reads(s, n, r)
      BY <2>1, <2>3, ReadNaluIs DEF RtspInv, SessionInv
    <3>2. ConfigInv'
      BY <2>1, <3>1, ReadKeepsConfig DEF RtspInv
    <3>3. ConfigBeforeKeyFrame'
      BY <2>1, <2>3, ReadSendsConfig
    <3>4. QED
      BY <2>2, <3>2, <3>3
  <2>4. CASE RtspNext /\ ~ReadNalu
    <3>1. ConfigInv'
      BY <2>1, <2>4, ConfigKept DEF RtspInv
    <3>2. UNCHANGED <<file, sent>>
      BY <2>4 DEF RtspNext, handleDescribe, handlePlay, HandleClose, Destroy, Loop, Expire, ReadFrameEnds, Restart, Elapse
    <3>3. ConfigBeforeKeyFrame'
      <4>1. \A i \in DOMAIN sent' : ConfigAt(sent, i)'
        BY <2>1, <3>2, SameConfig DEF ConfigBeforeKeyFrame, ConfigAt
      <4>2. QED
        BY <4>1, Zenon DEF ConfigBeforeKeyFrame, ConfigAt
    <3>4. QED
      BY <2>2, <3>1, <3>3
  <2>5. CASE UNCHANGED rtspVars
    <3>1. UNCHANGED <<file, stream, streams, sent>>
      BY <2>5 DEF rtspVars
    <3>2. ConfigInv'
      BY <2>1, <3>1 DEF ConfigInv, InForce, Before, ParameterSet
    <3>3. ConfigBeforeKeyFrame'
      <4>1. \A i \in DOMAIN sent' : ConfigAt(sent, i)'
        BY <2>1, <3>1, SameConfig DEF ConfigBeforeKeyFrame, ConfigAt
      <4>2. QED
        BY <4>1, Zenon DEF ConfigBeforeKeyFrame, ConfigAt
    <3>4. QED
      BY <2>2, <3>2, <3>3
  <2>6. QED
    BY <2>1, <2>3, <2>4, <2>5
<1>3. ConfInv => ConfigBeforeKeyFrame
  OBVIOUS
<1>4. QED
  BY <1>1, <1>2, <1>3, PTL DEF RtspSpec
=============================================================================
