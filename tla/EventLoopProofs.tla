--------------------------- MODULE EventLoopProofs ---------------------------
(***************************************************************************)
(* Proofs about EventLoop for any sets of functors, threads and channels.  *)
(***************************************************************************)
EXTENDS EventLoop, SequenceTheorems, TLAPS

\* Handing a functor over adds it behind all those still pending, whether the
\* loop is in the middle of a batch or not (to_do_list_.emplace_back).
LEMMA PendingAppend ==
  ASSUME NEW s \in Seq(Tasks), NEW r \in Seq(Tasks), NEW t \in Tasks
  PROVE  s \o Append(r, t) = Append(s \o r, t)
<1>1. /\ Append(r, t) = r \o <<t>>
      /\ Append(s \o r, t) = (s \o r) \o <<t>>
  BY AppendIsConcat, ConcatProperties
<1>2. <<t>> \in Seq(Tasks)
  OBVIOUS
<1>3. s \o (r \o <<t>>) = (s \o r) \o <<t>>
  BY <1>2, ConcatAssociative
<1>4. QED
  BY <1>1, <1>3

\* Taking the next functor of a batch takes the oldest pending one.
LEMMA PendingTail ==
  ASSUME NEW s \in Seq(Tasks), NEW r \in Seq(Tasks), s # << >>
  PROVE  /\ s \o r # << >>
         /\ Tail(s) \o r = Tail(s \o r)
<1>1. s = <<Head(s)>> \o Tail(s) /\ Tail(s) \in Seq(Tasks) /\ Head(s) \in Tasks
  OBVIOUS
<1>2. s \o r = <<Head(s)>> \o (Tail(s) \o r)
  BY <1>1, ConcatAssociative
<1>3. Tail(s) \o r \in Seq(Tasks)
  BY <1>1
<1>4. QED
  BY <1>1, <1>2, <1>3

------------------------------------------------------------------------------
\* The loop starts with nothing to do.
LEMMA InitInv == Init => IInv
<1> SUFFICES ASSUME Init PROVE IInv
  OBVIOUS
<1>1. TypeOK
  <2>1. calling_functors_ \in BOOLEAN
    BY DEF Init
  <2>2. QED
    BY <2>1 DEF Init, TypeOK
<1>2. FlagInv
  BY DEF Init, FlagInv
<1>3. WakeupInv /\ ReadFindsCounter /\ PhaseInv
  BY DEF Init, WakeupInv, ReadFindsCounter, PhaseInv
<1>4. QED
  BY <1>1, <1>2, <1>3 DEF IInv

\* Every action keeps the types.
LEMMA StepTypeOK ==
  ASSUME IInv, [Next]_vars
  PROVE  TypeOK'
<1> USE DEF IInv, TypeOK
<1>1. CASE Poll
  BY <1>1 DEF Poll, Ready
<1>2. CASE HandleRead
  BY <1>2 DEF HandleRead
<1>3. CASE BeginHandler
  BY <1>3 DEF BeginHandler
<1>4. CASE EndHandler
  BY <1>4 DEF EndHandler
<1>5. CASE EnterDoToDoList
  BY <1>5 DEF EnterDoToDoList
<1>6. CASE Swap
  BY <1>6 DEF Swap
<1>7. CASE BeginFunctor
  BY <1>7 DEF BeginFunctor
<1>8. CASE EndFunctor
  BY <1>8 DEF EndFunctor
<1>9. CASE LeaveDoToDoList
  BY <1>9 DEF LeaveDoToDoList
<1>10. ASSUME NEW t \in Tasks, QueueInLoop(t)
       PROVE  TypeOK'
  BY <1>10 DEF QueueInLoop
<1>11. CASE WakeInLoop
  BY <1>11 DEF WakeInLoop
<1>12. ASSUME NEW th \in Threads, NEW t \in Tasks, QueueOneFunc(th, t)
       PROVE  TypeOK'
  BY <1>12 DEF QueueOneFunc, loopVars
<1>13. ASSUME NEW th \in Threads, WakeLoop(th)
       PROVE  TypeOK'
  BY <1>13 DEF WakeLoop, loopVars
<1>14. ASSUME NEW c \in Channels, Input(c)
       PROVE  TypeOK'
  BY <1>14 DEF Input, loopVars
<1>15. CASE UNCHANGED vars
  BY <1>15 DEF vars
<1>16. CASE Interrupt
  BY <1>16 DEF Interrupt
<1>17. QED
  BY <1>1, <1>2, <1>3, <1>4, <1>5, <1>6, <1>7, <1>8, <1>9, <1>10, <1>11,
     <1>12, <1>13, <1>14, <1>15, <1>16 DEF Next, Loop

\* Every action keeps the three facts about the loop thread's position.
LEMMA StepInv ==
  ASSUME IInv, [Next]_vars
  PROVE  (FlagInv /\ WakeupInv /\ ReadFindsCounter /\ PhaseInv)'
<1> USE DEF IInv, TypeOK, FlagInv, WakeupInv, ReadFindsCounter, PhaseInv
<1>1. CASE Poll
  <2>1. FlagInv' /\ WakeupInv' /\ PhaseInv'
    BY <1>1 DEF Poll
  <2>2. Wakeup \in Ready => eventfd > 0
    BY WakeupAssumption DEF Ready
  <2>3. ReadFindsCounter'
    BY <1>1, <2>2 DEF Poll
  <2>4. QED
    BY <2>1, <2>3
<1>2. CASE HandleRead
  BY <1>2 DEF HandleRead
<1>3. CASE BeginHandler
  BY <1>3 DEF BeginHandler
<1>4. CASE EndHandler
  BY <1>4 DEF EndHandler
<1>5. CASE EnterDoToDoList
  BY <1>5 DEF EnterDoToDoList
<1>6. CASE Swap
  BY <1>6 DEF Swap
<1>7. CASE BeginFunctor
  BY <1>7 DEF BeginFunctor
<1>8. CASE EndFunctor
  BY <1>8 DEF EndFunctor
<1>9. CASE LeaveDoToDoList
  <2>1. FlagInv'
    BY <1>9 DEF LeaveDoToDoList
  <2>2. (WakeupInv /\ ReadFindsCounter /\ PhaseInv)'
    BY <1>9 DEF LeaveDoToDoList
  <2>3. QED
    BY <2>1, <2>2
<1>10. ASSUME NEW t \in Tasks, QueueInLoop(t)
       PROVE  (FlagInv /\ WakeupInv /\ ReadFindsCounter /\ PhaseInv)'
  BY <1>10 DEF QueueInLoop
<1>11. CASE WakeInLoop
  BY <1>11 DEF WakeInLoop
<1>12. ASSUME NEW th \in Threads, NEW t \in Tasks, QueueOneFunc(th, t)
       PROVE  (FlagInv /\ WakeupInv /\ ReadFindsCounter /\ PhaseInv)'
  BY <1>12 DEF QueueOneFunc, loopVars
<1>13. ASSUME NEW th \in Threads, WakeLoop(th)
       PROVE  (FlagInv /\ WakeupInv /\ ReadFindsCounter /\ PhaseInv)'
  BY <1>13 DEF WakeLoop, loopVars
<1>14. ASSUME NEW c \in Channels, Input(c)
       PROVE  (FlagInv /\ WakeupInv /\ ReadFindsCounter /\ PhaseInv)'
  BY <1>14 DEF Input, loopVars
<1>15. CASE UNCHANGED vars
  BY <1>15 DEF vars
<1>16. CASE Interrupt
  BY <1>16 DEF Interrupt
<1>17. QED
  BY <1>1, <1>2, <1>3, <1>4, <1>5, <1>6, <1>7, <1>8, <1>9, <1>10, <1>11,
     <1>12, <1>13, <1>14, <1>15, <1>16 DEF Next, Loop

\* The inductive invariant holds throughout every execution of the loop and of
\* the threads that call QueueOneFunc.
THEOREM Invariance == Spec => []IInv
<1>1. IInv /\ [Next]_vars => IInv'
  BY StepTypeOK, StepInv DEF IInv
<1>2. QED
  BY InitInv, <1>1, PTL DEF Spec

\* The variables keep their types.
THEOREM TypeCorrect == Spec => []TypeOK
<1>1. IInv => TypeOK
  BY DEF IInv
<1>2. QED
  BY <1>1, Invariance, PTL

\* A loop about to block in epoll_wait with a functor in its list is going to be
\* woken (QueueOneFunc, DoToDoList and HandleRead together).
THEOREM NoWakeupIsLost == Spec => []NoLostWakeup
<1>1. IInv => NoLostWakeup
  BY DEF IInv, WakeupInv, NoLostWakeup
<1>2. QED
  BY <1>1, Invariance, PTL

\* The assertion of HandleRead never fails.
THEOREM HandleReadAssertion == Spec => []ReadFindsCounter
<1>1. IInv => ReadFindsCounter
  BY DEF IInv
<1>2. QED
  BY <1>1, Invariance, PTL

------------------------------------------------------------------------------
\* A step of the loop or of a thread is a step of the executor or leaves the
\* pending functors alone: they are neither lost, nor duplicated, nor reordered
\* by the swap of DoToDoList or by pushes that happen during a batch.
LEMMA StepRefines ==
  ASSUME IInv, [Next]_vars
  PROVE  [Exec!Next]_Pending
<1> USE DEF IInv, TypeOK, Pending
<1>1. ASSUME NEW t \in Tasks, to_do_list_' = Append(to_do_list_, t),
             functors' = functors
      PROVE  Exec!Next
  <2>1. Pending' = Append(Pending, t)
    BY <1>1, PendingAppend
  <2>2. QED
    BY <2>1 DEF Exec!Next, Exec!Submit
<1>2. ASSUME UNCHANGED <<to_do_list_, functors>>
      PROVE  UNCHANGED Pending
  BY <1>2
<1>3. CASE Poll
  BY <1>2, <1>3 DEF Poll
<1>4. CASE HandleRead
  BY <1>2, <1>4 DEF HandleRead
<1>5. CASE BeginHandler
  BY <1>2, <1>5 DEF BeginHandler
<1>6. CASE EndHandler
  BY <1>2, <1>6 DEF EndHandler
<1>7. CASE EnterDoToDoList
  BY <1>2, <1>7 DEF EnterDoToDoList
<1>8. CASE Swap
  <2>1. functors = << >>
    BY <1>8 DEF Swap, PhaseInv
  <2>2. << >> \o to_do_list_ = to_do_list_ /\ to_do_list_ \o << >> = to_do_list_
    BY ConcatEmptySeq
  <2>3. QED
    BY <1>8, <2>1, <2>2 DEF Swap
<1>9. CASE BeginFunctor
  <2>1. Pending # << >> /\ Pending' = Tail(Pending)
    BY <1>9, PendingTail DEF BeginFunctor
  <2>2. QED
    BY <2>1 DEF Exec!Next, Exec!Execute
<1>10. CASE EndFunctor
  BY <1>2, <1>10 DEF EndFunctor
<1>11. CASE LeaveDoToDoList
  BY <1>2, <1>11 DEF LeaveDoToDoList
<1>12. ASSUME NEW t \in Tasks, QueueInLoop(t)
       PROVE  [Exec!Next]_Pending
  BY <1>1, <1>12 DEF QueueInLoop
<1>13. CASE WakeInLoop
  BY <1>2, <1>13 DEF WakeInLoop
<1>14. ASSUME NEW th \in Threads, NEW t \in Tasks, QueueOneFunc(th, t)
       PROVE  [Exec!Next]_Pending
  BY <1>1, <1>14 DEF QueueOneFunc, loopVars
<1>15. ASSUME NEW th \in Threads, WakeLoop(th)
       PROVE  [Exec!Next]_Pending
  BY <1>2, <1>15 DEF WakeLoop, loopVars
<1>16. ASSUME NEW c \in Channels, Input(c)
       PROVE  [Exec!Next]_Pending
  BY <1>2, <1>16 DEF Input, loopVars
<1>17. CASE UNCHANGED vars
  BY <1>2, <1>17 DEF vars
<1>18. CASE Interrupt
  BY <1>2, <1>18 DEF Interrupt
<1>19. QED
  BY <1>18, <1>3, <1>4, <1>5, <1>6, <1>7, <1>8, <1>9, <1>10, <1>11, <1>12, <1>13,
     <1>14, <1>15, <1>16, <1>17 DEF Next, Loop

\* The loop implements the executor: functors are started in the order in which
\* QueueOneFunc received them, each of them once (the safety part of Executes).
THEOREM LoopIsExecutor == Spec => Exec!Init /\ [][Exec!Next]_Pending
<1>1. Init => Exec!Init
  BY DEF Init, Pending, Exec!Init
<1>2. IInv /\ [Next]_vars => [Exec!Next]_Pending
  BY StepRefines
<1>3. QED
  BY <1>1, <1>2, Invariance, PTL DEF Spec
==============================================================================
