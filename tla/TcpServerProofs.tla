--------------------------- MODULE TcpServerProofs ---------------------------
(***************************************************************************)
(* Proofs about TcpServer for any connections, descriptors and threads.     *)
(***************************************************************************)
EXTENDS TcpServer, SequenceTheorems, TLAPS

Pcs == {"idle", "new", "established", "connect", "message",
        "close", "disconnect", "on_close", "erase", "end"}

\* The frames of callbacks.
Frames == {fr \in [pc : Pcs, conn : Conns \cup {NoConn}, ret : {"idle", "message", "end"}] :
             fr.pc # "idle" => fr.conn \in Conns}

\* TypeInv, with the functors in the types of the queues.
Types ==
  /\ setup \in Setups
  /\ obj \in [Conns -> {"none", "backlog", "accepted", "open", "gone"}]
  /\ fd \in [Conns -> Fds \cup {-1}]
  /\ loop \in [Conns -> Loops]
  /\ state_ \in [Conns -> {"unset", "Connected", "Disconected"}]
  /\ interest \in [Conns -> SUBSET {"ET", "IN"}]
  /\ unread \in [Conns -> BOOLEAN] /\ fin \in [Conns -> BOOLEAN]
  /\ edge \in [Conns -> BOOLEAN]
  /\ connectionsMap_ \in [Fds -> Conns \cup {NoConn}]
  /\ next_ \in Nat /\ (thread_nums_ > 0 => next_ < thread_nums_)
  /\ timers \subseteq Conns
  /\ phase \in [Loops -> {"poll", "dispatch", "functors"}]
  /\ active \in [Loops -> SUBSET (Conns \cup {Acceptor, Timerfd})]
  /\ held \in [Loops -> SUBSET Conns]
  /\ at \in [Loops -> Frames]
  /\ todo \in [Loops -> Seq(Functors)] /\ batch \in [Loops -> Seq(Functors)]

\* The functors of a sequence of functors.
LEMMA FunctorsOf ==
  ASSUME NEW s \in Seq(Functors)
  PROVE  \A f \in ToSet(s) : f \in Functors
<1>1. \A i \in 1 .. Len(s) : s[i] \in Functors
  BY ElementOfSeq
<1>2. QED
  BY <1>1 DEF ToSet

LEMMA TypesAre == TypeInv <=> Types
<1>1. ASSUME Types
      PROVE  \A l \in Loops : \A f \in ToSet(todo[l]) \cup ToSet(batch[l]) : f \in Functors
  <2>1. TAKE l \in Loops
  <2>2. todo[l] \in Seq(Functors) /\ batch[l] \in Seq(Functors)
    BY <1>1 DEF Types
  <2>3. QED
    BY <2>2, FunctorsOf
<1>2. QED
  BY <1>1 DEF TypeInv, TypeOK, Types, Frames, Pcs, Functors

LEMMA AppendHolds ==
  ASSUME NEW s \in Seq(Functors), NEW x \in Functors
  PROVE  /\ Append(s, x) \in Seq(Functors)
         /\ ToSet(Append(s, x)) = ToSet(s) \cup {x}
         /\ \A f : Once(s, f) /\ (x = f => f \notin ToSet(s)) => Once(Append(s, x), f)
<1>1. /\ Append(s, x) \in Seq(Functors)
      /\ Len(Append(s, x)) = Len(s) + 1
      /\ \A i \in 1 .. Len(s) : Append(s, x)[i] = s[i]
      /\ Append(s, x)[Len(s) + 1] = x
  BY AppendProperties
<1>2. Len(s) \in Nat /\ DOMAIN s = 1 .. Len(s) /\ DOMAIN Append(s, x) = 1 .. Len(s) + 1
  BY <1>1
<1>3. ToSet(Append(s, x)) = ToSet(s) \cup {x}
  BY <1>1, <1>2 DEF ToSet
<1>4. ASSUME NEW f, Once(s, f), x = f => f \notin ToSet(s)
      PROVE  Once(Append(s, x), f)
  BY <1>1, <1>2, <1>4 DEF Once, ToSet
<1>5. QED
  BY <1>1, <1>3, <1>4

LEMMA TailHolds ==
  ASSUME NEW s \in Seq(Functors), s # << >>
  PROVE  /\ Tail(s) \in Seq(Functors)
         /\ ToSet(s) = ToSet(Tail(s)) \cup {Head(s)}
         /\ \A f : Once(s, f) => Once(Tail(s), f) /\ (Head(s) = f => f \notin ToSet(Tail(s)))
<1>1. /\ Tail(s) \in Seq(Functors)
      /\ Len(Tail(s)) = Len(s) - 1
      /\ \A i \in 1 .. Len(s) - 1 : Tail(s)[i] = s[i + 1]
      /\ Head(s) = s[1] /\ Len(s) \in Nat \ {0}
  BY HeadTailProperties
<1>2. DOMAIN s = 1 .. Len(s) /\ DOMAIN Tail(s) = 1 .. Len(s) - 1
  BY <1>1
<1>3. ToSet(s) = ToSet(Tail(s)) \cup {Head(s)}
  <2>1. ASSUME NEW i \in 1 .. Len(s)
        PROVE  s[i] \in ToSet(Tail(s)) \cup {Head(s)}
    <3>1. CASE i = 1
      BY <1>1, <3>1
    <3>2. CASE i # 1
      <4>1. i - 1 \in 1 .. Len(s) - 1 /\ Tail(s)[i - 1] = s[i]
        BY <1>1, <3>2
      <4>2. QED
        BY <1>2, <4>1 DEF ToSet
    <3>3. QED
      BY <3>1, <3>2
  <2>2. \A i \in 1 .. Len(s) - 1 : Tail(s)[i] \in ToSet(s)
    BY <1>1, <1>2 DEF ToSet
  <2>3. Head(s) \in ToSet(s)
    BY <1>1, <1>2 DEF ToSet
  <2>4. QED
    BY <1>2, <2>1, <2>2, <2>3 DEF ToSet
<1>4. ASSUME NEW f, Once(s, f)
      PROVE  Once(Tail(s), f) /\ (Head(s) = f => f \notin ToSet(Tail(s)))
  <2>1. \A i, j \in 1 .. Len(s) : s[i] = f /\ s[j] = f => i = j
    BY <1>2, <1>4 DEF Once
  <2>2. \A i, j \in 1 .. Len(s) - 1 : s[i + 1] = f /\ s[j + 1] = f => i = j
    BY <1>1, <2>1
  <2>3. Once(Tail(s), f)
    BY <1>1, <1>2, <2>2 DEF Once
  <2>4. Head(s) = f => \A i \in 1 .. Len(s) - 1 : Tail(s)[i] # f
    BY <1>1, <2>1
  <2>5. QED
    BY <1>2, <2>3, <2>4 DEF ToSet
<1>5. QED
  BY <1>1, <1>3, <1>4

LEMMA EmptyHolds ==
  << >> \in Seq(Functors) /\ ToSet(<< >>) = {} /\ \A f : Once(<< >>, f)
BY DEF ToSet, Once

------------------------------------------------------------------------------
(* The types, and that no two live connections have the same descriptor. *)

LEMMA SetupTypes ==
  ASSUME Types
  PROVE  thread_nums_ \in 0 .. MaxThreads /\ auto_close_conn_ \in BOOLEAN /\ 0 \in Loops
BY ServerAssumption DEF Types, setup, Loops

\* A callback that goes on to another place.
LEMMA MovesTo ==
  ASSUME at \in [Loops -> Frames], NEW l \in Loops, NEW pc \in Pcs, at[l].pc # "idle",
         at' = [at EXCEPT ![l].pc = pc]
  PROVE  /\ at' \in [Loops -> Frames]
         /\ at'[l] \in Frames
         /\ at'[l].pc = pc /\ at'[l].conn = at[l].conn /\ at'[l].ret = at[l].ret
         /\ \A k \in Loops : k # l => at'[k] = at[k]
<1>1. at[l] \in Frames
  OBVIOUS
<1>2. PICK fr : fr = [at[l] EXCEPT !.pc = pc]
  OBVIOUS
<1>3. fr \in Frames /\ fr.pc = pc /\ fr.conn = at[l].conn /\ fr.ret = at[l].ret
  BY <1>1, <1>2 DEF Frames, Pcs
<1>4. at' = [at EXCEPT ![l] = fr]
  BY <1>2
<1>5. QED
  BY <1>3, <1>4

LEMMA MovesToClose ==
  ASSUME at \in [Loops -> Frames], NEW l \in Loops, at[l].pc # "idle",
         at' = [at EXCEPT ![l].pc = "close", ![l].ret = "end"]
  PROVE  /\ at' \in [Loops -> Frames]
         /\ at'[l].pc = "close" /\ at'[l].conn = at[l].conn
         /\ \A k \in Loops : k # l => at'[k] = at[k]
<1>1. at[l] \in Frames
  OBVIOUS
<1>2. PICK fr : fr = [at[l] EXCEPT !.pc = "close", !.ret = "end"]
  OBVIOUS
<1>3. fr \in Frames /\ fr.pc = "close" /\ fr.conn = at[l].conn
  BY <1>1, <1>2 DEF Frames, Pcs
<1>4. at' = [at EXCEPT ![l] = fr]
  BY <1>2
<1>5. QED
  BY <1>3, <1>4

LEMMA PeerTypes ==
  ASSUME Types, NEW c \in Conns, Peer(c)
  PROVE  Types'
<1>1. CASE Connect(c)
  BY <1>1 DEF Peer, Connect, Types, kernel, setup, Loops
<1>2. CASE PeerSend(c)
  BY <1>2 DEF Peer, PeerSend, Arrive, Types, setup, Loops
<1>3. CASE PeerClose(c)
  BY <1>3 DEF Peer, PeerClose, Arrive, Types, setup, Loops
<1>4. QED
  BY <1>1, <1>2, <1>3 DEF Peer

LEMMA LoopTypes ==
  ASSUME Types, NEW l \in Loops, LoopStep(l)
  PROVE  Types'
<1> USE DEF Types, kernel, setup
<1>1. CASE Poll(l)
  BY <1>1 DEF LoopStep, Poll, Ready, MainReady
<1>2. CASE EnterDoToDoList(l)
  BY <1>2, EmptyHolds DEF LoopStep, EnterDoToDoList
<1>3. CASE LeaveDoToDoList(l)
  BY <1>3 DEF LoopStep, LeaveDoToDoList, Release
<1>4. CASE Return(l)
  <2>1. Idle \in Frames
    BY DEF Idle, Frames, Pcs
  <2>2. QED
    BY <1>4, <2>1 DEF LoopStep, Return, Release
<1>5. CASE HandleMessage(l)
  <2>1. PICK c \in Conns, fr \in Frames : Dispatch(l, c, fr) /\ unread' = [unread EXCEPT ![c] = FALSE]
    <3>1. \A c \in Conns : /\ [pc |-> "close", conn |-> c, ret |-> "message"] \in Frames
                           /\ [pc |-> "message", conn |-> c, ret |-> "end"] \in Frames
      BY DEF Frames, Pcs
    <3>2. QED
      BY <1>5, <3>1 DEF HandleMessage
  <2>2. QED
    BY <1>5, <2>1 DEF LoopStep, HandleMessage, Dispatch
<1>6. CASE onMessage(l)
  <2>1. at' \in [Loops -> Frames]
    BY <1>6, MovesTo, MovesToClose DEF onMessage, Pcs
  <2>2. QED
    BY <1>6, <2>1 DEF LoopStep, onMessage
<1>7. CASE TestState(l)
  <2>1. at[l].ret \in Pcs
    BY DEF Frames, Pcs
  <2>2. PICK pc \in Pcs : at' = [at EXCEPT ![l].pc = pc]
    BY <1>7, <2>1 DEF TestState, Pcs
  <2>3. at' \in [Loops -> Frames]
    BY <1>7, <2>2, MovesTo DEF TestState
  <2>4. QED
    BY <1>7, <2>3 DEF LoopStep, TestState
<1>8. CASE SetState(l)
  <2>1. at' \in [Loops -> Frames]
    BY <1>8, MovesTo DEF SetState, Pcs
  <2>2. QED
    BY <1>8, <2>1 DEF LoopStep, SetState
<1>9. CASE HandleClose(l)
  <2>1. at[l].ret \in Pcs
    BY DEF Frames, Pcs
  <2>2. PICK pc \in Pcs : at' = [at EXCEPT ![l].pc = pc]
    BY <1>9, <2>1 DEF HandleClose, Pcs
  <2>3. at' \in [Loops -> Frames]
    BY <1>9, <2>2, MovesTo DEF HandleClose
  <2>4. CASE l = 0
    BY <1>9, <2>3, <2>4 DEF LoopStep, HandleClose
  <2>5. CASE l # 0
    <3>1. Functor("HandleCloseInLoop", at[l].conn) \in Functors
      BY <1>9 DEF HandleClose, Functor, Functors, Frames, Pcs
    <3>2. PICK f \in Functors : f = Functor("HandleCloseInLoop", at[l].conn)
      BY <3>1
    <3>3. todo[0] \in Seq(Functors)
      BY SetupTypes
    <3>4. Append(todo[0], f) \in Seq(Functors)
      BY <3>3, AppendHolds
    <3>5. todo' = [todo EXCEPT ![0] = Append(todo[0], f)]
      BY <1>9, <2>5, <3>2 DEF HandleClose
    <3>6. todo' \in [Loops -> Seq(Functors)]
      BY <3>4, <3>5
    <3>7. QED
      BY <1>9, <2>3, <3>6 DEF LoopStep, HandleClose
  <2>6. QED
    BY <2>4, <2>5
<1>10. CASE ConnectionDestructor(l)
  <2>1. batch[l] # << >> /\ batch' = [batch EXCEPT ![l] = Tail(batch[l])]
    BY <1>10 DEF ConnectionDestructor, StartFunctor
  <2>2. Tail(batch[l]) \in Seq(Functors)
    BY <2>1, TailHolds
  <2>3. batch' \in [Loops -> Seq(Functors)]
    BY <2>1, <2>2
  <2>4. QED
    BY <1>10, <2>3 DEF LoopStep, ConnectionDestructor, StartFunctor
<1>11. CASE l = 0 /\ Accept
  <2>1. PICK c \in Conns, f \in Fds \ FdsInUse, fr \in Frames :
          Dispatch(0, Acceptor, fr) /\ obj' = [obj EXCEPT ![c] = "accepted"]
                                    /\ fd' = [fd EXCEPT ![c] = f]
    <3>1. \A c \in Conns : [pc |-> "new", conn |-> c, ret |-> "end"] \in Frames
      BY DEF Frames, Pcs
    <3>2. QED
      BY <1>11, <3>1 DEF Accept
  <2>2. QED
    BY <1>11, <2>1, SetupTypes DEF LoopStep, Accept, Dispatch
<1>12. CASE l = 0 /\ HandleNewConnection
  <2>1. at' \in [Loops -> Frames]
    BY <1>12, MovesTo, SetupTypes DEF HandleNewConnection, Pcs
  <2>2. nextloop \in Loops /\ next_' \in Nat /\ (thread_nums_ > 0 => next_' < thread_nums_)
    <3>1. CASE thread_nums_ = 0
      BY <1>12, <3>1, SetupTypes DEF HandleNewConnection, nextloop, nextindex
    <3>2. CASE thread_nums_ # 0
      <4>1. thread_nums_ \in Nat \ {0} /\ next_ + 1 \in Nat /\ next_ + 1 <= thread_nums_
        BY <3>2, SetupTypes
      <4>2. (next_ + 1) % thread_nums_ \in 0 .. thread_nums_ - 1
        BY <4>1
      <4>3. nextloop \in Loops
        BY <3>2, <4>1, SetupTypes, ServerAssumption DEF nextloop, Loops
      <4>4. QED
        BY <1>12, <3>2, <4>1, <4>2, <4>3 DEF HandleNewConnection, nextindex
    <3>3. QED
      BY <3>1, <3>2
  <2>3. PICK c \in Conns : c = at[0].conn
    BY <1>12, SetupTypes DEF HandleNewConnection, Frames, Pcs
  <2>4. connectionsMap_' \in [Fds -> Conns \cup {NoConn}]
    BY <1>12, <2>3 DEF HandleNewConnection
  <2>5. QED
    BY <1>12, <2>1, <2>2, <2>4 DEF LoopStep, HandleNewConnection
<1>13. CASE l = 0 /\ ConnectionEstablished
  <2>1. at' \in [Loops -> Frames]
    BY <1>13, MovesTo, SetupTypes DEF ConnectionEstablished, Pcs
  <2>2. QED
    BY <1>13, <2>1 DEF LoopStep, ConnectionEstablished
<1>14. CASE l = 0 /\ onConnection
  <2>1. at' \in [Loops -> Frames]
    BY <1>14, MovesTo, SetupTypes DEF onConnection, Pcs
  <2>2. at[0] \in Frames /\ at[0].pc = "connect"
    BY <1>14, SetupTypes DEF onConnection
  <2>3. timers' \subseteq Conns
    BY <1>14, <2>2 DEF onConnection, Frames, Pcs
  <2>4. QED
    BY <1>14, <2>1, <2>3 DEF LoopStep, onConnection
<1>15. CASE l = 0 /\ ActiveCloseConn
  <2>1. PICK c \in timers, fr \in Frames : Dispatch(0, Timerfd, fr) /\ timers' \in {timers, timers \ {c}}
    <3>1. Idle \in Frames /\ \A c \in Conns : [pc |-> "close", conn |-> c, ret |-> "end"] \in Frames
      BY DEF Idle, Frames, Pcs
    <3>2. QED
      BY <1>15, <3>1 DEF ActiveCloseConn
  <2>2. QED
    BY <1>15, <2>1, SetupTypes DEF LoopStep, ActiveCloseConn, Dispatch
<1>16. CASE l = 0 /\ CloseInline
  <2>1. PICK c \in Conns : c = at[0].conn /\ HandleCloseInLoop(c)
    BY <1>16, SetupTypes DEF CloseInline, Frames, Pcs
  <2>2. loop[c] \in Loops /\ todo[loop[c]] \in Seq(Functors)
    OBVIOUS
  <2>3. Append(todo[loop[c]], Functor("ConnectionDestructor", c)) \in Seq(Functors)
    BY <2>2, AppendHolds DEF Functor, Functors
  <2>4. /\ todo' \in [Loops -> Seq(Functors)]
        /\ connectionsMap_' \in [Fds -> Conns \cup {NoConn}]
        /\ interest' = interest
    BY <2>1, <2>3 DEF HandleCloseInLoop
  <2>5. at[0].ret \in Pcs
    BY SetupTypes DEF Frames, Pcs
  <2>6. PICK pc \in Pcs : at' = [at EXCEPT ![0].pc = pc]
    BY <1>16, <2>5 DEF CloseInline
  <2>7. at' \in [Loops -> Frames]
    BY <1>16, <2>6, MovesTo, SetupTypes DEF CloseInline
  <2>8. QED
    BY <1>16, <2>4, <2>7 DEF LoopStep, CloseInline, Release
<1>17. CASE l = 0 /\ CloseFromQueue
  <2>1. PICK c \in Conns : StartFunctor(0, "HandleCloseInLoop", c) /\ HandleCloseInLoop(c)
    BY <1>17 DEF CloseFromQueue
  <2>2. loop[c] \in Loops /\ todo[loop[c]] \in Seq(Functors)
    OBVIOUS
  <2>3. Append(todo[loop[c]], Functor("ConnectionDestructor", c)) \in Seq(Functors)
    BY <2>2, AppendHolds DEF Functor, Functors
  <2>4. /\ todo' \in [Loops -> Seq(Functors)]
        /\ connectionsMap_' \in [Fds -> Conns \cup {NoConn}]
        /\ interest' = interest
    BY <2>1, <2>3 DEF HandleCloseInLoop
  <2>5. Tail(batch[0]) \in Seq(Functors)
    BY <2>1, TailHolds, SetupTypes DEF StartFunctor
  <2>6. batch' \in [Loops -> Seq(Functors)] /\ held' \in [Loops -> SUBSET Conns] /\ phase' = phase
    BY <1>17, <2>1, <2>5, SetupTypes, SMTT(60) DEF StartFunctor, CloseFromQueue
  <2>7. QED
    BY <1>17, <2>4, <2>6 DEF LoopStep, CloseFromQueue, Release
<1>18. QED
  BY <1>1, <1>2, <1>3, <1>4, <1>5, <1>6, <1>7, <1>8, <1>9, <1>10, <1>11, <1>12,
     <1>13, <1>14, <1>15, <1>16, <1>17 DEF LoopStep

\* What a step of a loop leaves to the others.
LEMMA OthersStay ==
  ASSUME Types, NEW l \in Loops, LoopStep(l), NEW k \in Loops, k # l
  PROVE  /\ at'[k] = at[k] /\ active'[k] = active[k] /\ phase'[k] = phase[k]
         /\ batch'[k] = batch[k] /\ held'[k] = held[k]
<1> USE DEF Types
<1>1. CASE Poll(l) \/ EnterDoToDoList(l) \/ LeaveDoToDoList(l) \/ Return(l)
  BY <1>1 DEF Poll, EnterDoToDoList, LeaveDoToDoList, Return
<1>2. CASE HandleMessage(l)
  BY <1>2 DEF HandleMessage, Dispatch
<1>3. CASE onMessage(l)
  BY <1>3, MovesToClose DEF onMessage
<1>4. CASE TestState(l)
  BY <1>4 DEF TestState
<1>5. CASE SetState(l)
  BY <1>5 DEF SetState
<1>6. CASE HandleClose(l)
  BY <1>6 DEF HandleClose
<1>7. CASE ConnectionDestructor(l)
  BY <1>7 DEF ConnectionDestructor, StartFunctor
<1>8. CASE l = 0 /\ Accept
  BY <1>8 DEF Accept, Dispatch
<1>9. CASE l = 0 /\ HandleNewConnection
  BY <1>9 DEF HandleNewConnection
<1>10. CASE l = 0 /\ ConnectionEstablished
  BY <1>10 DEF ConnectionEstablished
<1>11. CASE l = 0 /\ onConnection
  BY <1>11 DEF onConnection
<1>12. CASE l = 0 /\ ActiveCloseConn
  <2>1. PICK fr : Dispatch(0, Timerfd, fr)
    BY <1>12 DEF ActiveCloseConn
  <2>2. QED
    BY <1>12, <2>1 DEF ActiveCloseConn, Dispatch
<1>13. CASE l = 0 /\ CloseInline
  BY <1>13 DEF CloseInline
<1>14. CASE l = 0 /\ CloseFromQueue
  BY <1>14 DEF CloseFromQueue, StartFunctor
<1>15. QED
  BY <1>1, <1>2, <1>3, <1>4, <1>5, <1>6, <1>7, <1>8, <1>9, <1>10, <1>11, <1>12,
     <1>13, <1>14 DEF LoopStep

\* How the objects and the descriptors of connections change in a loop's step.
LEMMA ObjectsMove ==
  ASSUME Types, NEW l \in Loops, LoopStep(l), ~(l = 0 /\ (Accept \/ HandleNewConnection))
  PROVE  /\ fd' = fd
         /\ \A c \in Conns : \/ obj'[c] = obj[c]
                             \/ obj[c] = "open" /\ obj'[c] = "gone" /\ ~Held(c)'
<1> USE DEF Types, kernel
<1>1. CASE Release(obj) /\ fd' = fd
  BY <1>1 DEF Release
<1>2. CASE obj' = obj /\ fd' = fd
  BY <1>2
<1>3. CASE LeaveDoToDoList(l) \/ Return(l)
  BY <1>1, <1>3 DEF LeaveDoToDoList, Return
<1>4. CASE l = 0 /\ (CloseInline \/ CloseFromQueue)
  BY <1>1, <1>4 DEF CloseInline, CloseFromQueue
<1>5. CASE Poll(l) \/ EnterDoToDoList(l) \/ HandleMessage(l) \/ onMessage(l)
  BY <1>2, <1>5 DEF Poll, EnterDoToDoList, HandleMessage, onMessage
<1>6. CASE TestState(l) \/ SetState(l) \/ HandleClose(l) \/ ConnectionDestructor(l)
  BY <1>2, <1>6 DEF TestState, SetState, HandleClose, ConnectionDestructor
<1>7. CASE l = 0 /\ (ConnectionEstablished \/ onConnection \/ ActiveCloseConn)
  BY <1>2, <1>7 DEF ConnectionEstablished, onConnection, ActiveCloseConn
<1>8. QED
  BY <1>3, <1>4, <1>5, <1>6, <1>7 DEF LoopStep

\* The place of a callback of the main loop that is not about a new connection.
LEMMA NewIsAccepted ==
  ASSUME Types, NEW l \in Loops, LoopStep(l), ~(l = 0 /\ Accept), at'[0].pc = "new"
  PROVE  at[0].pc = "new" /\ at'[0].conn = at[0].conn /\ ~(l = 0 /\ HandleNewConnection)
<1> USE DEF Types
<1>1. CASE l # 0
  BY <1>1, OthersStay, SetupTypes
<1>2. CASE l = 0
  <2>1. at[0] \in Frames /\ at[0].ret \in {"idle", "message", "end"}
    BY SetupTypes DEF Frames
  <2>2. CASE at' = at
    <3>1. ~HandleNewConnection
      <4>1. SUFFICES ASSUME HandleNewConnection PROVE FALSE
        OBVIOUS
      <4>2. at'[0].pc = "established"
        BY <4>1, MovesTo, SetupTypes DEF HandleNewConnection, Pcs
      <4>3. QED
        BY <4>2
    <3>2. QED
      BY <2>2, <3>1
  <2>3. CASE \E pc \in Pcs \ {"new"} : at[0].pc # "idle" /\ at' = [at EXCEPT ![0].pc = pc]
    <3>1. PICK pc \in Pcs \ {"new"} : at[0].pc # "idle" /\ at' = [at EXCEPT ![0].pc = pc]
      BY <2>3
    <3>2. at'[0].pc = pc
      BY <3>1, MovesTo, SetupTypes
    <3>3. QED
      BY <3>1, <3>2
  <2>4. CASE Poll(0) \/ EnterDoToDoList(0) \/ LeaveDoToDoList(0) \/ ConnectionDestructor(0)
             \/ CloseFromQueue
    BY <2>2, <2>4 DEF Poll, EnterDoToDoList, LeaveDoToDoList, ConnectionDestructor,
       CloseFromQueue
  <2>5. CASE Return(0) \/ HandleMessage(0)
    BY <2>5, SetupTypes DEF Return, Idle, HandleMessage, Dispatch
  <2>6. CASE onMessage(0)
    BY <2>3, <2>6, MovesToClose, SetupTypes DEF onMessage, Pcs
  <2>7. CASE TestState(0) \/ HandleClose(0) \/ CloseInline
    BY <2>1, <2>3, <2>7 DEF TestState, HandleClose, CloseInline, Pcs
  <2>8. CASE SetState(0) \/ HandleNewConnection \/ ConnectionEstablished \/ onConnection
    BY <2>3, <2>8 DEF SetState, HandleNewConnection, ConnectionEstablished, onConnection, Pcs
  <2>9. CASE ActiveCloseConn
    <3>1. at'[0].pc \in {"idle", "close"}
      BY <2>9, SetupTypes DEF ActiveCloseConn, Dispatch, Idle
    <3>2. QED
      BY <3>1
  <2>10. QED
    BY <1>2, <2>4, <2>5, <2>6, <2>7, <2>8, <2>9 DEF LoopStep
<1>3. QED
  BY <1>1, <1>2

LEMMA InitOwner == Init => OwnerInv
<1> SUFFICES ASSUME Init PROVE OwnerInv
  OBVIOUS
<1>1. Types
  <2>1. PICK s \in Setups : thread_nums_ = s[1] /\ auto_close_conn_ = s[2]
    BY DEF Init
  <2>2. s \in (0 .. MaxThreads) \X BOOLEAN
    BY ServerAssumption
  <2>3. setup \in Setups /\ thread_nums_ \in Nat
    BY <2>1, <2>2, ServerAssumption DEF setup
  <2>4. Idle \in Frames
    BY DEF Idle, Frames, Pcs
  <2>5. 0 \in Loops
    BY ServerAssumption DEF Loops
  <2>6. QED
    BY <2>3, <2>4, <2>5, EmptyHolds DEF Init, Types
<1>2. NewInv
  BY SetupTypes, <1>1 DEF Init, NewInv, Idle
<1>3. OneOwnerPerFd
  BY DEF Init, OneOwnerPerFd
<1>4. QED
  BY <1>1, <1>2, <1>3, TypesAre DEF OwnerInv

\* Only what accept4 returns is a descriptor's new owner, and it is in nobody's use.
LEMMA OwnerNext ==
  ASSUME OwnerInv, [Next]_vars
  PROVE  OwnerInv'
<1>1. Types
  BY TypesAre DEF OwnerInv
<1>2. TypeInv' <=> Types'
  BY TypesAre, PTL
<1> USE <1>1
<1>3. CASE UNCHANGED vars
  <2>1. Types' /\ NewInv' /\ OneOwnerPerFd'
    BY <1>3 DEF vars, OwnerInv, Types, NewInv, OneOwnerPerFd, setup, kernel
  <2>2. QED
    BY <1>2, <2>1 DEF OwnerInv
<1>4. ASSUME NEW c \in Conns, Peer(c)
      PROVE  OwnerInv'
  <2>1. Types'
    BY <1>4, PeerTypes
  <2>2. fd' = fd /\ at' = at
    BY <1>4 DEF Peer, Connect, PeerSend, PeerClose, kernel
  <2>3. \A d \in Conns : obj'[d] = obj[d] \/ (obj[d] = "none" /\ obj'[d] = "backlog")
    <3>1. CASE Connect(c)
      BY <1>1, <3>1 DEF Connect, Types
    <3>2. CASE PeerSend(c) \/ PeerClose(c)
      BY <3>2 DEF PeerSend, PeerClose
    <3>3. QED
      BY <1>4, <3>1, <3>2 DEF Peer
  <2>4. NewInv'
    <3>1. SUFFICES ASSUME at[0].pc = "new" PROVE obj'[at[0].conn] = "accepted"
      BY <2>2 DEF NewInv
    <3>2. at[0].conn \in Conns
      BY <3>1, SetupTypes DEF Types, Frames
    <3>3. QED
      BY <2>3, <3>1, <3>2 DEF OwnerInv, NewInv
  <2>5. OneOwnerPerFd'
    BY <2>2, <2>3 DEF OwnerInv, OneOwnerPerFd
  <2>6. QED
    BY <1>2, <2>1, <2>4, <2>5 DEF OwnerInv
<1>5. ASSUME NEW l \in Loops, LoopStep(l)
      PROVE  OwnerInv'
  <2>1. Types'
    BY <1>5, LoopTypes
  <2>2. CASE l = 0 /\ Accept
    <3>1. PICK c \in Conns, f \in Fds \ FdsInUse :
             /\ Dispatch(0, Acceptor, [pc |-> "new", conn |-> c, ret |-> "end"])
             /\ obj' = [obj EXCEPT ![c] = "accepted"]
             /\ fd' = [fd EXCEPT ![c] = f]
      BY <2>2 DEF Accept
    <3>2. at'[0] = [pc |-> "new", conn |-> c, ret |-> "end"] /\ obj'[c] = "accepted"
      BY <3>1, SetupTypes DEF Types, Dispatch
    <3>3. NewInv'
      BY <3>2 DEF NewInv
    <3>4. \A d \in Conns : obj[d] \in {"accepted", "open"} => fd[d] # f
      BY <3>1 DEF FdsInUse
    <3>5. /\ fd'[c] = f
          /\ \A d \in Conns \ {c} : fd'[d] = fd[d] /\ obj'[d] = obj[d]
      BY <3>1 DEF Types
    <3>6. OneOwnerPerFd'
      BY <3>4, <3>5 DEF OwnerInv, OneOwnerPerFd
    <3>7. QED
      BY <1>2, <2>1, <3>3, <3>6 DEF OwnerInv
  <2>3. CASE l = 0 /\ HandleNewConnection
    <3>1. at'[0].pc = "established"
      BY <2>3, MovesTo, SetupTypes DEF HandleNewConnection, Pcs, Types
    <3>2. NewInv'
      BY <3>1 DEF NewInv
    <3>3. obj[at[0].conn] = "accepted" /\ obj' = [obj EXCEPT ![at[0].conn] = "open"] /\ fd' = fd
      BY <2>3 DEF HandleNewConnection, OwnerInv, NewInv
    <3>4. OneOwnerPerFd'
      BY <3>3 DEF OwnerInv, OneOwnerPerFd, Types
    <3>5. QED
      BY <1>2, <2>1, <3>2, <3>4 DEF OwnerInv
  <2>4. CASE ~(l = 0 /\ (Accept \/ HandleNewConnection))
    <3>1. /\ fd' = fd
          /\ \A c \in Conns : obj'[c] = obj[c] \/ (obj[c] = "open" /\ obj'[c] = "gone")
      <4>1. /\ fd' = fd
            /\ \A c \in Conns : \/ obj'[c] = obj[c]
                                \/ obj[c] = "open" /\ obj'[c] = "gone" /\ ~Held(c)'
        BY <1>1, <1>5, <2>4, ObjectsMove
      <4>2. QED
        BY <4>1
    <3>2. NewInv'
      <4>1. SUFFICES ASSUME at'[0].pc = "new" PROVE obj'[at'[0].conn] = "accepted"
        BY DEF NewInv
      <4>2. at[0].pc = "new" /\ at'[0].conn = at[0].conn
        BY <1>5, <2>4, <4>1, NewIsAccepted
      <4>3. at[0].conn \in Conns
        BY <4>2, SetupTypes DEF Types, Frames
      <4>4. QED
        BY <3>1, <4>2, <4>3 DEF OwnerInv, NewInv
    <3>3. OneOwnerPerFd'
      BY <3>1 DEF OwnerInv, OneOwnerPerFd
    <3>4. QED
      BY <1>2, <2>1, <3>2, <3>3 DEF OwnerInv
  <2>5. QED
    BY <2>2, <2>3, <2>4
<1>6. QED
  BY <1>3, <1>4, <1>5 DEF Next

\* The variables have their types.
THEOREM TypeCorrect == Spec => []TypeOK
<1>1. OwnerInv => TypeOK
  BY DEF OwnerInv, TypeInv
<1>2. QED
  BY InitOwner, OwnerNext, <1>1, PTL DEF Spec

\* An entry changes by the insertion of a new connection; otherwise it goes.
LEMMA EntriesGo ==
  ASSUME Types, NEW l \in Loops, LoopStep(l), ~(l = 0 /\ HandleNewConnection)
  PROVE  \A f \in Fds : connectionsMap_'[f] \in {connectionsMap_[f], NoConn}
<1> USE DEF Types
<1>1. CASE Poll(l) \/ EnterDoToDoList(l) \/ LeaveDoToDoList(l) \/ Return(l)
  BY <1>1 DEF Poll, EnterDoToDoList, LeaveDoToDoList, Return
<1>2. CASE HandleMessage(l) \/ onMessage(l) \/ TestState(l) \/ SetState(l) \/ HandleClose(l)
  BY <1>2 DEF HandleMessage, onMessage, TestState, SetState, HandleClose
<1>3. CASE ConnectionDestructor(l)
  BY <1>3 DEF ConnectionDestructor
<1>4. CASE l = 0 /\ (Accept \/ ConnectionEstablished \/ onConnection \/ ActiveCloseConn)
  BY <1>4 DEF Accept, ConnectionEstablished, onConnection, ActiveCloseConn
<1>5. CASE l = 0 /\ (CloseInline \/ CloseFromQueue)
  <2>1. PICK c : HandleCloseInLoop(c)
    BY <1>5 DEF CloseInline, CloseFromQueue
  <2>2. QED
    BY <2>1 DEF HandleCloseInLoop
<1>6. QED
  BY <1>1, <1>2, <1>3, <1>4, <1>5 DEF LoopStep

LEMMA InitEntries == Init => EntryInv
BY DEF Init, EntryInv

\* An entry's reference keeps its connection, and so its descriptor, from going.
LEMMA EntriesNext ==
  ASSUME OwnerInv, EntryInv, [Next]_vars
  PROVE  EntryInv'
<1>1. Types /\ NewInv
  BY TypesAre DEF OwnerInv
<1> USE <1>1
<1>2. CASE UNCHANGED vars
  BY <1>2 DEF vars, EntryInv, kernel
<1>3. ASSUME NEW c \in Conns, Peer(c)
      PROVE  EntryInv'
  <2>1. UNCHANGED <<fd, connectionsMap_>>
    BY <1>3 DEF Peer, Connect, PeerSend, PeerClose, kernel
  <2>2. \A d \in Conns : obj'[d] = obj[d] \/ (obj[d] = "none" /\ obj'[d] = "backlog")
    BY <1>3 DEF Peer, Connect, PeerSend, PeerClose, Types
  <2>3. QED
    BY <2>1, <2>2 DEF EntryInv, Types
<1>4. ASSUME NEW l \in Loops, LoopStep(l)
      PROVE  EntryInv'
  <2>1. CASE l = 0 /\ Accept
    <3>1. PICK c \in Conns, f \in Fds \ FdsInUse :
             /\ obj[c] = "backlog"
             /\ obj' = [obj EXCEPT ![c] = "accepted"]
             /\ fd' = [fd EXCEPT ![c] = f]
      BY <2>1 DEF Accept
    <3>2. /\ fd'[c] = f /\ obj'[c] = "accepted"
          /\ \A d \in Conns \ {c} : fd'[d] = fd[d] /\ obj'[d] = obj[d]
      BY <3>1 DEF Types
    <3>3. connectionsMap_' = connectionsMap_
      BY <2>1 DEF Accept
    <3>4. QED
      BY <3>1, <3>2, <3>3 DEF EntryInv, Types
  <2>2. CASE l = 0 /\ HandleNewConnection
    <3>1. PICK c : c = at[0].conn
      OBVIOUS
    <3>2. c \in Conns /\ obj[c] = "accepted"
      BY <2>2, <3>1, SetupTypes DEF HandleNewConnection, NewInv, Types, Frames
    <3>3. /\ obj' = [obj EXCEPT ![c] = "open"] /\ fd' = fd
          /\ connectionsMap_' = [connectionsMap_ EXCEPT ![fd[c]] = c]
      BY <2>2, <3>1 DEF HandleNewConnection
    <3>4. QED
      BY <3>2, <3>3 DEF EntryInv, Types
  <2>3. CASE ~(l = 0 /\ (Accept \/ HandleNewConnection))
    <3>1. /\ fd' = fd
          /\ \A c \in Conns : \/ obj'[c] = obj[c]
                              \/ obj[c] = "open" /\ obj'[c] = "gone" /\ ~Held(c)'
      BY <1>4, <2>3, ObjectsMove
    <3>2. \A f \in Fds : connectionsMap_'[f] \in {connectionsMap_[f], NoConn}
      BY <1>4, <2>3, EntriesGo
    <3>3. \A c \in Conns : obj'[c] # obj[c] => \A f \in Fds : connectionsMap_'[f] # c
      BY <3>1 DEF Held
    <3>4. QED
      BY <3>1, <3>2, <3>3 DEF EntryInv, Types
  <2>4. QED
    BY <2>1, <2>2, <2>3
<1>5. QED
  BY <1>2, <1>3, <1>4 DEF Next

\* Whatever closes connections and however many threads there are, no insertion into
\* connectionsMap_ overwrites an entry, and no connection finds that of another.
THEOREM EntriesAreNotOverwritten == Spec => []NoEntryOverwritten
<1>1. ASSUME OwnerInv, EntryInv PROVE NoEntryOverwritten
  <2>1. SUFFICES ASSUME NEW c \in Conns, obj[c] \in {"accepted", "open"},
                        connectionsMap_[fd[c]] # NoConn
                 PROVE  connectionsMap_[fd[c]] = c /\ obj[c] = "open"
    BY DEF NoEntryOverwritten
  <2>2. PICK d : d = connectionsMap_[fd[c]]
    OBVIOUS
  <2>3. fd[c] \in Fds /\ obj[d] = "open" /\ fd[d] = fd[c]
    BY <1>1, <2>1, <2>2 DEF EntryInv
  <2>4. d \in Conns
    BY <1>1, <2>1, <2>2, <2>3, TypesAre DEF OwnerInv, Types
  <2>5. QED
    BY <1>1, <2>1, <2>2, <2>3, <2>4 DEF OwnerInv, OneOwnerPerFd
<1>2. QED
  BY InitOwner, OwnerNext, InitEntries, EntriesNext, <1>1, PTL DEF Spec

------------------------------------------------------------------------------
(* The life of a connection that one thread can close. *)

\* The invariant, with its parts in sight.
Known == /\ Types /\ NewInv /\ OneOwnerPerFd
         /\ SetupInv /\ LoopInv /\ UnsetInv /\ FrameInv /\ QueueInv /\ OnceInv /\ OpenInv
         /\ LiveInv /\ ActiveInv /\ NoStuckInput

LEMMA KnownIs == IInv <=> Known
BY TypesAre DEF IInv, OwnerInv, LifeInv, Known

LEMMA QueuedFunctors ==
  ASSUME Types, NEW l \in Loops, NEW f \in Queued(l)
  PROVE  f \in Functors /\ f.conn \in Conns
<1>1. todo[l] \in Seq(Functors) /\ batch[l] \in Seq(Functors)
  BY DEF Types
<1>2. f \in Functors
  BY <1>1, FunctorsOf DEF Queued
<1>3. QED
  BY <1>2 DEF Functors

LEMMA ConnectLife ==
  ASSUME Known, NEW c \in Conns, Connect(c), UNCHANGED setup
  PROVE  LifeInv'
<1> USE DEF Known, Types, kernel, setup
<1>1. SetupInv'
  BY SetupTypes DEF SetupInv, OneCloser, Connect
<1>2. LoopInv'
  BY SetupTypes DEF LoopInv, Connect
<1>3. UnsetInv'
  BY SetupTypes DEF UnsetInv, Connect
<1>4. FrameInv'
  BY SetupTypes DEF FrameInv, Entry, EraseOf, Queued, Connect
<1>5. QueueInv'
  BY SetupTypes DEF QueueInv, Entry, Queued, Connect
<1>6. OnceInv'
  BY SetupTypes DEF OnceInv, Connect
<1>7. OpenInv'
  BY SetupTypes DEF OpenInv, Connect
<1>8. LiveInv'
  BY SetupTypes DEF LiveInv, Entry, DetachOf, Queued, Connect
<1>9. ActiveInv'
  BY SetupTypes DEF ActiveInv, Connect
<1>10. NoStuckInput'
  BY SetupTypes DEF NoStuckInput, Connect
<1>11. QED
  BY <1>1, <1>2, <1>3, <1>4, <1>5, <1>6,
     <1>7, <1>8, <1>9, <1>10 DEF LifeInv

LEMMA PeerSendLife ==
  ASSUME Known, NEW c \in Conns, PeerSend(c), UNCHANGED setup
  PROVE  LifeInv'
<1> USE DEF Known, Types, kernel, setup
<1>1. SetupInv'
  BY SetupTypes DEF SetupInv, OneCloser, PeerSend, Arrive, Reachable
<1>2. LoopInv'
  BY SetupTypes DEF LoopInv, PeerSend, Arrive, Reachable
<1>3. UnsetInv'
  BY SetupTypes DEF UnsetInv, PeerSend, Arrive, Reachable
<1>4. FrameInv'
  BY SetupTypes DEF FrameInv, Entry, EraseOf, Queued, PeerSend, Arrive, Reachable
<1>5. QueueInv'
  BY SetupTypes DEF QueueInv, Entry, Queued, PeerSend, Arrive, Reachable
<1>6. OnceInv'
  BY SetupTypes DEF OnceInv, PeerSend, Arrive, Reachable
<1>7. OpenInv'
  BY SetupTypes DEF OpenInv, PeerSend, Arrive, Reachable
<1>8. LiveInv'
  BY SetupTypes DEF LiveInv, Entry, DetachOf, Queued, PeerSend, Arrive, Reachable
<1>9. ActiveInv'
  BY SetupTypes DEF ActiveInv, PeerSend, Arrive, Reachable
<1>10. NoStuckInput'
  <2>1. SUFFICES ASSUME NEW d \in Conns, obj[d] = "open", "IN" \in interest[d],
                         state_[d] = "Connected", unread'[d] \/ fin'[d]
                  PROVE  \/ edge'[d]
                         \/ d \in active[loop[d]]
                         \/ /\ at[loop[d]].conn = d
                            /\ at[loop[d]].pc \in {"close", "disconnect"}
    BY DEF NoStuckInput, PeerSend
  <2>2. CASE d = c
    <3>1. edge'[d] = ("IN" \in interest[d])
      BY <2>2 DEF PeerSend, Arrive
    <3>2. QED
      BY <2>1, <3>1
  <2>3. CASE d # c
    <3>1. edge'[d] = edge[d] /\ unread'[d] = unread[d] /\ fin'[d] = fin[d]
      BY <2>3 DEF PeerSend, Arrive
    <3>2. QED
      BY <2>1, <3>1 DEF NoStuckInput
  <2>4. QED
    BY <2>2, <2>3
<1>11. QED
  BY <1>1, <1>2, <1>3, <1>4, <1>5, <1>6,
     <1>7, <1>8, <1>9, <1>10 DEF LifeInv

LEMMA PeerCloseLife ==
  ASSUME Known, NEW c \in Conns, PeerClose(c), UNCHANGED setup
  PROVE  LifeInv'
<1> USE DEF Known, Types, kernel, setup
<1>1. SetupInv'
  BY SetupTypes DEF SetupInv, OneCloser, PeerClose, Arrive, Reachable
<1>2. LoopInv'
  BY SetupTypes DEF LoopInv, PeerClose, Arrive, Reachable
<1>3. UnsetInv'
  BY SetupTypes DEF UnsetInv, PeerClose, Arrive, Reachable
<1>4. FrameInv'
  BY SetupTypes DEF FrameInv, Entry, EraseOf, Queued, PeerClose, Arrive, Reachable
<1>5. QueueInv'
  BY SetupTypes DEF QueueInv, Entry, Queued, PeerClose, Arrive, Reachable
<1>6. OnceInv'
  BY SetupTypes DEF OnceInv, PeerClose, Arrive, Reachable
<1>7. OpenInv'
  BY SetupTypes DEF OpenInv, PeerClose, Arrive, Reachable
<1>8. LiveInv'
  BY SetupTypes DEF LiveInv, Entry, DetachOf, Queued, PeerClose, Arrive, Reachable
<1>9. ActiveInv'
  BY SetupTypes DEF ActiveInv, PeerClose, Arrive, Reachable
<1>10. NoStuckInput'
  <2>1. SUFFICES ASSUME NEW d \in Conns, obj[d] = "open", "IN" \in interest[d],
                         state_[d] = "Connected", unread'[d] \/ fin'[d]
                  PROVE  \/ edge'[d]
                         \/ d \in active[loop[d]]
                         \/ /\ at[loop[d]].conn = d
                            /\ at[loop[d]].pc \in {"close", "disconnect"}
    BY DEF NoStuckInput, PeerClose
  <2>2. CASE d = c
    <3>1. edge'[d] = ("IN" \in interest[d])
      BY <2>2 DEF PeerClose, Arrive
    <3>2. QED
      BY <2>1, <3>1
  <2>3. CASE d # c
    <3>1. edge'[d] = edge[d] /\ unread'[d] = unread[d] /\ fin'[d] = fin[d]
      BY <2>3 DEF PeerClose, Arrive
    <3>2. QED
      BY <2>1, <3>1 DEF NoStuckInput
  <2>4. QED
    BY <2>2, <2>3
<1>11. QED
  BY <1>1, <1>2, <1>3, <1>4, <1>5, <1>6,
     <1>7, <1>8, <1>9, <1>10 DEF LifeInv

LEMMA PollLife ==
  ASSUME Known, NEW l \in Loops, Poll(l), UNCHANGED setup
  PROVE  LifeInv'
<1> USE DEF Known, Types, kernel, setup
<1>1. \A c \in Ready(l) : c \in Conns /\ obj[c] = "open" /\ loop[c] = l /\ "IN" \in interest[c]
  BY DEF Ready
<1>2. phase[l] = "poll" /\ \A c \in Conns : c \in active'[l] <=> c \in Ready(l)
  BY ServerAssumption DEF Poll, MainReady
<1>3. \A k \in Loops : k # l => active'[k] = active[k]
  BY DEF Poll
<1>4. SetupInv'
  BY SetupTypes DEF SetupInv, OneCloser, Poll
<1>5. LoopInv'
  BY SetupTypes DEF LoopInv, Poll
<1>6. UnsetInv'
  BY SetupTypes DEF UnsetInv, Poll
<1>7. FrameInv'
  BY DEF FrameInv, Entry, EraseOf, Queued, Poll
<1>8. QueueInv'
  BY DEF QueueInv, Entry, Queued, Poll
<1>9. OnceInv'
  BY SetupTypes DEF OnceInv, Poll
<1>10. OpenInv'
  BY SetupTypes DEF OpenInv, Poll
<1>11. LiveInv'
  BY DEF LiveInv, Entry, DetachOf, Queued, Poll
<1>12. ActiveInv'
  <2>1. SUFFICES ASSUME NEW k \in Loops, NEW c \in active'[k] \cap Conns
                  PROVE  obj[c] = "open" /\ interest[c] # {} /\ loop[c] = k /\ state_[c] # "unset"
    BY DEF ActiveInv, Poll
  <2>2. CASE k = l
    <3>1. c \in Ready(l)
      BY <1>2, <2>2
    <3>2. "IN" \in interest[c]
      BY <1>1, <3>1
    <3>3. QED
      BY <1>1, <2>2, <3>1, <3>2 DEF UnsetInv
  <2>3. CASE k # l
    BY <1>3, <2>3 DEF ActiveInv
  <2>4. QED
    BY <2>2, <2>3
<1>13. NoStuckInput'
  <2>1. SUFFICES ASSUME NEW d \in Conns, obj[d] = "open", "IN" \in interest[d],
                         state_[d] = "Connected", unread[d] \/ fin[d]
                  PROVE  \/ edge'[d]
                         \/ d \in active'[loop[d]]
                         \/ /\ at[loop[d]].conn = d
                            /\ at[loop[d]].pc \in {"close", "disconnect"}
    BY DEF NoStuckInput, Poll
  <2>2. CASE d \in Ready(l)
    BY <1>1, <1>2, <2>2
  <2>3. CASE d \notin Ready(l)
    <3>1. edge'[d] = (edge[d] /\ d \notin Ready(l))
      BY DEF Poll
    <3>2. CASE edge[d]
      BY <2>3, <3>1, <3>2
    <3>3. CASE ~edge[d]
      <4>1. \/ d \in active[loop[d]]
            \/ /\ at[loop[d]].conn = d
               /\ at[loop[d]].pc \in {"close", "disconnect"}
        BY <2>1, <3>3 DEF NoStuckInput
      <4>2. loop[d] = l => active[loop[d]] = {}
        BY <1>2 DEF LoopInv
      <4>3. QED
        BY <1>3, <4>1, <4>2
    <3>4. QED
      BY <3>2, <3>3
  <2>4. QED
    BY <2>2, <2>3
<1>14. QED
  BY <1>4, <1>5, <1>6, <1>7, <1>8, <1>9,
     <1>10, <1>11, <1>12, <1>13 DEF LifeInv

LEMMA EnterLife ==
  ASSUME Known, NEW l \in Loops, EnterDoToDoList(l), UNCHANGED setup
  PROVE  LifeInv'
<1> USE DEF Known, Types, kernel, setup
<1>1. phase[l] = "dispatch" /\ batch[l] = << >>
  BY DEF EnterDoToDoList, LoopInv
<1>2. \A k \in Loops : Queued(k)' = Queued(k)
  BY <1>1, EmptyHolds DEF EnterDoToDoList, Queued
<1>3. SetupInv'
  BY DEF SetupInv, OneCloser, EnterDoToDoList
<1>4. LoopInv'
  BY SetupTypes DEF LoopInv, EnterDoToDoList
<1>5. UnsetInv'
  BY SetupTypes DEF UnsetInv, EnterDoToDoList
<1>6. FrameInv'
  BY <1>1, <1>2, SetupTypes DEF FrameInv, Entry, EraseOf, Queued, EnterDoToDoList
<1>7. QueueInv'
  BY <1>1, <1>2, SetupTypes DEF QueueInv, Entry, Queued, EnterDoToDoList
<1>8. OnceInv'
  BY <1>1, <1>2, SetupTypes DEF OnceInv, EnterDoToDoList
<1>9. OpenInv'
  BY SetupTypes DEF OpenInv, EnterDoToDoList
<1>10. LiveInv'
  BY <1>1, <1>2, SetupTypes DEF LiveInv, Entry, DetachOf, Queued, EnterDoToDoList
<1>11. ActiveInv'
  BY SetupTypes DEF ActiveInv, EnterDoToDoList
<1>12. NoStuckInput'
  BY SetupTypes DEF NoStuckInput, EnterDoToDoList
<1>13. QED
  BY <1>3, <1>4, <1>5, <1>6, <1>7, <1>8,
     <1>9, <1>10, <1>11, <1>12 DEF LifeInv

LEMMA HandleMessageLife ==
  ASSUME Known, NEW l \in Loops, HandleMessage(l), UNCHANGED setup
  PROVE  LifeInv'
<1> USE DEF Known, Types, kernel, setup
<1>1. PICK c \in Conns : /\ phase[l] = "dispatch" /\ c \in active[l] /\ at[l] = Idle
                         /\ unread' = [unread EXCEPT ![c] = FALSE]
                         /\ active' = [active EXCEPT ![l] = @ \ {c}]
                         /\ at' = [at EXCEPT ![l] =
                              IF fin[c] THEN [pc |-> "close", conn |-> c, ret |-> "message"]
                              ELSE [pc |-> "message", conn |-> c, ret |-> "end"]]
  BY DEF HandleMessage, Dispatch
<1>2. /\ at'[l].pc = IF fin[c] THEN "close" ELSE "message"
      /\ at'[l].conn = c
      /\ \A k \in Loops : k # l => at'[k] = at[k]
  BY <1>1
<1>3. obj[c] = "open" /\ loop[c] = l /\ interest[c] # {} /\ state_[c] # "unset"
  BY <1>1 DEF ActiveInv
<1>4. at[l].pc = "idle"
  BY <1>1 DEF Idle
<1>5. SetupInv'
  BY SetupTypes DEF SetupInv, OneCloser, HandleMessage, Dispatch
<1>6. LoopInv'
  BY SetupTypes DEF LoopInv, HandleMessage, Dispatch
<1>7. UnsetInv'
  BY <1>3, <1>4, SetupTypes DEF UnsetInv, HandleMessage, Dispatch
<1>8. FrameInv'
  BY <1>1, <1>2, <1>3, <1>4, SetupTypes DEF FrameInv, Entry, EraseOf, Queued, HandleMessage
<1>9. QueueInv'
  BY DEF QueueInv, Entry, Queued, HandleMessage, Dispatch
<1>10. OnceInv'
  BY SetupTypes DEF OnceInv, HandleMessage, Dispatch
<1>11. OpenInv'
  BY SetupTypes DEF OpenInv, HandleMessage, Dispatch
<1>12. LiveInv'
  BY DEF LiveInv, Entry, DetachOf, Queued, HandleMessage, Dispatch
<1>13. ActiveInv'
  BY SetupTypes DEF ActiveInv, HandleMessage, Dispatch
<1>14. NoStuckInput'
  <2>1. SUFFICES ASSUME NEW d \in Conns, obj[d] = "open", "IN" \in interest[d],
                         state_[d] = "Connected", unread'[d] \/ fin[d]
                  PROVE  \/ edge'[d]
                         \/ d \in active'[loop[d]]
                         \/ /\ at'[loop[d]].conn = d
                            /\ at'[loop[d]].pc \in {"close", "disconnect"}
    BY DEF NoStuckInput, HandleMessage
  <2>2. CASE d = c
    <3>1. unread'[d] = FALSE
      BY <1>1, <2>2
    <3>2. fin[d] /\ loop[d] = l
      BY <1>3, <2>1, <2>2, <3>1
    <3>3. QED
      BY <1>2, <2>2, <3>2
  <2>3. CASE d # c
    <3>1. unread'[d] = unread[d]
      BY <1>1, <2>3
    <3>2. \/ edge[d]
          \/ d \in active[loop[d]]
          \/ /\ at[loop[d]].conn = d
             /\ at[loop[d]].pc \in {"close", "disconnect"}
      BY <2>1, <3>1 DEF NoStuckInput
    <3>3. edge' = edge /\ (d \in active[loop[d]] => d \in active'[loop[d]])
      BY <1>1, <2>3 DEF HandleMessage
    <3>4. loop[d] = l => at[loop[d]].pc = "idle"
      BY <1>4
    <3>5. loop[d] # l => at'[loop[d]] = at[loop[d]]
      BY <1>2
    <3>6. QED
      BY <3>2, <3>3, <3>4, <3>5
  <2>4. QED
    BY <2>2, <2>3
<1>15. QED
  BY <1>5, <1>6, <1>7, <1>8, <1>9, <1>10,
     <1>11, <1>12, <1>13, <1>14 DEF LifeInv

LEMMA onMessageLife ==
  ASSUME Known, NEW l \in Loops, onMessage(l), UNCHANGED setup
  PROVE  LifeInv'
<1> USE DEF Known, Types, kernel, setup
<1>1. /\ at[l].pc = "message" /\ at'[l].pc \in {"end", "close"} /\ at'[l].conn = at[l].conn
      /\ \A k \in Loops : k # l => at'[k] = at[k]
  BY MovesTo, MovesToClose DEF onMessage, Pcs
<1>2. SetupInv'
  BY DEF SetupInv, OneCloser, onMessage
<1>3. LoopInv'
  BY <1>1, SetupTypes DEF LoopInv, onMessage
<1>4. UnsetInv'
  BY <1>1, SetupTypes DEF UnsetInv, onMessage
<1>5. FrameInv'
  <2>1. SUFFICES ASSUME NEW k \in Loops
                  PROVE  /\ at'[k].pc \in {"new", "established", "connect", "erase"} => k = 0
                         /\ at'[k].conn \in Conns /\ at'[k].pc # "new" => obj[at'[k].conn] = "open"
                         /\ at'[k].pc = "established" => state_[at'[k].conn] = "unset"
                         /\ at'[k].pc = "connect" => state_[at'[k].conn] # "unset"
                         /\ at'[k].pc \in {"message", "close", "disconnect", "on_close", "erase"} =>
                               k = loop[at'[k].conn] /\ state_[at'[k].conn] # "unset"
                         /\ at'[k].pc = "disconnect" => state_[at'[k].conn] = "Connected"
                         /\ at'[k].pc \in {"on_close", "erase"} =>
                               /\ state_[at'[k].conn] = "Disconected"
                               /\ Entry(at'[k].conn)
                               /\ EraseOf(at'[k].conn) \notin Queued(0)
    BY DEF FrameInv, onMessage, Entry, Queued
  <2>2. CASE k = l
    <3>1. at[l] \in Frames /\ at[l].conn \in Conns
      BY <1>1 DEF Frames, Pcs
    <3>2. loop[at[l].conn] = l /\ state_[at[l].conn] # "unset" /\ obj[at[l].conn] = "open"
      BY <1>1, <3>1 DEF FrameInv
    <3>3. QED
      BY <1>1, <2>2, <3>1, <3>2
  <2>3. CASE k # l
    BY <1>1, <2>3 DEF FrameInv
  <2>4. QED
    BY <2>2, <2>3
<1>6. QueueInv'
  BY SetupTypes DEF QueueInv, Entry, Queued, onMessage
<1>7. OnceInv'
  BY <1>1, SetupTypes DEF OnceInv, onMessage
<1>8. OpenInv'
  BY <1>1, SetupTypes DEF OpenInv, onMessage
<1>9. LiveInv'
  BY <1>1, SetupTypes DEF LiveInv, Entry, DetachOf, Queued, onMessage
<1>10. ActiveInv'
  BY <1>1, SetupTypes DEF ActiveInv, onMessage
<1>11. NoStuckInput'
  <2>1. SUFFICES ASSUME NEW d \in Conns, obj[d] = "open", "IN" \in interest[d],
                         state_[d] = "Connected", unread[d] \/ fin[d]
                  PROVE  \/ edge'[d]
                         \/ d \in active'[loop[d]]
                         \/ /\ at'[loop[d]].conn = d
                            /\ at'[loop[d]].pc \in {"close", "disconnect"}
    BY DEF NoStuckInput, onMessage
  <2>2. \/ edge[d]
        \/ d \in active[loop[d]]
        \/ /\ at[loop[d]].conn = d
           /\ at[loop[d]].pc \in {"close", "disconnect"}
    BY <2>1 DEF NoStuckInput
  <2>3. edge' = edge /\ (d \in active[loop[d]] => d \in active'[loop[d]])
    BY DEF onMessage
  <2>4. loop[d] = l => at[loop[d]].pc \notin {"close", "disconnect"}
    BY <1>1
  <2>5. loop[d] # l => at'[loop[d]] = at[loop[d]]
    BY <1>1
  <2>6. QED
    BY <2>2, <2>3, <2>4, <2>5
<1>12. QED
  BY <1>2, <1>3, <1>4, <1>5, <1>6, <1>7,
     <1>8, <1>9, <1>10, <1>11 DEF LifeInv

LEMMA TestStateLife ==
  ASSUME Known, NEW l \in Loops, TestState(l), UNCHANGED setup
  PROVE  LifeInv'
<1> USE DEF Known, Types, kernel, setup
<1>1. at[l] \in Frames /\ at[l].pc = "close"
  BY DEF TestState
<1>2. /\ at'[l].pc = IF state_[at[l].conn] # "Disconected" THEN "disconnect" ELSE at[l].ret
      /\ at'[l].conn = at[l].conn
      /\ \A k \in Loops : k # l => at'[k] = at[k]
  <2>1. (IF state_[at[l].conn] # "Disconected" THEN "disconnect" ELSE at[l].ret) \in Pcs
    BY <1>1 DEF Frames, Pcs
  <2>2. QED
    BY <1>1, <2>1, MovesTo DEF TestState
<1>3. at[l].conn \in Conns /\ at[l].ret \in {"idle", "message", "end"}
  BY <1>1 DEF Frames
<1>4. SetupInv'
  BY SetupTypes DEF SetupInv, OneCloser, TestState
<1>5. LoopInv'
  BY SetupTypes DEF LoopInv, TestState
<1>6. UnsetInv'
  BY SetupTypes DEF UnsetInv, TestState
<1>7. FrameInv'
  BY <1>1, <1>2, <1>3, SetupTypes, SMTT(60) DEF FrameInv, Entry, EraseOf, Queued, TestState
<1>8. QueueInv'
  BY DEF QueueInv, Entry, Queued, TestState
<1>9. OnceInv'
  BY SetupTypes DEF OnceInv, TestState
<1>10. OpenInv'
  BY SetupTypes DEF OpenInv, TestState
<1>11. LiveInv'
  BY DEF LiveInv, Entry, DetachOf, Queued, TestState
<1>12. ActiveInv'
  BY SetupTypes DEF ActiveInv, TestState
<1>13. NoStuckInput'
  BY SetupTypes DEF NoStuckInput, TestState
<1>14. QED
  BY <1>4, <1>5, <1>6, <1>7, <1>8, <1>9,
     <1>10, <1>11, <1>12, <1>13 DEF LifeInv

LEMMA SetStateLife ==
  ASSUME Known, NEW l \in Loops, SetState(l), UNCHANGED setup
  PROVE  LifeInv'
<1> USE DEF Known, Types, kernel, setup
<1>1. /\ at[l].pc = "disconnect" /\ at'[l].pc = "on_close" /\ at'[l].conn = at[l].conn
      /\ \A k \in Loops : k # l => at'[k] = at[k]
  BY MovesTo DEF SetState, Pcs
<1>2. PICK c \in Conns : c = at[l].conn
  BY <1>1 DEF Frames
<1>3. /\ obj[c] = "open" /\ l = loop[c] /\ state_[c] = "Connected" /\ Entry(c)
      /\ state_' = [state_ EXCEPT ![c] = "Disconected"]
  BY <1>1, <1>2 DEF SetState, FrameInv, LiveInv
<1>4. UNCHANGED <<obj, kernel, interest, edge, connectionsMap_, next_, timers, phase, active,
                     todo, batch, held>>
  BY DEF SetState
<1>5. EraseOf(c) \notin Queued(0)
  BY <1>3, SetupTypes DEF QueueInv, EraseOf, Functor
<1>6. \A k \in Loops : \A f \in Queued(k) : f.conn \in Conns
  BY QueuedFunctors DEF Known
<1>7. \A k \in Loops : Queued(k)' = Queued(k)
  BY <1>4 DEF Queued
<1>8. SetupInv'
  BY <1>1, <1>2, <1>3, <1>4, <1>5, <1>6, <1>7, SetupTypes DEF SetupInv, OneCloser
<1>9. LoopInv'
  BY <1>3, <1>4, <1>5, <1>6, <1>7, SetupTypes DEF LoopInv, Frames
<1>10. UnsetInv'
  BY <1>1, <1>2, <1>3, <1>4, <1>5, <1>6, <1>7, SetupTypes, ZenonT(60) DEF UnsetInv, Frames
<1>11. FrameInv'
  <2>1. SUFFICES ASSUME NEW k \in Loops
                  PROVE  /\ at'[k].pc \in {"new", "established", "connect", "erase"} => k = 0
                         /\ at'[k].conn \in Conns /\ at'[k].pc # "new" => obj[at'[k].conn] = "open"
                         /\ at'[k].pc = "established" => state_'[at'[k].conn] = "unset"
                         /\ at'[k].pc = "connect" => state_'[at'[k].conn] # "unset"
                         /\ at'[k].pc \in {"message", "close", "disconnect", "on_close", "erase"} =>
                               k = loop[at'[k].conn] /\ state_'[at'[k].conn] # "unset"
                         /\ at'[k].pc = "disconnect" => state_'[at'[k].conn] = "Connected"
                         /\ at'[k].pc \in {"on_close", "erase"} =>
                               /\ state_'[at'[k].conn] = "Disconected"
                               /\ Entry(at'[k].conn)
                               /\ EraseOf(at'[k].conn) \notin Queued(0)
    BY <1>4, <1>7, SetupTypes DEF FrameInv, Entry
  <2>2. CASE k = l
    BY <1>1, <1>2, <1>3, <1>5, <2>2
  <2>3. CASE k # l
    <3>1. at'[k] = at[k] /\ at[k] \in Frames
      BY <1>1, <2>3
    <3>2. CASE at[k].conn = c
      BY <1>3, <2>3, <3>1, <3>2 DEF FrameInv
    <3>3. CASE at[k].conn # c
      <4>1. at[k].conn \in Conns => state_'[at[k].conn] = state_[at[k].conn]
        BY <1>3, <3>3
      <4>2. at[k].pc # "idle" => at[k].conn \in Conns
        BY <3>1 DEF Frames
      <4>3. QED
        BY <3>1, <4>1, <4>2 DEF FrameInv
    <3>4. QED
      BY <3>2, <3>3
  <2>4. QED
    BY <2>2, <2>3
<1>12. QueueInv'
  <2>1. \A k \in Loops : \A f \in Queued(k) : state_[f.conn] = "Disconected" => state_'[f.conn] = "Disconected"
    BY <1>3, <1>6
  <2>2. QED
    BY <1>4, <1>7, <2>1 DEF QueueInv, Entry
<1>13. OnceInv'
  BY <1>3, <1>4, <1>5, <1>6, <1>7, SetupTypes DEF OnceInv, Frames
<1>14. OpenInv'
  BY <1>3, <1>4, <1>5, <1>6, <1>7, SetupTypes DEF OpenInv, Frames
<1>15. LiveInv'
  BY <1>1, <1>2, <1>3, <1>4, <1>5, <1>6, <1>7, SetupTypes DEF LiveInv, Entry, DetachOf, Queued
<1>16. ActiveInv'
  BY <1>3, <1>4, <1>5, <1>6, <1>7, SetupTypes DEF ActiveInv, Frames
<1>17. NoStuckInput'
  <2>1. SUFFICES ASSUME NEW d \in Conns, obj[d] = "open", "IN" \in interest[d],
                         state_'[d] = "Connected", unread[d] \/ fin[d]
                  PROVE  \/ edge'[d]
                         \/ d \in active'[loop[d]]
                         \/ /\ at'[loop[d]].conn = d
                            /\ at'[loop[d]].pc \in {"close", "disconnect"}
    BY <1>4 DEF NoStuckInput
  <2>2. d # c /\ state_[d] = "Connected"
    BY <1>3, <2>1
  <2>3. \/ edge[d]
        \/ d \in active[loop[d]]
        \/ /\ at[loop[d]].conn = d
           /\ at[loop[d]].pc \in {"close", "disconnect"}
    BY <2>1, <2>2 DEF NoStuckInput
  <2>4. QED
    BY <1>1, <1>2, <1>4, <2>2, <2>3
<1>18. QED
  BY <1>8, <1>9, <1>10, <1>11, <1>12, <1>13,
     <1>14, <1>15, <1>16, <1>17 DEF LifeInv

LEMMA ConnectionEstablishedLife ==
  ASSUME Known, ConnectionEstablished, UNCHANGED setup
  PROVE  LifeInv'
<1> USE DEF Known, Types, kernel, setup
<1>1. /\ at[0].pc = "established" /\ at'[0].pc = "connect" /\ at'[0].conn = at[0].conn
      /\ \A k \in Loops : k # 0 => at'[k] = at[k]
  BY MovesTo, SetupTypes DEF ConnectionEstablished, Pcs
<1>2. PICK c \in Conns : c = at[0].conn
  BY <1>1, SetupTypes DEF Frames
<1>3. /\ obj[c] = "open" /\ state_[c] = "unset" /\ interest[c] = {"ET"} /\ Entry(c)
      /\ state_' = [state_ EXCEPT ![c] = "Connected"]
      /\ interest' = [interest EXCEPT ![c] = @ \cup {"IN"}]
      /\ edge' = [edge EXCEPT ![c] = unread[c] \/ fin[c]]
  BY <1>1, <1>2, SetupTypes DEF ConnectionEstablished, FrameInv, UnsetInv, LiveInv
<1>4. SetupInv'
  BY SetupTypes DEF SetupInv, OneCloser, ConnectionEstablished
<1>5. LoopInv'
  BY SetupTypes DEF LoopInv, ConnectionEstablished
<1>6. UnsetInv'
  BY <1>2, <1>3, SetupTypes DEF UnsetInv, ConnectionEstablished
<1>7. FrameInv'
  BY <1>1, <1>2, <1>3, SetupTypes DEF FrameInv, Entry, EraseOf, Queued, ConnectionEstablished
<1>8. QueueInv'
  BY <1>1, <1>2, <1>3, SetupTypes DEF QueueInv, Entry, Queued, ConnectionEstablished
<1>9. OnceInv'
  BY SetupTypes DEF OnceInv, ConnectionEstablished
<1>10. OpenInv'
  BY SetupTypes DEF OpenInv, ConnectionEstablished
<1>11. LiveInv'
  <2>1. SUFFICES ASSUME NEW d \in Conns, obj[d] = "open"
                  PROVE  /\ fd[d] \in Fds
                         /\ state_'[d] # "Disconected" => connectionsMap_[fd[d]] = d
                         /\ connectionsMap_[fd[d]] = d => interest'[d] # {}
                         /\ connectionsMap_[fd[d]] # d /\ interest'[d] # {} =>
                              DetachOf(d) \in Queued(loop[d])
    BY DEF LiveInv, ConnectionEstablished, Entry, Queued
  <2>2. CASE d = c
    <3>1. "IN" \in interest'[d]
      BY <1>3, <2>2
    <3>2. QED
      BY <1>3, <2>1, <2>2, <3>1 DEF LiveInv, Entry
  <2>3. CASE d # c
    BY <1>3, <2>1, <2>3 DEF LiveInv, Entry
  <2>4. QED
    BY <2>2, <2>3
<1>12. ActiveInv'
  BY SetupTypes DEF ActiveInv, ConnectionEstablished
<1>13. NoStuckInput'
  BY SetupTypes DEF NoStuckInput, ConnectionEstablished
<1>14. QED
  BY <1>4, <1>5, <1>6, <1>7, <1>8, <1>9,
     <1>10, <1>11, <1>12, <1>13 DEF LifeInv

LEMMA onConnectionLife ==
  ASSUME Known, onConnection, UNCHANGED setup
  PROVE  LifeInv'
<1> USE DEF Known, Types, kernel, setup
<1>1. /\ at[0].pc = "connect" /\ at'[0].pc = "end" /\ at'[0].conn = at[0].conn
      /\ \A k \in Loops : k # 0 => at'[k] = at[k]
  BY MovesTo, SetupTypes DEF onConnection, Pcs
<1>2. PICK c \in Conns : c = at[0].conn /\ state_[c] # "unset"
  BY <1>1, SetupTypes DEF Frames, FrameInv
<1>3. timers' = IF auto_close_conn_ THEN timers \cup {c} ELSE timers
  BY <1>2 DEF onConnection
<1>4. SetupInv'
  BY <1>1, <1>2, <1>3, SetupTypes DEF SetupInv, OneCloser, onConnection
<1>5. LoopInv'
  BY SetupTypes DEF LoopInv, onConnection
<1>6. UnsetInv'
  BY SetupTypes DEF UnsetInv, onConnection
<1>7. FrameInv'
  BY DEF FrameInv, Entry, EraseOf, Queued, onConnection
<1>8. QueueInv'
  BY DEF QueueInv, Entry, Queued, onConnection
<1>9. OnceInv'
  BY SetupTypes DEF OnceInv, onConnection
<1>10. OpenInv'
  BY SetupTypes DEF OpenInv, onConnection
<1>11. LiveInv'
  BY DEF LiveInv, Entry, DetachOf, Queued, onConnection
<1>12. ActiveInv'
  BY SetupTypes DEF ActiveInv, onConnection
<1>13. NoStuckInput'
  BY SetupTypes DEF NoStuckInput, onConnection
<1>14. QED
  BY <1>4, <1>5, <1>6, <1>7, <1>8, <1>9,
     <1>10, <1>11, <1>12, <1>13 DEF LifeInv

LEMMA AcceptLife ==
  ASSUME Known, Accept, UNCHANGED setup
  PROVE  LifeInv'
<1> USE DEF Known, Types, kernel, setup
<1>1. PICK c \in Conns, f \in Fds \ FdsInUse :
          /\ obj[c] = "backlog" /\ phase[0] = "dispatch" /\ at[0] = Idle
          /\ active' = [active EXCEPT ![0] = @ \ {Acceptor}]
          /\ at' = [at EXCEPT ![0] = [pc |-> "new", conn |-> c, ret |-> "end"]]
          /\ obj' = [obj EXCEPT ![c] = "accepted"]
          /\ fd' = [fd EXCEPT ![c] = f]
  BY DEF Accept, Dispatch
<1>2. /\ at'[0].pc = "new" /\ at'[0].conn = c
      /\ \A k \in Loops : k # 0 => at'[k] = at[k]
  BY <1>1, SetupTypes
<1>3. at[0].pc = "idle"
  BY <1>1 DEF Idle
<1>4. SetupInv'
  BY DEF SetupInv, OneCloser, Accept, Dispatch
<1>5. LoopInv'
  BY SetupTypes DEF LoopInv, Accept, Dispatch
<1>6. UnsetInv'
  BY <1>1, <1>2, <1>3, SetupTypes DEF UnsetInv, Accept
<1>7. FrameInv'
  BY <1>3, SetupTypes DEF FrameInv, Entry, EraseOf, Queued, Accept, Dispatch
<1>8. QueueInv'
  BY DEF QueueInv, Entry, Queued, Accept, Dispatch
<1>9. OnceInv'
  BY SetupTypes DEF OnceInv, Accept, Dispatch
<1>10. OpenInv'
  BY SetupTypes DEF OpenInv, Accept, Dispatch
<1>11. LiveInv'
  BY <1>3, SetupTypes DEF LiveInv, Entry, DetachOf, Queued, Accept, Dispatch
<1>12. ActiveInv'
  BY SetupTypes DEF ActiveInv, Accept, Dispatch
<1>13. NoStuckInput'
  <2>1. SUFFICES ASSUME NEW d \in Conns, obj'[d] = "open", "IN" \in interest[d],
                         state_[d] = "Connected", unread[d] \/ fin[d]
                  PROVE  \/ edge'[d]
                         \/ d \in active'[loop[d]]
                         \/ /\ at'[loop[d]].conn = d
                            /\ at'[loop[d]].pc \in {"close", "disconnect"}
    BY DEF NoStuckInput, Accept
  <2>0. obj[d] = "open"
    BY <1>1, <2>1
  <2>2. \/ edge[d]
        \/ d \in active[loop[d]]
        \/ /\ at[loop[d]].conn = d
           /\ at[loop[d]].pc \in {"close", "disconnect"}
    BY <2>0, <2>1 DEF NoStuckInput
  <2>3. edge' = edge /\ (d \in active[loop[d]] => d \in active'[loop[d]])
    BY <1>1, ServerAssumption, SetupTypes DEF Accept
  <2>4. loop[d] = 0 => at[loop[d]].pc \notin {"close", "disconnect"}
    BY <1>3
  <2>5. loop[d] # 0 => at'[loop[d]] = at[loop[d]]
    BY <1>2
  <2>6. QED
    BY <2>2, <2>3, <2>4, <2>5
<1>14. QED
  BY <1>4, <1>5, <1>6, <1>7, <1>8, <1>9,
     <1>10, <1>11, <1>12, <1>13 DEF LifeInv

LEMMA ActiveCloseConnLife ==
  ASSUME Known, ActiveCloseConn, UNCHANGED setup
  PROVE  LifeInv'
<1> USE DEF Known, Types, kernel, setup
<1>1. PICK c \in timers, fr \in Frames :
          /\ phase[0] = "dispatch" /\ at[0] = Idle
          /\ active' = [active EXCEPT ![0] = @ \ {Timerfd}]
          /\ at' = [at EXCEPT ![0] = fr]
          /\ timers' \in {timers, timers \ {c}}
          /\ fr = Idle \/ (obj[c] = "open" /\ fr = [pc |-> "close", conn |-> c, ret |-> "end"])
  <2>1. Idle \in Frames /\ \A c \in Conns : [pc |-> "close", conn |-> c, ret |-> "end"] \in Frames
    BY DEF Idle, Frames, Pcs
  <2>2. QED
    BY <2>1 DEF ActiveCloseConn, Dispatch
<1>2. /\ \/ at'[0].pc = "idle" /\ at'[0].conn = NoConn
         \/ at'[0].pc = "close" /\ at'[0].conn = c /\ obj[c] = "open"
      /\ \A k \in Loops : k # 0 => at'[k] = at[k]
  BY <1>1, SetupTypes DEF Idle
<1>3. c \in Conns /\ loop[c] = 0 /\ state_[c] # "unset"
  BY DEF SetupInv, OneCloser
<1>4. at[0].pc = "idle"
  BY <1>1 DEF Idle
<1>5. SetupInv'
  BY SetupTypes DEF SetupInv, OneCloser, ActiveCloseConn, Dispatch
<1>6. LoopInv'
  BY SetupTypes DEF LoopInv, ActiveCloseConn, Dispatch
<1>7. UnsetInv'
  BY <1>3, <1>4, SetupTypes DEF UnsetInv, ActiveCloseConn, Dispatch
<1>8. FrameInv'
  BY <1>1, <1>2, <1>3, <1>4, SetupTypes DEF FrameInv, Entry, EraseOf, Queued, ActiveCloseConn
<1>9. QueueInv'
  BY DEF QueueInv, Entry, Queued, ActiveCloseConn, Dispatch
<1>10. OnceInv'
  BY SetupTypes DEF OnceInv, ActiveCloseConn, Dispatch
<1>11. OpenInv'
  BY SetupTypes DEF OpenInv, ActiveCloseConn, Dispatch
<1>12. LiveInv'
  BY DEF LiveInv, Entry, DetachOf, Queued, ActiveCloseConn, Dispatch
<1>13. ActiveInv'
  BY <1>1, <1>2, <1>3, <1>4, SetupTypes DEF ActiveInv, ActiveCloseConn, Dispatch
<1>14. NoStuckInput'
  <2>1. SUFFICES ASSUME NEW d \in Conns, obj[d] = "open", "IN" \in interest[d],
                         state_[d] = "Connected", unread[d] \/ fin[d]
                  PROVE  \/ edge'[d]
                         \/ d \in active'[loop[d]]
                         \/ /\ at'[loop[d]].conn = d
                            /\ at'[loop[d]].pc \in {"close", "disconnect"}
    BY DEF NoStuckInput, ActiveCloseConn
  <2>2. \/ edge[d]
        \/ d \in active[loop[d]]
        \/ /\ at[loop[d]].conn = d
           /\ at[loop[d]].pc \in {"close", "disconnect"}
    BY <2>1 DEF NoStuckInput
  <2>3. edge' = edge /\ (d \in active[loop[d]] => d \in active'[loop[d]])
    BY <1>1, ServerAssumption, SetupTypes DEF ActiveCloseConn
  <2>4. loop[d] = 0 => at[loop[d]].pc \notin {"close", "disconnect"}
    BY <1>4
  <2>5. loop[d] # 0 => at'[loop[d]] = at[loop[d]]
    BY <1>2
  <2>6. QED
    BY <2>2, <2>3, <2>4, <2>5
<1>15. QED
  BY <1>5, <1>6, <1>7, <1>8, <1>9, <1>10,
     <1>11, <1>12, <1>13, <1>14 DEF LifeInv

LEMMA HandleCloseHere ==
  ASSUME Known, HandleClose(0), UNCHANGED setup
  PROVE  LifeInv'
<1> USE DEF Known, Types, kernel, setup
<1>1. /\ at[0].pc = "on_close" /\ at'[0].pc = "erase" /\ at'[0].conn = at[0].conn
      /\ \A k \in Loops : k # 0 => at'[k] = at[k]
  BY MovesTo, SetupTypes DEF HandleClose, Pcs
<1>2. UNCHANGED <<obj, kernel, state_, interest, edge, connectionsMap_, next_, timers, phase,
                     active, todo, batch, held>>
  BY DEF HandleClose
<1>3. \A k \in Loops : Queued(k)' = Queued(k)
  BY <1>2 DEF Queued
<1>4. SetupInv'
  BY <1>1, <1>2, <1>3, SetupTypes DEF SetupInv, OneCloser
<1>5. LoopInv'
  BY <1>2, <1>3, SetupTypes DEF LoopInv, Frames
<1>6. UnsetInv'
  BY <1>1, <1>2, <1>3, SetupTypes DEF UnsetInv, Frames
<1>7. FrameInv'
  BY <1>1, <1>2, <1>3, SetupTypes DEF FrameInv, Entry, EraseOf, Queued
<1>8. QueueInv'
  BY <1>1, <1>2, <1>3, SetupTypes DEF QueueInv, Entry, Queued, Frames
<1>9. OnceInv'
  BY <1>2, <1>3, SetupTypes DEF OnceInv, Frames
<1>10. OpenInv'
  BY <1>2, <1>3, SetupTypes DEF OpenInv, Frames
<1>11. LiveInv'
  BY <1>1, <1>2, <1>3, SetupTypes DEF LiveInv, Entry, DetachOf, Queued
<1>12. ActiveInv'
  BY <1>2, <1>3, SetupTypes DEF ActiveInv, Frames
<1>13. NoStuckInput'
  <2>1. SUFFICES ASSUME NEW d \in Conns, obj[d] = "open", "IN" \in interest[d],
                         state_[d] = "Connected", unread[d] \/ fin[d]
                  PROVE  \/ edge'[d]
                         \/ d \in active'[loop[d]]
                         \/ /\ at'[loop[d]].conn = d
                            /\ at'[loop[d]].pc \in {"close", "disconnect"}
    BY <1>2 DEF NoStuckInput
  <2>2. \/ edge[d]
        \/ d \in active[loop[d]]
        \/ /\ at[loop[d]].conn = d
           /\ at[loop[d]].pc \in {"close", "disconnect"}
    BY <2>1 DEF NoStuckInput
  <2>3. edge' = edge /\ active' = active
    BY <1>2
  <2>4. CASE loop[d] = 0
    BY <1>1, <2>2, <2>3, <2>4
  <2>5. CASE loop[d] # 0
    BY <1>1, <2>2, <2>3, <2>5
  <2>6. QED
    BY <2>4, <2>5
<1>14. QED
  BY <1>4, <1>5, <1>6, <1>7, <1>8, <1>9,
     <1>10, <1>11, <1>12, <1>13 DEF LifeInv

LEMMA HandleCloseThere ==
  ASSUME Known, NEW l \in Loops, l # 0, HandleClose(l), UNCHANGED setup
  PROVE  LifeInv'
<1> USE DEF Known, Types, kernel, setup
<1>1. at[l] \in Frames /\ at[l].pc = "on_close" /\ at[l].ret \in {"idle", "message", "end"}
  BY DEF HandleClose, Frames
<1>2. PICK c \in Conns : c = at[l].conn
  BY <1>1 DEF Frames
<1>3. /\ at'[l].pc \in {"idle", "message", "end"} /\ at'[l].conn = c
      /\ \A k \in Loops : k # l => at'[k] = at[k]
  BY <1>1, <1>2, MovesTo DEF HandleClose, Pcs
<1>4. /\ obj[c] = "open" /\ state_[c] = "Disconected" /\ loop[c] = l
      /\ Entry(c) /\ EraseOf(c) \notin Queued(0)
  BY <1>1, <1>2 DEF FrameInv
<1>5. UNCHANGED <<obj, kernel, state_, interest, edge, connectionsMap_, next_, timers, phase,
                     active, batch, held>>
  BY DEF HandleClose
<1>6. EraseOf(c) \in Functors /\ EraseOf(c).conn = c /\ EraseOf(c).op = "HandleCloseInLoop"
      /\ \A d : d # c => EraseOf(d) # EraseOf(c)
  BY DEF EraseOf, Functor, Functors
<1>7. todo' = [todo EXCEPT ![0] = Append(todo[0], EraseOf(c))]
  BY <1>2 DEF HandleClose, EraseOf
<1>8. PICK s \in Seq(Functors) : /\ s = Append(todo[0], EraseOf(c))
                                  /\ ToSet(s) = ToSet(todo[0]) \cup {EraseOf(c)}
                                  /\ \A f : Once(todo[0], f) /\ (EraseOf(c) = f => f \notin ToSet(todo[0])) => Once(s, f)
  <2>1. todo[0] \in Seq(Functors)
    BY SetupTypes
  <2>2. PICK x \in Functors : x = EraseOf(c)
    BY <1>6
  <2>3. /\ Append(todo[0], x) \in Seq(Functors)
        /\ ToSet(Append(todo[0], x)) = ToSet(todo[0]) \cup {x}
        /\ \A f : Once(todo[0], f) /\ (x = f => f \notin ToSet(todo[0])) => Once(Append(todo[0], x), f)
    BY <2>1, AppendHolds
  <2>4. QED
    BY <2>2, <2>3
<1>9. todo'[0] = s /\ \A k \in Loops : k # 0 => todo'[k] = todo[k]
  BY <1>7, <1>8, SetupTypes
<1>10. /\ Queued(0)' = Queued(0) \cup {EraseOf(c)}
       /\ \A k \in Loops : k # 0 => Queued(k)' = Queued(k)
  BY <1>5, <1>8, <1>9 DEF Queued
<1>11. SetupInv'
  BY <1>4, <1>5, <1>6, <1>7, <1>8, <1>9, <1>10, SetupTypes DEF SetupInv, OneCloser, Frames
<1>12. LoopInv'
  BY <1>1, <1>2, <1>3, <1>4, <1>5, <1>6, <1>7, <1>8, <1>9, <1>10, SetupTypes DEF LoopInv
<1>13. UnsetInv'
  BY <1>1, <1>2, <1>3, <1>4, <1>5, <1>6, <1>7, <1>8, <1>9, <1>10, SetupTypes DEF UnsetInv
<1>14. FrameInv'
  <2>1. SUFFICES ASSUME NEW k \in Loops
                  PROVE  /\ at'[k].pc \in {"new", "established", "connect", "erase"} => k = 0
                         /\ at'[k].conn \in Conns /\ at'[k].pc # "new" => obj[at'[k].conn] = "open"
                         /\ at'[k].pc = "established" => state_[at'[k].conn] = "unset"
                         /\ at'[k].pc = "connect" => state_[at'[k].conn] # "unset"
                         /\ at'[k].pc \in {"message", "close", "disconnect", "on_close", "erase"} =>
                               k = loop[at'[k].conn] /\ state_[at'[k].conn] # "unset"
                         /\ at'[k].pc = "disconnect" => state_[at'[k].conn] = "Connected"
                         /\ at'[k].pc \in {"on_close", "erase"} =>
                               /\ state_[at'[k].conn] = "Disconected"
                               /\ Entry(at'[k].conn)
                               /\ EraseOf(at'[k].conn) \notin (Queued(0) \cup {EraseOf(c)})
    BY <1>5, <1>10 DEF FrameInv, Entry
  <2>2. CASE k = l
    BY <1>2, <1>3, <1>4, <2>2
  <2>3. CASE k # l
    <3>1. at'[k] = at[k] /\ at[k] \in Frames
      BY <1>3, <2>3
    <3>2. CASE at[k].conn = c
      BY <1>4, <2>3, <3>1, <3>2 DEF FrameInv
    <3>3. CASE at[k].conn # c
      BY <1>6, <3>1, <3>3 DEF FrameInv
    <3>4. QED
      BY <3>2, <3>3
  <2>4. QED
    BY <2>2, <2>3
<1>15. QueueInv'
  BY <1>1, <1>2, <1>3, <1>4, <1>5, <1>6, <1>7, <1>8, <1>9, <1>10, SetupTypes DEF QueueInv, Entry, Queued, Frames
<1>16. OnceInv'
  <2>1. EraseOf(c) \notin ToSet(todo[0]) /\ EraseOf(c) \notin ToSet(batch[0])
    BY <1>4 DEF Queued
  <2>2. \A d \in Conns : Once(s, EraseOf(d))
    BY <1>8, <2>1 DEF OnceInv
  <2>3. batch'[0] = batch[0]
    BY <1>5
  <2>4. QED
    BY <1>6, <1>8, <1>9, <2>1, <2>2, <2>3 DEF OnceInv
<1>17. OpenInv'
  BY <1>1, <1>2, <1>3, <1>4, <1>5, <1>6, <1>7, <1>8, <1>9, <1>10, SetupTypes DEF OpenInv
<1>18. LiveInv'
  BY <1>5, <1>6, <1>7, <1>8, <1>9, <1>10, SetupTypes DEF LiveInv, Entry, DetachOf, Queued, Frames
<1>19. ActiveInv'
  BY <1>1, <1>2, <1>3, <1>4, <1>5, <1>6, <1>7, <1>8, <1>9, <1>10, SetupTypes DEF ActiveInv
<1>20. NoStuckInput'
  <2>1. SUFFICES ASSUME NEW d \in Conns, obj[d] = "open", "IN" \in interest[d],
                         state_[d] = "Connected", unread[d] \/ fin[d]
                  PROVE  \/ edge'[d]
                         \/ d \in active'[loop[d]]
                         \/ /\ at'[loop[d]].conn = d
                            /\ at'[loop[d]].pc \in {"close", "disconnect"}
    BY <1>5 DEF NoStuckInput
  <2>2. \/ edge[d]
        \/ d \in active[loop[d]]
        \/ /\ at[loop[d]].conn = d
           /\ at[loop[d]].pc \in {"close", "disconnect"}
    BY <2>1 DEF NoStuckInput
  <2>3. edge' = edge /\ active' = active
    BY <1>5
  <2>4. CASE loop[d] = l
    BY <1>1, <1>3, <2>2, <2>3
  <2>5. CASE loop[d] # l
    BY <1>3, <2>2, <2>3, <2>5
  <2>6. QED
    BY <2>4, <2>5
<1>21. QED
  BY <1>11, <1>12, <1>13, <1>14, <1>15, <1>16,
     <1>17, <1>18, <1>19, <1>20 DEF LifeInv

LEMMA ConnectionDestructorLife ==
  ASSUME Known, NEW l \in Loops, ConnectionDestructor(l), UNCHANGED setup
  PROVE  LifeInv'
<1> USE DEF Known, Types, kernel, setup
<1>1. PICK c \in Conns : /\ phase[l] = "functors" /\ batch[l] # << >>
                         /\ Head(batch[l]) = DetachOf(c)
                         /\ batch' = [batch EXCEPT ![l] = Tail(@)]
                         /\ held' = [held EXCEPT ![l] = @ \cup {c}]
                         /\ interest' = [interest EXCEPT ![c] = {}]
  BY DEF ConnectionDestructor, StartFunctor, DetachOf
<1>2. UNCHANGED <<obj, kernel, state_, edge, connectionsMap_, next_, timers, phase, active, at, todo>>
  BY DEF ConnectionDestructor, StartFunctor
<1>3. PICK s \in Seq(Functors) :
          /\ s = Tail(batch[l]) /\ ToSet(batch[l]) = ToSet(s) \cup {DetachOf(c)}
          /\ \A f : Once(batch[l], f) => Once(s, f)
  <2>1. batch[l] \in Seq(Functors)
    OBVIOUS
  <2>2. QED
    BY <1>1, <2>1, TailHolds
<1>4. batch'[l] = s /\ \A k \in Loops : k # l => batch'[k] = batch[k]
  BY <1>1, <1>3
<1>5. /\ Queued(l) = Queued(l)' \cup {DetachOf(c)}
      /\ \A k \in Loops : k # l => Queued(k)' = Queued(k)
  BY <1>2, <1>3, <1>4 DEF Queued
<1>6. /\ DetachOf(c).conn = c /\ DetachOf(c).op = "ConnectionDestructor"
      /\ \A d : d # c => DetachOf(d) # DetachOf(c)
  BY DEF DetachOf, Functor
<1>7. obj[c] = "open" /\ state_[c] = "Disconected" /\ loop[c] = l /\ ~Entry(c) /\ active[l] = {}
  BY <1>1, <1>5, <1>6, ZenonT(60) DEF QueueInv, LoopInv
<1>8. \A k \in Loops : Queued(k)' \subseteq Queued(k)
  BY <1>5
<1>9. SetupInv'
  BY <1>1, <1>2, <1>3, <1>4, <1>5, <1>6, <1>7, <1>8, SetupTypes DEF SetupInv, OneCloser, Frames
<1>10. LoopInv'
  BY <1>1, <1>2, <1>3, <1>4, <1>5, <1>6, <1>7, <1>8, SetupTypes DEF LoopInv
<1>11. UnsetInv'
  BY <1>1, <1>2, <1>3, <1>4, <1>5, <1>6, <1>7, <1>8, SetupTypes DEF UnsetInv
<1>12. FrameInv'
  BY <1>1, <1>2, <1>3, <1>4, <1>5, <1>6, <1>7, <1>8, SetupTypes DEF FrameInv, Entry, EraseOf, Queued, Frames
<1>13. QueueInv'
  BY <1>1, <1>2, <1>3, <1>4, <1>5, <1>6, <1>7, <1>8, SetupTypes DEF QueueInv, Entry, Queued
<1>14. OnceInv'
  <2>1. CASE l = 0
    BY <1>2, <1>3, <1>4, <2>1 DEF OnceInv
  <2>2. CASE l # 0
    BY <1>2, <1>4, <2>2, SetupTypes DEF OnceInv
  <2>3. QED
    BY <2>1, <2>2
<1>15. OpenInv'
  BY <1>1, <1>2, <1>3, <1>4, <1>5, <1>6, <1>7, <1>8, SetupTypes DEF OpenInv
<1>16. LiveInv'
  <2>1. SUFFICES ASSUME NEW d \in Conns, obj[d] = "open"
                  PROVE  /\ fd[d] \in Fds
                         /\ state_[d] # "Disconected" => connectionsMap_[fd[d]] = d
                         /\ connectionsMap_[fd[d]] = d => interest'[d] # {}
                         /\ connectionsMap_[fd[d]] # d /\ interest'[d] # {} =>
                              DetachOf(d) \in Queued(loop[d])'
    BY <1>2 DEF LiveInv, Entry
  <2>2. CASE d = c
    <3>1. connectionsMap_[fd[d]] # d /\ interest'[d] = {}
      BY <1>1, <1>7, <2>2 DEF Entry
    <3>2. QED
      BY <1>7, <2>1, <2>2, <3>1 DEF LiveInv
  <2>3. CASE d # c
    <3>1. interest'[d] = interest[d] /\ DetachOf(d) # DetachOf(c)
      BY <1>1, <1>6, <2>3
    <3>2. DetachOf(d) \in Queued(loop[d]) => DetachOf(d) \in Queued(loop[d])'
      <4>1. loop[d] \in Loops
        OBVIOUS
      <4>2. CASE loop[d] = l
        BY <1>2, <1>5, <3>1, <4>2
      <4>3. CASE loop[d] # l
        BY <1>2, <1>5, <4>1, <4>3
      <4>4. QED
        BY <4>2, <4>3
    <3>3. QED
      BY <2>1, <3>1, <3>2 DEF LiveInv, Entry
  <2>4. QED
    BY <2>2, <2>3
<1>17. ActiveInv'
  BY <1>1, <1>2, <1>3, <1>4, <1>5, <1>6, <1>7, <1>8, SetupTypes DEF ActiveInv
<1>18. NoStuckInput'
  BY <1>1, <1>2, <1>3, <1>4, <1>5, <1>6, <1>7, <1>8, SetupTypes DEF NoStuckInput
<1>19. QED
  BY <1>9, <1>10, <1>11, <1>12, <1>13, <1>14,
     <1>15, <1>16, <1>17, <1>18 DEF LifeInv

LEMMA HandleNewConnectionLife ==
  ASSUME Known, HandleNewConnection, UNCHANGED setup
  PROVE  LifeInv'
<1> USE DEF Known, Types, kernel, setup
<1>1. /\ at[0].pc = "new" /\ at'[0].pc = "established" /\ at'[0].conn = at[0].conn
      /\ \A k \in Loops : k # 0 => at'[k] = at[k]
  BY MovesTo, SetupTypes DEF HandleNewConnection, Pcs
<1>2. PICK c \in Conns : c = at[0].conn
  BY <1>1, SetupTypes DEF Frames
<1>3. /\ obj' = [obj EXCEPT ![c] = "open"]
      /\ loop' = [loop EXCEPT ![c] = nextloop]
      /\ interest' = [interest EXCEPT ![c] = {"ET"}]
      /\ connectionsMap_' = [connectionsMap_ EXCEPT ![fd[c]] = c]
  BY <1>2 DEF HandleNewConnection
<1>4. UNCHANGED <<fd, unread, fin, state_, edge, timers, phase, active, todo, batch, held>>
  BY DEF HandleNewConnection
<1>5. obj[c] = "accepted" /\ state_[c] = "unset" /\ interest[c] = {} /\ fd[c] \in Fds
  BY <1>1, <1>2 DEF NewInv, UnsetInv
<1>6. \A k \in Loops : Queued(k)' = Queued(k)
  BY <1>4 DEF Queued
<1>7. \A d \in Conns : obj[d] = "open" =>
        d # c /\ fd[d] # fd[c] /\ fd[d] \in Fds /\ connectionsMap_'[fd[d]] = connectionsMap_[fd[d]]
  BY <1>3, <1>5 DEF OneOwnerPerFd, LiveInv
<1>8. /\ obj'[c] = "open" /\ interest'[c] = {"ET"} /\ connectionsMap_'[fd[c]] = c
      /\ (thread_nums_ = 0 => loop'[c] = 0)
      /\ \A d \in Conns \ {c} : obj'[d] = obj[d] /\ interest'[d] = interest[d] /\ loop'[d] = loop[d]
  BY <1>3, <1>5 DEF nextloop
<1>9. \A k \in Loops : \A f \in Queued(k) : f.conn \in Conns
  BY QueuedFunctors DEF Known
<1>10. SetupInv'
  BY <1>1, <1>2, <1>3, <1>4, <1>5, <1>6, <1>7, <1>8, <1>9, SetupTypes DEF SetupInv, OneCloser
<1>11. LoopInv'
  BY <1>4, <1>5, <1>6, <1>7, <1>8, <1>9, SetupTypes DEF LoopInv, Frames
<1>12. UnsetInv'
  BY <1>1, <1>2, <1>3, <1>4, <1>5, <1>6, <1>7, <1>8, <1>9, SetupTypes DEF UnsetInv, Frames
<1>13. FrameInv'
  BY <1>1, <1>2, <1>3, <1>4, <1>5, <1>6, <1>7, <1>8, <1>9, SetupTypes DEF FrameInv, Entry, EraseOf, Queued, Frames
<1>14. QueueInv'
  BY <1>1, <1>2, <1>3, <1>4, <1>5, <1>6, <1>7, <1>8, <1>9, SetupTypes DEF QueueInv, Entry, Queued, Frames
<1>15. OnceInv'
  BY <1>4, <1>5, <1>6, <1>7, <1>8, <1>9, SetupTypes DEF OnceInv, Frames
<1>16. OpenInv'
  BY <1>1, <1>2, <1>3, <1>4, <1>5, <1>6, <1>7, <1>8, <1>9, SetupTypes DEF OpenInv, Frames
<1>17. LiveInv'
  <2>1. SUFFICES ASSUME NEW d \in Conns, obj'[d] = "open"
                  PROVE  /\ fd[d] \in Fds
                         /\ state_[d] # "Disconected" => connectionsMap_'[fd[d]] = d
                         /\ connectionsMap_'[fd[d]] = d => interest'[d] # {}
                         /\ connectionsMap_'[fd[d]] # d /\ interest'[d] # {} =>
                              DetachOf(d) \in Queued(loop'[d])
    BY <1>4 DEF LiveInv, Entry, Queued
  <2>2. CASE d = c
    BY <1>5, <1>8, <2>2
  <2>3. CASE d # c
    <3>1. obj[d] = "open"
      BY <1>8, <2>1, <2>3
    <3>2. QED
      BY <1>7, <1>8, <2>3, <3>1 DEF LiveInv, Entry
  <2>4. QED
    BY <2>2, <2>3
<1>18. ActiveInv'
  BY <1>1, <1>2, <1>3, <1>4, <1>5, <1>6, <1>7, <1>8, <1>9, SetupTypes DEF ActiveInv, Frames
<1>19. NoStuckInput'
  <2>1. SUFFICES ASSUME NEW d \in Conns, obj'[d] = "open", "IN" \in interest'[d],
                         state_[d] = "Connected", unread[d] \/ fin[d]
                  PROVE  \/ edge'[d]
                         \/ d \in active'[loop'[d]]
                         \/ /\ at'[loop'[d]].conn = d
                            /\ at'[loop'[d]].pc \in {"close", "disconnect"}
    BY <1>4 DEF NoStuckInput
  <2>2. d # c /\ obj[d] = "open"
    BY <1>8, <2>1
  <2>3. "IN" \in interest[d] /\ loop'[d] = loop[d]
    BY <1>8, <2>1, <2>2
  <2>4. \/ edge[d]
        \/ d \in active[loop[d]]
        \/ /\ at[loop[d]].conn = d
           /\ at[loop[d]].pc \in {"close", "disconnect"}
    BY <2>1, <2>2, <2>3 DEF NoStuckInput
  <2>5. QED
    BY <1>1, <1>4, <2>3, <2>4
<1>20. QED
  BY <1>10, <1>11, <1>12, <1>13, <1>14, <1>15,
     <1>16, <1>17, <1>18, <1>19 DEF LifeInv

\* A connection that Release destroys is bound nowhere.
LEMMA ReleaseFrees ==
  ASSUME Types, Release(obj)
  PROVE  \A d \in Conns :
             \/ obj'[d] = obj[d]
             \/ /\ obj[d] = "open" /\ obj'[d] = "gone"
                /\ \A f \in Fds : connectionsMap_'[f] # d
                /\ \A k \in Loops : /\ at'[k].conn # d /\ d \notin held'[k]
                                    /\ \A f \in Queued(k)' : f.conn # d
BY DEF Types, Release, Held, InQueue, Queued

LEMMA ReturnLife ==
  ASSUME Known, NEW l \in Loops, Return(l), UNCHANGED setup
  PROVE  LifeInv'
<1> USE DEF Known, Types, kernel, setup
<1>1. at[l].pc = "end" /\ at' = [at EXCEPT ![l] = Idle] /\ Release(obj)
  BY DEF Return
<1>2. UNCHANGED <<kernel, state_, interest, edge, connectionsMap_, next_, timers, phase, active,
                     todo, batch, held>>
  BY DEF Return
<1>3. /\ at'[l].pc = "idle" /\ at'[l].conn = NoConn
      /\ \A k \in Loops : k # l => at'[k] = at[k]
  BY <1>1 DEF Idle
<1>4. \A d \in Conns :
        \/ obj'[d] = obj[d]
        \/ /\ obj[d] = "open" /\ obj'[d] = "gone"
           /\ \A f \in Fds : connectionsMap_'[f] # d
           /\ \A k \in Loops : /\ at'[k].conn # d /\ d \notin held'[k]
                               /\ \A f \in Queued(k)' : f.conn # d
  BY <1>1, ReleaseFrees
<1>5. \A k \in Loops : Queued(k)' = Queued(k)
  BY <1>2 DEF Queued
<1>6. \A k \in Loops : \A f \in Queued(k) : f.conn \in Conns
  BY QueuedFunctors DEF Known
<1>7. SetupInv'
  BY <1>1, <1>2, <1>3, <1>4, <1>5, <1>6, SetupTypes DEF SetupInv, OneCloser, Frames
<1>8. LoopInv'
  BY <1>1, <1>2, <1>3, <1>4, <1>5, <1>6, SetupTypes DEF LoopInv
<1>9. UnsetInv'
  BY <1>1, <1>2, <1>3, <1>4, <1>5, <1>6, SetupTypes DEF UnsetInv
<1>10. FrameInv'
  <2>1. SUFFICES ASSUME NEW k \in Loops
                  PROVE  /\ at'[k].pc \in {"new", "established", "connect", "erase"} => k = 0
                         /\ at'[k].conn \in Conns /\ at'[k].pc # "new" => obj'[at'[k].conn] = "open"
                         /\ at'[k].pc = "established" => state_[at'[k].conn] = "unset"
                         /\ at'[k].pc = "connect" => state_[at'[k].conn] # "unset"
                         /\ at'[k].pc \in {"message", "close", "disconnect", "on_close", "erase"} =>
                               k = loop[at'[k].conn] /\ state_[at'[k].conn] # "unset"
                         /\ at'[k].pc = "disconnect" => state_[at'[k].conn] = "Connected"
                         /\ at'[k].pc \in {"on_close", "erase"} =>
                               /\ state_[at'[k].conn] = "Disconected"
                               /\ Entry(at'[k].conn)
                               /\ EraseOf(at'[k].conn) \notin Queued(0)
    BY <1>2 DEF FrameInv, Entry, Queued
  <2>2. CASE k = l
    BY <1>3, <2>2, ServerAssumption
  <2>3. CASE k # l
    <3>1. at'[k] = at[k] /\ at[k] \in Frames
      BY <1>3, <2>3
    <3>2. \A d \in Conns : at'[k].conn = d => obj'[d] = obj[d]
      BY <1>4
    <3>3. QED
      BY <3>1, <3>2 DEF FrameInv
  <2>4. QED
    BY <2>2, <2>3
<1>11. QueueInv'
  BY <1>1, <1>2, <1>3, <1>4, <1>5, <1>6, SetupTypes DEF QueueInv, Entry, Queued
<1>12. OnceInv'
  BY <1>1, <1>2, <1>3, <1>4, <1>5, <1>6, SetupTypes DEF OnceInv
<1>13. OpenInv'
  BY <1>1, <1>2, <1>3, <1>4, <1>5, <1>6, SetupTypes DEF OpenInv
<1>14. LiveInv'
  <2>1. SUFFICES ASSUME NEW d \in Conns, obj'[d] = "open"
                  PROVE  /\ fd[d] \in Fds
                         /\ state_[d] # "Disconected" => connectionsMap_[fd[d]] = d
                         /\ connectionsMap_[fd[d]] = d => interest[d] # {}
                         /\ connectionsMap_[fd[d]] # d /\ interest[d] # {} =>
                              DetachOf(d) \in Queued(loop[d])
    BY <1>2, <1>5 DEF LiveInv, Entry
  <2>2. obj[d] = "open"
    BY <1>4, <2>1
  <2>3. QED
    BY <2>2 DEF LiveInv, Entry
<1>15. ActiveInv'
  <2>1. SUFFICES ASSUME NEW k \in Loops, NEW d \in active[k] \cap Conns, obj'[d] # obj[d]
                  PROVE  FALSE
    BY <1>2 DEF ActiveInv
  <2>2. obj[d] = "open" /\ interest[d] # {} /\ loop[d] \in Loops
    BY <2>1 DEF ActiveInv
  <2>3. fd[d] \in Fds /\ (Entry(d) \/ DetachOf(d) \in Queued(loop[d]))
    BY <2>2 DEF LiveInv
  <2>4. DetachOf(d).conn = d
    BY DEF DetachOf, Functor
  <2>5. QED
    BY <1>2, <1>4, <1>5, <2>1, <2>2, <2>3, <2>4 DEF Entry
<1>16. NoStuckInput'
  BY <1>1, <1>2, <1>3, <1>4, <1>5, <1>6, SetupTypes DEF NoStuckInput
<1>17. QED
  BY <1>7, <1>8, <1>9, <1>10, <1>11, <1>12,
     <1>13, <1>14, <1>15, <1>16 DEF LifeInv

LEMMA LeaveLife ==
  ASSUME Known, NEW l \in Loops, LeaveDoToDoList(l), UNCHANGED setup
  PROVE  LifeInv'
<1> USE DEF Known, Types, kernel, setup
<1>1. /\ phase[l] = "functors" /\ batch[l] = << >> /\ Release(obj)
      /\ phase' = [phase EXCEPT ![l] = "poll"]
      /\ held' = [held EXCEPT ![l] = {}]
  BY DEF LeaveDoToDoList
<1>2. UNCHANGED <<kernel, state_, interest, edge, connectionsMap_, next_, timers, active, at,
                     todo, batch>>
  BY DEF LeaveDoToDoList
<1>3. \A d \in Conns :
        \/ obj'[d] = obj[d]
        \/ /\ obj[d] = "open" /\ obj'[d] = "gone"
           /\ \A f \in Fds : connectionsMap_'[f] # d
           /\ \A k \in Loops : /\ at'[k].conn # d /\ d \notin held'[k]
                               /\ \A f \in Queued(k)' : f.conn # d
  BY <1>1, ReleaseFrees
<1>4. \A k \in Loops : Queued(k)' = Queued(k)
  BY <1>2 DEF Queued
<1>5. \A k \in Loops : \A f \in Queued(k) : f.conn \in Conns
  BY QueuedFunctors DEF Known
<1>6. SetupInv'
  BY <1>1, <1>2, <1>3, <1>4, <1>5, SetupTypes DEF SetupInv, OneCloser
<1>7. LoopInv'
  BY <1>1, <1>2, <1>3, <1>4, <1>5, SetupTypes DEF LoopInv, Frames
<1>8. UnsetInv'
  <2>1. SUFFICES ASSUME NEW d \in Conns, obj'[d] # obj[d]
                  PROVE  obj'[d] = "gone" /\ state_[d] # "unset"
    BY <1>2 DEF UnsetInv
  <2>2. obj[d] = "open" /\ obj'[d] = "gone" /\ at[0].conn # d
    BY <1>2, <1>3, <2>1, SetupTypes
  <2>3. QED
    BY <2>2 DEF UnsetInv
<1>9. FrameInv'
  BY <1>1, <1>2, <1>3, <1>4, <1>5, SetupTypes DEF FrameInv, Entry, EraseOf, Queued
<1>10. QueueInv'
  BY <1>1, <1>2, <1>3, <1>4, <1>5, SetupTypes DEF QueueInv, Entry, Queued, Frames
<1>11. OnceInv'
  BY <1>1, <1>2, <1>3, <1>4, <1>5, SetupTypes DEF OnceInv, Frames
<1>12. OpenInv'
  BY <1>1, <1>2, <1>3, <1>4, <1>5, SetupTypes DEF OpenInv, Frames
<1>13. LiveInv'
  BY <1>1, <1>2, <1>3, <1>4, <1>5, SetupTypes DEF LiveInv, Entry, DetachOf, Queued
<1>14. ActiveInv'
  <2>1. SUFFICES ASSUME NEW k \in Loops, NEW d \in active[k] \cap Conns, obj'[d] # obj[d]
                  PROVE  FALSE
    BY <1>2 DEF ActiveInv
  <2>2. obj[d] = "open" /\ interest[d] # {} /\ loop[d] \in Loops
    BY <2>1 DEF ActiveInv
  <2>3. fd[d] \in Fds /\ (Entry(d) \/ DetachOf(d) \in Queued(loop[d]))
    BY <2>2 DEF LiveInv
  <2>4. DetachOf(d).conn = d
    BY DEF DetachOf, Functor
  <2>5. QED
    BY <1>2, <1>3, <1>4, <2>1, <2>2, <2>3, <2>4 DEF Entry
<1>15. NoStuckInput'
  BY <1>1, <1>2, <1>3, <1>4, <1>5, SetupTypes DEF NoStuckInput, Frames
<1>16. QED
  BY <1>6, <1>7, <1>8, <1>9, <1>10, <1>11,
     <1>12, <1>13, <1>14, <1>15 DEF LifeInv

LEMMA CloseInlineLife ==
  ASSUME Known, CloseInline, UNCHANGED setup
  PROVE  LifeInv'
<1> USE DEF Known, Types, kernel, setup
<1>1. at[0] \in Frames /\ at[0].pc = "erase" /\ at[0].ret \in {"idle", "message", "end"}
  BY SetupTypes DEF CloseInline, Frames
<1>2. PICK c \in Conns : c = at[0].conn
  BY <1>1 DEF Frames
<1>3. /\ at'[0].pc \in {"idle", "message", "end"} /\ at'[0].conn = c
      /\ \A k \in Loops : k # 0 => at'[k] = at[k]
  BY <1>1, <1>2, MovesTo, SetupTypes DEF CloseInline, Pcs
<1>4. /\ obj[c] = "open" /\ state_[c] = "Disconected" /\ loop[c] = 0
      /\ Entry(c) /\ EraseOf(c) \notin Queued(0) /\ fd[c] \in Fds
  BY <1>1, <1>2, SetupTypes DEF FrameInv, LiveInv
<1>5. UNCHANGED <<kernel, state_, interest, edge, next_, timers, phase, active, batch, held>>
  BY DEF CloseInline, HandleCloseInLoop
<1>6. /\ DetachOf(c) \in Functors /\ DetachOf(c).conn = c /\ DetachOf(c).op = "ConnectionDestructor"
      /\ \A d : DetachOf(c) # EraseOf(d)
  BY DEF EraseOf, DetachOf, Functor, Functors
<1>7. /\ connectionsMap_' = [connectionsMap_ EXCEPT ![fd[c]] = NoConn]
      /\ todo' = [todo EXCEPT ![loop[c]] = Append(todo[loop[c]], DetachOf(c))]
      /\ Release(obj)
  BY <1>2 DEF CloseInline, HandleCloseInLoop, DetachOf
<1>8. PICK s \in Seq(Functors) : /\ s = Append(todo[0], DetachOf(c))
                                  /\ ToSet(s) = ToSet(todo[0]) \cup {DetachOf(c)}
                                  /\ \A f : Once(todo[0], f) /\ (DetachOf(c) = f => f \notin ToSet(todo[0])) => Once(s, f)
  <2>1. todo[0] \in Seq(Functors)
    BY SetupTypes
  <2>2. PICK x \in Functors : x = DetachOf(c)
    BY <1>6
  <2>3. /\ Append(todo[0], x) \in Seq(Functors)
        /\ ToSet(Append(todo[0], x)) = ToSet(todo[0]) \cup {x}
        /\ \A f : Once(todo[0], f) /\ (x = f => f \notin ToSet(todo[0])) => Once(Append(todo[0], x), f)
    BY <2>1, AppendHolds
  <2>4. QED
    BY <2>2, <2>3
<1>9. todo'[0] = s /\ \A k \in Loops : k # 0 => todo'[k] = todo[k]
  BY <1>4, <1>7, <1>8, SetupTypes
<1>10. /\ Queued(0)' = Queued(0) \cup {DetachOf(c)}
       /\ \A k \in Loops : k # 0 => Queued(k)' = Queued(k)
  BY <1>5, <1>8, <1>9 DEF Queued
<1>11. \A d \in Conns :
         \/ obj'[d] = obj[d]
         \/ /\ obj[d] = "open" /\ obj'[d] = "gone"
            /\ \A f \in Fds : connectionsMap_'[f] # d
            /\ \A k \in Loops : /\ at'[k].conn # d /\ d \notin held'[k]
                                /\ \A f \in Queued(k)' : f.conn # d
  BY <1>7, ReleaseFrees
<1>12. obj'[c] = "open" /\ connectionsMap_'[fd[c]] # c
  BY <1>4, <1>6, <1>7, <1>10, <1>11, SetupTypes, ServerAssumption
<1>13. \A d \in Conns \ {c} : obj[d] = "open" =>
         fd[d] \in Fds /\ connectionsMap_'[fd[d]] = connectionsMap_[fd[d]]
  BY <1>4, <1>7 DEF OneOwnerPerFd, LiveInv
<1>14. \A k \in Loops : \A f \in Queued(k) : f.conn \in Conns
  BY QueuedFunctors DEF Known
<1>15. \A k \in Loops : \A f \in Queued(k) : f.conn # c
  <2>1. SUFFICES ASSUME NEW k \in Loops, NEW f \in Queued(k), f.conn = c
                  PROVE  FALSE
    OBVIOUS
  <2>2. f \in Functors
    BY QueuedFunctors
  <2>3. CASE f.op = "HandleCloseInLoop"
    <3>1. f = EraseOf(c) /\ k = 0
      BY <2>1, <2>2, <2>3 DEF QueueInv, EraseOf, Functor, Functors
    <3>2. QED
      BY <1>4, <3>1
  <2>4. CASE f.op = "ConnectionDestructor"
    BY <1>4, <2>1, <2>4 DEF QueueInv
  <2>5. QED
    BY <2>2, <2>3, <2>4 DEF Functors
<1>16. /\ \A k \in Loops : /\ Queued(k)' \subseteq Queued(k) \cup {DetachOf(c)}
                           /\ k # loop[c] => Queued(k)' \subseteq Queued(k)
                           /\ \A f \in Queued(k) : f.conn # c => f \in Queued(k)'
       /\ DetachOf(c) \in Queued(loop[c])'
  BY <1>4, <1>5, <1>10, SetupTypes
<1>17. SetupInv'
  BY <1>1, <1>2, <1>3, <1>4, <1>5, <1>6, <1>7, <1>8, <1>9, <1>10, <1>11, <1>12, <1>13, <1>14, <1>15, <1>16, SetupTypes DEF SetupInv, OneCloser, Frames
<1>18. LoopInv'
  BY <1>1, <1>2, <1>3, <1>4, <1>5, <1>6, <1>7, <1>8, <1>9, <1>10, <1>11, <1>12, <1>13, <1>14, <1>15, <1>16, SetupTypes DEF LoopInv
<1>19. UnsetInv'
  BY <1>1, <1>2, <1>3, <1>4, <1>5, <1>6, <1>7, <1>8, <1>9, <1>10, <1>11, <1>12, <1>13, <1>14, <1>15, <1>16, SetupTypes DEF UnsetInv
<1>20. FrameInv'
  <2>1. SUFFICES ASSUME NEW k \in Loops
                  PROVE  /\ at'[k].pc \in {"new", "established", "connect", "erase"} => k = 0
                         /\ at'[k].conn \in Conns /\ at'[k].pc # "new" => obj'[at'[k].conn] = "open"
                         /\ at'[k].pc = "established" => state_'[at'[k].conn] = "unset"
                         /\ at'[k].pc = "connect" => state_'[at'[k].conn] # "unset"
                         /\ at'[k].pc \in {"message", "close", "disconnect", "on_close", "erase"} =>
                               k = loop'[at'[k].conn] /\ state_'[at'[k].conn] # "unset"
                         /\ at'[k].pc = "disconnect" => state_'[at'[k].conn] = "Connected"
                         /\ at'[k].pc \in {"on_close", "erase"} =>
                               /\ state_'[at'[k].conn] = "Disconected"
                               /\ Entry(at[k].conn)'
                               /\ EraseOf(at'[k].conn) \notin Queued(0)'
    BY DEF FrameInv
  <2>2. CASE k = 0
    BY <1>3, <1>4, <1>5, <1>12, <2>2, SetupTypes
  <2>3. CASE k # 0
    <3>1. PICK d : d = at[k].conn
      OBVIOUS
    <3>2. at'[k] = at[k] /\ at[k] \in Frames
      BY <1>3, <2>1, <2>3, SetupTypes
    <3>3. at[k].pc # "new" /\ d \in Conns => obj'[d] = "open"
      BY <1>11, <2>1, <2>3, <3>1, <3>2 DEF FrameInv
    <3>4. at[k].pc \in {"message", "close", "disconnect", "on_close", "erase"} =>
            d \in Conns /\ d # c /\ obj[d] = "open"
      BY <1>4, <2>1, <2>3, <3>1, <3>2 DEF FrameInv, Frames
    <3>5. at[k].pc \in {"on_close", "erase"} =>
            Entry(d)' /\ EraseOf(d) \notin Queued(0)'
      <4>1. at[k].pc \in {"on_close", "erase"} => Entry(d) /\ EraseOf(d) \notin Queued(0)
        BY <2>1, <3>1 DEF FrameInv
      <4>2. EraseOf(d) # DetachOf(c) /\ Queued(0)' = Queued(0) \cup {DetachOf(c)}
        BY <1>6, <1>10
      <4>3. d \in Conns /\ d # c /\ obj[d] = "open" /\ Entry(d) => Entry(d)'
        BY <1>5, <1>13 DEF Entry
      <4>4. QED
        BY <3>4, <4>1, <4>2, <4>3
    <3>6. QED
      <4>1. /\ at[k].pc \in {"new", "established", "connect", "erase"} => k = 0
            /\ at[k].pc = "established" => state_[d] = "unset"
            /\ at[k].pc = "connect" => state_[d] # "unset"
            /\ at[k].pc \in {"message", "close", "disconnect", "on_close", "erase"} =>
                  k = loop[d] /\ state_[d] # "unset"
            /\ at[k].pc = "disconnect" => state_[d] = "Connected"
            /\ at[k].pc \in {"on_close", "erase"} => state_[d] = "Disconected"
        BY <2>1, <3>1 DEF FrameInv
      <4>2. state_' = state_ /\ loop' = loop /\ at'[k] = at[k] /\ at'[k].conn = d
        BY <1>5, <3>1, <3>2
      <4>3. QED
        BY <3>3, <3>5, <4>1, <4>2
  <2>4. QED
    BY <2>2, <2>3
<1>21. QueueInv'
  <2>1. SUFFICES ASSUME NEW k \in Loops, NEW f \in Queued(k)'
                  PROVE  /\ obj'[f.conn] = "open" /\ state_'[f.conn] = "Disconected"
                         /\ f.op = "HandleCloseInLoop" => k = 0 /\ Entry(f.conn)'
                         /\ f.op = "ConnectionDestructor" => k = loop'[f.conn] /\ ~Entry(f.conn)'
    BY DEF QueueInv
  <2>2. CASE f = DetachOf(c)
    <3>1. k = loop[c]
      BY <1>6, <1>15, <1>16, <2>1, <2>2
    <3>2. QED
      BY <1>4, <1>5, <1>6, <1>12, <2>2, <3>1, SetupTypes DEF Entry, kernel
  <2>3. CASE f # DetachOf(c)
    <3>1. f \in Queued(k) /\ f.conn \in Conns /\ f.conn # c
      BY <1>14, <1>15, <1>16, <2>1, <2>3
    <3>2. /\ obj[f.conn] = "open" /\ state_[f.conn] = "Disconected"
          /\ f.op = "HandleCloseInLoop" => k = 0 /\ Entry(f.conn)
          /\ f.op = "ConnectionDestructor" => k = loop[f.conn] /\ ~Entry(f.conn)
      BY <3>1 DEF QueueInv
    <3>3. obj'[f.conn] = "open"
      BY <1>11, <2>1, <3>1, <3>2
    <3>4. QED
      BY <1>5, <1>13, <3>1, <3>2, <3>3 DEF Entry
  <2>4. QED
    BY <2>2, <2>3
<1>22. OnceInv'
  BY <1>1, <1>2, <1>3, <1>4, <1>5, <1>6, <1>7, <1>8, <1>9, <1>10, <1>11, <1>12, <1>13, <1>14, <1>15, <1>16, SetupTypes DEF OnceInv
<1>23. OpenInv'
  <2>1. ASSUME NEW k \in Loops, NEW d \in held'[k]
        PROVE  obj'[d] = "open"
    <3>1. obj[d] = "open" /\ d \in Conns
      BY <1>5, <2>1 DEF OpenInv
    <3>2. QED
      BY <1>11, <2>1, <3>1
  <2>2. ASSUME NEW f \in Fds, connectionsMap_'[f] \in Conns
        PROVE  obj'[connectionsMap_'[f]] = "open" /\ fd[connectionsMap_'[f]] = f
    <3>1. f # fd[c] /\ connectionsMap_'[f] = connectionsMap_[f]
      BY <1>7, <2>2, ServerAssumption
    <3>2. obj[connectionsMap_[f]] = "open" /\ fd[connectionsMap_[f]] = f
      BY <2>2, <3>1 DEF OpenInv
    <3>3. QED
      BY <1>11, <2>2, <3>1, <3>2
  <2>3. QED
    BY <1>5, <2>1, <2>2 DEF OpenInv
<1>24. LiveInv'
  <2>1. SUFFICES ASSUME NEW d \in Conns, obj'[d] = "open"
                  PROVE  /\ fd[d] \in Fds
                         /\ state_[d] # "Disconected" => connectionsMap_'[fd[d]] = d
                         /\ connectionsMap_'[fd[d]] = d => interest[d] # {}
                         /\ connectionsMap_'[fd[d]] # d /\ interest[d] # {} =>
                              DetachOf(d) \in Queued(loop[d])'
    BY <1>5 DEF LiveInv, Entry
  <2>2. CASE d = c
    BY <1>4, <1>12, <1>13, <1>16, <2>2
  <2>3. CASE d # c
    <3>1. obj[d] = "open" /\ loop[d] \in Loops
      BY <1>11, <2>1
    <3>2. connectionsMap_'[fd[d]] = connectionsMap_[fd[d]]
      BY <1>12, <1>13, <2>3, <3>1
    <3>3. DetachOf(d).conn = d
      BY DEF DetachOf, Functor
    <3>4. DetachOf(d) \in Queued(loop[d]) => DetachOf(d) \in Queued(loop[d])'
      <4>1. PICK k \in Loops : k = loop[d] /\ k = loop'[d]
        BY <1>5, <3>1
      <4>2. DetachOf(d) \in Queued(k) => DetachOf(d) \in Queued(k)'
        BY <1>16, <2>3, <3>3
      <4>3. QED
        BY <4>1, <4>2
    <3>5. QED
      BY <3>1, <3>2, <3>4 DEF LiveInv, Entry
  <2>4. QED
    BY <2>2, <2>3
<1>25. ActiveInv'
  <2>1. SUFFICES ASSUME NEW k \in Loops, NEW d \in active[k] \cap Conns, obj'[d] # obj[d]
                  PROVE  FALSE
    BY <1>5 DEF ActiveInv
  <2>2. obj[d] = "open" /\ interest[d] # {} /\ loop[d] \in Loops /\ d # c
    BY <1>4, <1>12, <1>13, <2>1 DEF ActiveInv
  <2>3. fd[d] \in Fds /\ (Entry(d) \/ DetachOf(d) \in Queued(loop[d]))
    BY <2>2 DEF LiveInv
  <2>4. DetachOf(d).conn = d
    BY DEF DetachOf, Functor
  <2>5. DetachOf(d) \notin Queued(loop[d])
    <3>1. \A j \in Loops : \A f \in Queued(j)' : f.conn # d
      BY <1>11, <2>1
    <3>2. \A j \in Loops : DetachOf(d) \in Queued(j) => DetachOf(d) \in Queued(j)'
      BY <1>16, <2>2, <2>4
    <3>3. QED
      BY <2>2, <2>4, <3>1, <3>2
  <2>6. connectionsMap_'[fd[d]] = connectionsMap_[fd[d]]
    BY <1>12, <1>13, <2>2
  <2>7. QED
    BY <1>11, <2>1, <2>2, <2>3, <2>5, <2>6 DEF Entry
<1>26. NoStuckInput'
  <2>1. SUFFICES ASSUME NEW d \in Conns, obj'[d] = "open", "IN" \in interest[d],
                         state_[d] = "Connected", unread[d] \/ fin[d]
                  PROVE  \/ edge'[d]
                         \/ d \in active'[loop[d]]
                         \/ /\ at'[loop[d]].conn = d
                            /\ at'[loop[d]].pc \in {"close", "disconnect"}
    BY <1>5 DEF NoStuckInput
  <2>2. \/ edge[d]
        \/ d \in active[loop[d]]
        \/ /\ at[loop[d]].conn = d
           /\ at[loop[d]].pc \in {"close", "disconnect"}
    BY <1>11, <2>1 DEF NoStuckInput
  <2>3. edge' = edge /\ active' = active
    BY <1>5
  <2>4. QED
    BY <1>1, <1>3, <2>2, <2>3
<1>27. QED
  BY <1>17, <1>18, <1>19, <1>20, <1>21, <1>22,
     <1>23, <1>24, <1>25, <1>26 DEF LifeInv

LEMMA CloseFromQueueLife ==
  ASSUME Known, CloseFromQueue, UNCHANGED setup
  PROVE  LifeInv'
<1> USE DEF Known, Types, kernel, setup
<1>1. PICK c \in Conns :
          /\ phase[0] = "functors" /\ batch[0] # << >> /\ Head(batch[0]) = EraseOf(c)
          /\ batch' = [batch EXCEPT ![0] = Tail(@)]
          /\ held' = [held EXCEPT ![0] = @ \cup {c}]
          /\ connectionsMap_' = [connectionsMap_ EXCEPT ![fd[c]] = NoConn]
          /\ todo' = [todo EXCEPT ![loop[c]] = Append(todo[loop[c]], DetachOf(c))]
          /\ Release(obj)
  BY DEF CloseFromQueue, StartFunctor, HandleCloseInLoop, EraseOf, DetachOf
<1>2. UNCHANGED <<kernel, state_, interest, edge, next_, timers, phase, active, at>>
  BY DEF CloseFromQueue, StartFunctor, HandleCloseInLoop
<1>3. PICK b \in Seq(Functors) :
          /\ b = Tail(batch[0]) /\ ToSet(batch[0]) = ToSet(b) \cup {EraseOf(c)}
          /\ \A f : Once(batch[0], f) => Once(b, f) /\ (EraseOf(c) = f => f \notin ToSet(b))
  <2>1. batch[0] \in Seq(Functors)
    BY SetupTypes
  <2>2. QED
    BY <1>1, <2>1, TailHolds
<1>4. batch'[0] = b /\ \A k \in Loops : k # 0 => batch'[k] = batch[k]
  BY <1>1, <1>3, SetupTypes
<1>5. /\ DetachOf(c) \in Functors /\ DetachOf(c).conn = c /\ DetachOf(c).op = "ConnectionDestructor"
      /\ EraseOf(c).conn = c /\ EraseOf(c).op = "HandleCloseInLoop"
      /\ \A d : DetachOf(c) # EraseOf(d)
  BY DEF EraseOf, DetachOf, Functor, Functors
<1>6. /\ EraseOf(c) \in Queued(0) /\ obj[c] = "open" /\ state_[c] = "Disconected"
      /\ Entry(c) /\ fd[c] \in Fds /\ loop[c] \in Loops
  <2>1. EraseOf(c) \in Queued(0)
    BY <1>3 DEF Queued
  <2>2. QED
    BY <1>5, <2>1, SetupTypes DEF QueueInv, LiveInv
<1>7. EraseOf(c) \notin ToSet(b) /\ EraseOf(c) \notin ToSet(todo[0])
  BY <1>3 DEF OnceInv
<1>8. PICK s \in Seq(Functors) :
          /\ s = Append(todo[loop[c]], DetachOf(c))
          /\ ToSet(s) = ToSet(todo[loop[c]]) \cup {DetachOf(c)}
          /\ \A f : Once(todo[loop[c]], f) /\ (DetachOf(c) = f => f \notin ToSet(todo[loop[c]])) => Once(s, f)
  <2>1. PICK t \in Seq(Functors) : t = todo[loop[c]]
    BY <1>6
  <2>2. PICK x \in Functors : x = DetachOf(c)
    BY <1>5
  <2>3. /\ Append(t, x) \in Seq(Functors)
        /\ ToSet(Append(t, x)) = ToSet(t) \cup {x}
        /\ \A f : Once(t, f) /\ (x = f => f \notin ToSet(t)) => Once(Append(t, x), f)
    BY <2>1, AppendHolds
  <2>4. QED
    BY <2>1, <2>2, <2>3
<1>9. todo'[loop[c]] = s /\ \A k \in Loops : k # loop[c] => todo'[k] = todo[k]
  BY <1>1, <1>6, <1>8
<1>10. /\ \A k \in Loops : /\ Queued(k)' \subseteq Queued(k) \cup {DetachOf(c)}
                           /\ k # loop[c] => Queued(k)' \subseteq Queued(k)
                           /\ \A f \in Queued(k) : f.conn # c => f \in Queued(k)'
       /\ DetachOf(c) \in Queued(loop[c])'
       /\ EraseOf(c) \notin Queued(0)'
  <2>1. PICK m \in Loops : m = loop[c] /\ m = loop'[c]
    BY <1>2, <1>6
  <2>2. \A k \in Loops : ToSet(todo[k]) \subseteq ToSet(todo'[k])
    BY <1>8, <1>9
  <2>3. \A k \in Loops : /\ ToSet(todo'[k]) \subseteq ToSet(todo[k]) \cup {DetachOf(c)}
                         /\ k # loop[c] => ToSet(todo'[k]) = ToSet(todo[k])
    BY <1>8, <1>9
  <2>4. \A k \in Loops : /\ ToSet(batch'[k]) \subseteq ToSet(batch[k])
                         /\ ToSet(batch[k]) \subseteq ToSet(batch'[k]) \cup {EraseOf(c)}
    BY <1>3, <1>4
  <2>5. DetachOf(c) \in ToSet(todo'[m])
    BY <1>8, <1>9, <2>1
  <2>6. EraseOf(c) \notin Queued(0)'
    BY <1>4, <1>5, <1>7, <2>3, SetupTypes DEF Queued
  <2>7. \A k \in Loops : /\ Queued(k)' \subseteq Queued(k) \cup {DetachOf(c)}
                         /\ k # loop[c] => Queued(k)' \subseteq Queued(k)
    BY <2>3, <2>4 DEF Queued
  <2>8. \A k \in Loops : \A f \in Queued(k) : f.conn # c => f \in Queued(k)'
    BY <1>5, <2>2, <2>4 DEF Queued
  <2>9. DetachOf(c) \in Queued(loop[c])'
    BY <2>1, <2>5 DEF Queued
  <2>10. QED
    BY <2>6, <2>7, <2>8, <2>9
<1>11. \A d \in Conns :
         \/ obj'[d] = obj[d]
         \/ /\ obj[d] = "open" /\ obj'[d] = "gone"
            /\ \A f \in Fds : connectionsMap_'[f] # d
            /\ \A k \in Loops : /\ at'[k].conn # d /\ d \notin held'[k]
                                /\ \A f \in Queued(k)' : f.conn # d
  BY <1>1, ReleaseFrees
<1>12. obj'[c] = "open" /\ connectionsMap_'[fd[c]] # c
  <2>1. PICK m \in Loops : m = loop[c] /\ m = loop'[c]
    BY <1>2, <1>6
  <2>2. DetachOf(c) \in Queued(m)'
    BY <1>8, <1>9, <2>1 DEF Queued
  <2>3. obj'[c] = "open"
    BY <1>5, <1>6, <1>11, <2>2
  <2>4. QED
    BY <1>1, <1>6, <2>3, ServerAssumption
<1>13. \A d \in Conns \ {c} : obj[d] = "open" =>
         fd[d] \in Fds /\ connectionsMap_'[fd[d]] = connectionsMap_[fd[d]]
  BY <1>1, <1>6 DEF OneOwnerPerFd, LiveInv
<1>14. \A k \in Loops : \A f \in Queued(k)' : f \in Queued(k) => f.conn # c
  <2>1. SUFFICES ASSUME NEW k \in Loops, NEW f \in Queued(k)', f \in Queued(k), f.conn = c
                  PROVE  FALSE
    OBVIOUS
  <2>2. f \in Functors
    BY <2>1, QueuedFunctors
  <2>3. CASE f.op = "HandleCloseInLoop"
    <3>1. f = EraseOf(c) /\ k = 0
      BY <2>1, <2>2, <2>3 DEF QueueInv, EraseOf, Functor, Functors
    <3>2. QED
      BY <1>10, <2>1, <3>1
  <2>4. CASE f.op = "ConnectionDestructor"
    BY <1>6, <2>1, <2>4 DEF QueueInv
  <2>5. QED
    BY <2>2, <2>3, <2>4 DEF Functors
<1>15. SetupInv'
  BY <1>1, <1>2, <1>3, <1>4, <1>5, <1>6, <1>7, <1>8, <1>9, <1>10, <1>11, <1>12, <1>13, <1>14, SetupTypes DEF SetupInv, OneCloser, Frames
<1>16. LoopInv'
  BY <1>1, <1>2, <1>3, <1>4, <1>5, <1>6, <1>7, <1>8, <1>9, <1>10, <1>11, <1>12, <1>13, <1>14, SetupTypes DEF LoopInv
<1>17. UnsetInv'
  BY <1>1, <1>2, <1>3, <1>4, <1>5, <1>6, <1>7, <1>8, <1>9, <1>10, <1>11, <1>12, <1>13, <1>14, SetupTypes DEF UnsetInv
<1>18. FrameInv'
  <2>1. SUFFICES ASSUME NEW k \in Loops
                  PROVE  /\ at[k].pc \in {"new", "established", "connect", "erase"} => k = 0
                         /\ at[k].conn \in Conns /\ at[k].pc # "new" => obj'[at[k].conn] = "open"
                         /\ at[k].pc = "established" => state_[at[k].conn] = "unset"
                         /\ at[k].pc = "connect" => state_[at[k].conn] # "unset"
                         /\ at[k].pc \in {"message", "close", "disconnect", "on_close", "erase"} =>
                               k = loop[at[k].conn] /\ state_[at[k].conn] # "unset"
                         /\ at[k].pc = "disconnect" => state_[at[k].conn] = "Connected"
                         /\ at[k].pc \in {"on_close", "erase"} =>
                               /\ state_[at[k].conn] = "Disconected"
                               /\ connectionsMap_'[fd[at[k].conn]] = at[k].conn
                               /\ EraseOf(at[k].conn) \notin Queued(0)'
    BY <1>2 DEF FrameInv, Entry
  <2>2. at[k] \in Frames /\ \A d \in Conns : at[k].conn = d => obj'[d] = obj[d]
    BY <1>2, <1>11
  <2>3. at[k].pc \in {"on_close", "erase"} =>
          /\ at[k].conn \in Conns /\ at[k].conn # c /\ obj[at[k].conn] = "open"
          /\ EraseOf(at[k].conn) \notin Queued(0)
    BY <1>6, <2>2 DEF FrameInv, Frames
  <2>4. at[k].pc \in {"on_close", "erase"} =>
          /\ connectionsMap_'[fd[at[k].conn]] = at[k].conn
          /\ EraseOf(at[k].conn) \notin Queued(0)'
    BY <1>5, <1>10, <1>13, <2>3, SetupTypes, SMTT(60) DEF FrameInv, Entry
  <2>5. QED
    BY <2>2, <2>4 DEF FrameInv
<1>19. QueueInv'
  <2>1. SUFFICES ASSUME NEW k \in Loops, NEW f \in Queued(k)'
                  PROVE  /\ obj'[f.conn] = "open" /\ state_[f.conn] = "Disconected"
                         /\ f.op = "HandleCloseInLoop" => k = 0 /\ connectionsMap_'[fd[f.conn]] = f.conn
                         /\ f.op = "ConnectionDestructor" =>
                              k = loop[f.conn] /\ connectionsMap_'[fd[f.conn]] # f.conn
    BY <1>2 DEF QueueInv, Entry
  <2>2. CASE f = DetachOf(c) /\ k = loop[c]
    BY <1>6, <1>12, <1>13, <1>5, <2>2
  <2>3. CASE ~(f = DetachOf(c) /\ k = loop[c])
    <3>1. f \in Queued(k)
      BY <1>10, <2>1, <2>3
    <3>2. f.conn \in Conns /\ obj[f.conn] = "open" /\ state_[f.conn] = "Disconected"
      BY <3>1, QueuedFunctors DEF QueueInv
    <3>3. obj'[f.conn] = "open"
      BY <1>11, <2>1, <3>2
    <3>4. f.conn # c
      BY <1>14, <2>1, <2>3, <3>1
    <3>5. connectionsMap_'[fd[f.conn]] = connectionsMap_[fd[f.conn]]
      BY <1>12, <1>13, <3>2, <3>4
    <3>6. QED
      BY <3>1, <3>2, <3>3, <3>5 DEF QueueInv, Entry
  <2>4. QED
    BY <2>2, <2>3
<1>20. OnceInv'
  <2>1. ToSet(b) \subseteq ToSet(batch[0]) /\ \A f : Once(batch[0], f) => Once(b, f)
    BY <1>3
  <2>2. \A d \in Conns : /\ EraseOf(d) \in ToSet(todo'[0]) <=> EraseOf(d) \in ToSet(todo[0])
                         /\ Once(todo'[0], EraseOf(d))
    <3>1. CASE loop[c] = 0
      BY <1>5, <1>8, <1>9, <3>1 DEF OnceInv
    <3>2. CASE loop[c] # 0
      BY <1>9, <3>2, SetupTypes DEF OnceInv
    <3>3. QED
      BY <3>1, <3>2
  <2>3. QED
    BY <1>4, <2>1, <2>2 DEF OnceInv
<1>21. OpenInv'
  <2>1. ASSUME NEW k \in Loops, NEW d \in held'[k]
        PROVE  obj'[d] = "open"
    <3>1. obj[d] = "open" /\ d \in Conns
      BY <1>1, <1>6, <2>1 DEF OpenInv
    <3>2. QED
      BY <1>11, <2>1, <3>1
  <2>2. ASSUME NEW f \in Fds, connectionsMap_'[f] \in Conns
        PROVE  obj'[connectionsMap_'[f]] = "open" /\ fd[connectionsMap_'[f]] = f
    <3>1. f # fd[c] /\ connectionsMap_'[f] = connectionsMap_[f]
      BY <1>1, <2>2, ServerAssumption
    <3>2. obj[connectionsMap_[f]] = "open" /\ fd[connectionsMap_[f]] = f
      BY <2>2, <3>1 DEF OpenInv
    <3>3. QED
      BY <1>11, <2>2, <3>1, <3>2
  <2>3. QED
    BY <1>2, <2>1, <2>2 DEF OpenInv
<1>22. LiveInv'
  <2>1. SUFFICES ASSUME NEW d \in Conns, obj'[d] = "open"
                  PROVE  /\ fd[d] \in Fds
                         /\ state_[d] # "Disconected" => connectionsMap_'[fd[d]] = d
                         /\ connectionsMap_'[fd[d]] = d => interest[d] # {}
                         /\ connectionsMap_'[fd[d]] # d /\ interest[d] # {} =>
                              DetachOf(d) \in Queued(loop[d])'
    BY <1>2 DEF LiveInv, Entry
  <2>2. CASE d = c
    BY <1>6, <1>12, <1>13, <1>10, <2>2
  <2>3. CASE d # c
    <3>1. obj[d] = "open" /\ loop[d] \in Loops
      BY <1>11, <2>1
    <3>2. connectionsMap_'[fd[d]] = connectionsMap_[fd[d]]
      BY <1>12, <1>13, <2>3, <3>1
    <3>3. DetachOf(d).conn = d
      BY DEF DetachOf, Functor
    <3>4. DetachOf(d) \in Queued(loop[d]) => DetachOf(d) \in Queued(loop[d])'
      <4>1. PICK k \in Loops : k = loop[d] /\ k = loop'[d]
        BY <1>2, <3>1
      <4>2. DetachOf(d) \in Queued(k) => DetachOf(d) \in Queued(k)'
        BY <1>10, <2>3, <3>3
      <4>3. QED
        BY <4>1, <4>2
    <3>5. QED
      BY <3>1, <3>2, <3>4 DEF LiveInv, Entry
  <2>4. QED
    BY <2>2, <2>3
<1>23. ActiveInv'
  <2>1. SUFFICES ASSUME NEW k \in Loops, NEW d \in active[k] \cap Conns, obj'[d] # obj[d]
                  PROVE  FALSE
    BY <1>2 DEF ActiveInv
  <2>2. obj[d] = "open" /\ interest[d] # {} /\ loop[d] \in Loops /\ d # c
    BY <1>6, <1>12, <1>13, <2>1 DEF ActiveInv
  <2>3. fd[d] \in Fds /\ (Entry(d) \/ DetachOf(d) \in Queued(loop[d]))
    BY <2>2 DEF LiveInv
  <2>4. DetachOf(d).conn = d
    BY DEF DetachOf, Functor
  <2>5. DetachOf(d) \notin Queued(loop[d])
    <3>1. \A j \in Loops : \A f \in Queued(j)' : f.conn # d
      BY <1>11, <2>1
    <3>2. \A j \in Loops : DetachOf(d) \in Queued(j) => DetachOf(d) \in Queued(j)'
      BY <1>10, <2>2, <2>4
    <3>3. QED
      BY <2>2, <2>4, <3>1, <3>2
  <2>6. connectionsMap_'[fd[d]] = connectionsMap_[fd[d]]
    BY <1>12, <1>13, <2>2
  <2>7. QED
    BY <1>11, <2>1, <2>2, <2>3, <2>5, <2>6 DEF Entry
<1>24. NoStuckInput'
  <2>1. SUFFICES ASSUME NEW d \in Conns, obj'[d] = "open", "IN" \in interest[d],
                         state_[d] = "Connected", unread[d] \/ fin[d]
                  PROVE  \/ edge'[d]
                         \/ d \in active'[loop[d]]
                         \/ /\ at'[loop[d]].conn = d
                            /\ at'[loop[d]].pc \in {"close", "disconnect"}
    BY <1>2 DEF NoStuckInput
  <2>2. \/ edge[d]
        \/ d \in active[loop[d]]
        \/ /\ at[loop[d]].conn = d
           /\ at[loop[d]].pc \in {"close", "disconnect"}
    BY <1>11, <2>1 DEF NoStuckInput
  <2>3. edge' = edge /\ active' = active
    BY <1>2
  <2>4. QED
    BY <1>2, <2>2, <2>3
<1>25. QED
  BY <1>15, <1>16, <1>17, <1>18, <1>19, <1>20,
     <1>21, <1>22, <1>23, <1>24 DEF LifeInv

LEMMA InitLife == Init /\ OneCloser => IInv
<1> SUFFICES ASSUME Init, OneCloser PROVE LifeInv
  BY InitOwner DEF IInv
<1>1. Types
  BY InitOwner, TypesAre DEF OwnerInv
<1>2. /\ \A l \in Loops : at[l] = Idle /\ todo[l] = << >> /\ batch[l] = << >> /\ active[l] = {}
                          /\ held[l] = {}
      /\ \A c \in Conns : obj[c] = "none" /\ state_[c] = "unset" /\ interest[c] = {} /\ loop[c] = 0
      /\ \A f \in Fds : connectionsMap_[f] \notin Conns
      /\ timers = {}
  BY ServerAssumption DEF Init
<1>3. 0 \in Loops
  BY <1>1, SetupTypes
<1>4. \A l \in Loops : Queued(l) = {}
  BY <1>2, EmptyHolds DEF Queued
<1>5. SetupInv /\ LoopInv /\ UnsetInv
  BY <1>2 DEF SetupInv, LoopInv, UnsetInv
<1>6. FrameInv
  BY <1>2, ServerAssumption DEF FrameInv, Idle
<1>7. QueueInv /\ OnceInv
  BY <1>2, <1>3, <1>4, EmptyHolds DEF QueueInv, OnceInv
<1>8. OpenInv /\ LiveInv /\ ActiveInv /\ NoStuckInput
  BY <1>2 DEF OpenInv, LiveInv, ActiveInv, NoStuckInput
<1>9. QED
  BY <1>5, <1>6, <1>7, <1>8 DEF LifeInv

LEMMA LifeNext ==
  ASSUME IInv, [Next]_vars
  PROVE  IInv'
<1>1. Known
  BY KnownIs
<1>2. OwnerInv'
  BY OwnerNext DEF IInv
<1>3. CASE UNCHANGED vars
  <2>1. Known'
    BY <1>1, <1>3 DEF vars, setup, kernel, Known, Types, NewInv, OneOwnerPerFd, SetupInv,
       OneCloser, LoopInv, UnsetInv, FrameInv, QueueInv, OnceInv, OpenInv, LiveInv, ActiveInv,
       NoStuckInput, Queued, Entry
  <2>2. QED
    BY <1>2, <2>1 DEF IInv, LifeInv, Known
<1>4. ASSUME NEW c \in Conns, Peer(c)
      PROVE  LifeInv'
  BY <1>1, <1>4, ConnectLife, PeerSendLife, PeerCloseLife DEF Peer
<1>5. ASSUME NEW l \in Loops, LoopStep(l)
      PROVE  LifeInv'
  <2>1. UNCHANGED setup
    BY <1>5 DEF LoopStep
  <2>2. CASE Poll(l) \/ EnterDoToDoList(l) \/ LeaveDoToDoList(l) \/ Return(l)
    BY <1>1, <2>1, <2>2, PollLife, EnterLife, LeaveLife, ReturnLife
  <2>3. CASE HandleMessage(l) \/ onMessage(l) \/ TestState(l) \/ SetState(l)
    BY <1>1, <2>1, <2>3, HandleMessageLife, onMessageLife, TestStateLife, SetStateLife
  <2>4. CASE HandleClose(l)
    BY <1>1, <2>1, <2>4, HandleCloseHere, HandleCloseThere
  <2>5. CASE ConnectionDestructor(l)
    BY <1>1, <2>1, <2>5, ConnectionDestructorLife
  <2>6. CASE Accept \/ HandleNewConnection \/ ConnectionEstablished \/ onConnection
    BY <1>1, <2>1, <2>6, AcceptLife, HandleNewConnectionLife, ConnectionEstablishedLife,
       onConnectionLife
  <2>7. CASE ActiveCloseConn \/ CloseInline \/ CloseFromQueue
    BY <1>1, <2>1, <2>7, ActiveCloseConnLife, CloseInlineLife, CloseFromQueueLife
  <2>8. QED
    BY <1>5, <2>2, <2>3, <2>4, <2>5, <2>6, <2>7 DEF LoopStep
<1>6. QED
  BY <1>2, <1>3, <1>4, <1>5 DEF Next, IInv

LEMMA Invariance == Spec /\ OneCloser => []IInv
BY InitLife, LifeNext, PTL DEF Spec

\* The assertion of HandleCloseInLoop holds, with an entry that is the connection's
\* own, in a server that has one thread, or several and no timer that closes.
THEOREM EntryIsFound == Spec /\ OneCloser => []EraseFindsEntry
<1>1. ASSUME IInv
      PROVE  EraseFindsEntry
  <2>1. SUFFICES ASSUME NEW c \in Conns, ErasePending(c)
                 PROVE  connectionsMap_[fd[c]] = c
    BY DEF EraseFindsEntry
  <2>2. 0 \in Loops
    BY ServerAssumption DEF Loops
  <2>3. CASE at[0].pc = "erase" /\ at[0].conn = c
    BY <1>1, <2>2, <2>3 DEF IInv, LifeInv, FrameInv, Entry
  <2>4. CASE EraseOf(c) \in Queued(0)
    BY <1>1, <2>2, <2>4 DEF IInv, LifeInv, QueueInv, Entry, EraseOf, Functor
  <2>5. QED
    BY <2>1, <2>3, <2>4 DEF ErasePending, EraseOf, Queued
<1>2. QED
  BY Invariance, <1>1, PTL

\* No loop dispatches an event to a connection that is destroyed or has left its
\* poller, for the servers of EntryIsFound.
THEOREM ChannelsAreAlive == Spec /\ OneCloser => []NoDanglingChannel
<1>1. IInv => NoDanglingChannel
  BY DEF IInv, LifeInv, ActiveInv, NoDanglingChannel
<1>2. QED
  BY Invariance, <1>1, PTL

\* Input that nobody has read is announced or about to be read, for the servers of
\* EntryIsFound.
THEOREM InputIsNotStuck == Spec /\ OneCloser => []NoStuckInput
<1>1. IInv => NoStuckInput
  BY DEF IInv, LifeInv
<1>2. QED
  BY Invariance, <1>1, PTL

------------------------------------------------------------------------------
(* Each connection is served, removed, detached and destroyed, once. *)

Stages == [c \in Conns |-> Stage(c)]

LEMMA StageIs ==
  ASSUME Types, NEW c \in Conns
  PROVE  /\ obj[c] \in {"none", "backlog", "accepted"} => Stage(c) = "absent"
         /\ obj[c] = "gone" => Stage(c) = "destroyed"
         /\ obj[c] = "open" =>
              /\ connectionsMap_[fd[c]] = c => Stage(c) = "served"
              /\ connectionsMap_[fd[c]] # c /\ interest[c] # {} => Stage(c) = "removed"
              /\ connectionsMap_[fd[c]] # c /\ interest[c] = {} => Stage(c) = "detached"
BY DEF Types, Stage

LEMMA StageBecomes ==
  ASSUME Types', NEW c \in Conns
  PROVE  /\ obj'[c] \in {"none", "backlog", "accepted"} => Stage(c)' = "absent"
         /\ obj'[c] = "gone" => Stage(c)' = "destroyed"
         /\ obj'[c] = "open" =>
              /\ connectionsMap_'[fd'[c]] = c => Stage(c)' = "served"
              /\ connectionsMap_'[fd'[c]] # c /\ interest'[c] # {} => Stage(c)' = "removed"
              /\ connectionsMap_'[fd'[c]] # c /\ interest'[c] = {} => Stage(c)' = "detached"
BY DEF Types, Stage

\* The next stage, or the same.
MovesOn(c) ==
  \/ Stage(c)' = Stage(c)
  \/ Stage(c) = "absent" /\ Stage(c)' = "served"
  \/ Stage(c) = "served" /\ Stage(c)' = "removed"
  \/ Stage(c) = "removed" /\ Stage(c)' = "detached"
  \/ Stage(c) = "detached" /\ Stage(c)' = "destroyed"

\* A step that changes neither objects nor entries, and empties no interest.
LEMMA StaysInStage ==
  ASSUME Types, Types', NEW c \in Conns,
         \/ obj'[c] = obj[c]
         \/ obj[c] \in {"none", "backlog"} /\ obj'[c] \in {"none", "backlog", "accepted"},
         obj[c] = "open" => fd'[c] = fd[c] /\ connectionsMap_'[fd[c]] = connectionsMap_[fd[c]],
         obj[c] = "open" => (interest'[c] = {} <=> interest[c] = {})
  PROVE  MovesOn(c)
<1>1. obj[c] \in {"none", "backlog", "accepted", "open", "gone"}
  BY DEF Types
<1>2. CASE obj[c] = "open"
  BY <1>2, StageIs, StageBecomes DEF MovesOn
<1>3. CASE obj[c] = "gone"
  BY <1>3, StageIs, StageBecomes DEF MovesOn
<1>4. CASE obj[c] \in {"none", "backlog", "accepted"}
  <2>1. obj'[c] \in {"none", "backlog", "accepted"}
    BY <1>4
  <2>2. QED
    BY <1>4, <2>1, StageIs, StageBecomes DEF MovesOn
<1>5. QED
  BY <1>1, <1>2, <1>3, <1>4

\* A connection is destroyed after its loop has deleted its channel.
LEMMA DestroyedIsLast ==
  ASSUME Known, Types', NEW c \in Conns, obj[c] = "open", obj'[c] = "gone",
         connectionsMap_'[fd[c]] = connectionsMap_[fd[c]],
         \A f \in Fds : connectionsMap_'[f] # c,
         \A k \in Loops : \A f \in Queued(k) : f.conn # c
  PROVE  MovesOn(c)
<1>1. fd[c] \in Fds /\ loop[c] \in Loops
  BY DEF Known, LiveInv, Types
<1>2. ~Entry(c)
  BY <1>1 DEF Entry
<1>3. DetachOf(c).conn = c
  BY DEF DetachOf, Functor
<1>4. DetachOf(c) \notin Queued(loop[c])
  BY <1>1, <1>3
<1>5. interest[c] = {}
  BY <1>2, <1>4 DEF Known, LiveInv
<1>6. QED
  BY <1>2, <1>5, StageIs, StageBecomes DEF MovesOn, Known, Entry

LEMMA StepMovesOn ==
  ASSUME Known, Types', [Next]_vars, NEW d \in Conns
  PROVE  MovesOn(d)
<1> USE DEF Known, Types, kernel, setup
<1>1. CASE UNCHANGED vars
  BY <1>1, StaysInStage DEF vars
<1>2. ASSUME NEW c \in Conns, Peer(c)
      PROVE  MovesOn(d)
  BY <1>2, StaysInStage, ZenonT(60) DEF Peer, Connect, PeerSend, PeerClose
<1>3. ASSUME NEW l \in Loops, LoopStep(l)
      PROVE  MovesOn(d)
  <2>1. CASE Poll(l) \/ EnterDoToDoList(l) \/ HandleMessage(l) \/ onMessage(l)
    BY <2>1, StaysInStage DEF Poll, EnterDoToDoList, HandleMessage, onMessage
  <2>2. CASE TestState(l) \/ SetState(l) \/ HandleClose(l)
    BY <2>2, StaysInStage DEF TestState, SetState, HandleClose
  <2>3. CASE onConnection \/ ActiveCloseConn
    BY <2>3, StaysInStage DEF onConnection, ActiveCloseConn
  <2>4. CASE Accept
    <3>1. PICK c \in Conns, f \in Fds : /\ obj[c] = "backlog"
                                        /\ obj' = [obj EXCEPT ![c] = "accepted"]
                                        /\ fd' = [fd EXCEPT ![c] = f]
      BY <2>4 DEF Accept
    <3>2. connectionsMap_' = connectionsMap_ /\ interest' = interest
      BY <2>4 DEF Accept
    <3>3. QED
      BY <3>1, <3>2, StaysInStage, ZenonT(60)
  <2>5. CASE ConnectionEstablished
    <3>1. /\ obj' = obj /\ fd' = fd /\ connectionsMap_' = connectionsMap_
          /\ interest' = [interest EXCEPT ![at[0].conn] = @ \cup {"IN"}]
      BY <2>5 DEF ConnectionEstablished
    <3>2. at[0].pc = "established" /\ at[0].conn \in Conns /\ obj[at[0].conn] = "open"
      BY <2>5, SetupTypes DEF ConnectionEstablished, Frames, FrameInv
    <3>3. interest[at[0].conn] # {}
      <4>1. state_[at[0].conn] = "unset"
        BY <3>2, SetupTypes DEF FrameInv
      <4>2. interest[at[0].conn] = {"ET"}
        BY <3>2, <4>1 DEF UnsetInv
      <4>3. QED
        BY <4>2
    <3>4. QED
      BY <3>1, <3>2, <3>3, StaysInStage, ZenonT(60)
  <2>6. CASE HandleNewConnection
    <3>1. PICK c \in Conns : c = at[0].conn /\ obj[c] = "accepted"
      BY <2>6, SetupTypes DEF HandleNewConnection, Frames, NewInv
    <3>2. /\ obj' = [obj EXCEPT ![c] = "open"]
          /\ interest' = [interest EXCEPT ![c] = {"ET"}]
          /\ connectionsMap_' = [connectionsMap_ EXCEPT ![fd[c]] = c]
          /\ fd' = fd
      BY <2>6, <3>1 DEF HandleNewConnection
    <3>3. CASE d = c
      <4>1. fd[c] \in Fds
        BY <3>1 DEF UnsetInv
      <4>2. obj'[d] = "open" /\ connectionsMap_'[fd'[d]] = d
        BY <3>2, <3>3, <4>1
      <4>3. QED
        BY <3>1, <3>3, <4>2, StageIs, StageBecomes DEF MovesOn
    <3>4. CASE d # c
      <4>1. obj[d] = "open" => connectionsMap_'[fd[d]] = connectionsMap_[fd[d]]
        BY <3>1, <3>2, <3>4, ZenonT(60) DEF OneOwnerPerFd, LiveInv, UnsetInv
      <4>2. obj'[d] = obj[d] /\ interest'[d] = interest[d] /\ fd'[d] = fd[d]
        BY <3>2, <3>4
      <4>3. QED
        BY <4>1, <4>2, StaysInStage
    <3>5. QED
      BY <3>3, <3>4
  <2>7. CASE Return(l) \/ LeaveDoToDoList(l)
    <3>1. /\ Release(obj) /\ fd' = fd /\ connectionsMap_' = connectionsMap_
          /\ interest' = interest /\ todo' = todo /\ batch' = batch
      BY <2>7 DEF Return, LeaveDoToDoList
    <3>2. CASE obj'[d] = obj[d]
      BY <3>1, <3>2, StaysInStage
    <3>3. CASE obj'[d] # obj[d]
      <4>1. /\ obj[d] = "open" /\ obj'[d] = "gone"
            /\ \A f \in Fds : connectionsMap_'[f] # d
            /\ \A k \in Loops : \A f \in Queued(k)' : f.conn # d
        BY <3>1, <3>3, ReleaseFrees
      <4>2. \A k \in Loops : Queued(k)' = Queued(k)
        BY <3>1 DEF Queued
      <4>3. \A k \in Loops : \A f \in Queued(k) : f.conn # d
        BY <4>1, <4>2
      <4>4. connectionsMap_'[fd[d]] = connectionsMap_[fd[d]]
        BY <3>1
      <4>5. QED
        BY <4>1, <4>3, <4>4, DestroyedIsLast
    <3>4. QED
      BY <3>2, <3>3
  <2>8. CASE ConnectionDestructor(l)
    <3>1. PICK c \in Conns : /\ batch[l] # << >> /\ Head(batch[l]) = DetachOf(c)
                             /\ interest' = [interest EXCEPT ![c] = {}]
      BY <2>8 DEF ConnectionDestructor, StartFunctor, DetachOf
    <3>2. obj' = obj /\ fd' = fd /\ connectionsMap_' = connectionsMap_
      BY <2>8 DEF ConnectionDestructor
    <3>3. DetachOf(c) \in Queued(l)
      <4>1. PICK b \in Seq(Functors) : b = batch[l]
        OBVIOUS
      <4>2. Head(b) \in ToSet(b)
        <5>1. ToSet(b) = ToSet(Tail(b)) \cup {Head(b)}
          BY <3>1, <4>1, TailHolds
        <5>2. QED
          BY <5>1
      <4>3. QED
        BY <3>1, <4>1, <4>2, ZenonT(60) DEF Queued
    <3>4. obj[c] = "open" /\ connectionsMap_[fd[c]] # c
      <4>1. DetachOf(c).conn = c /\ DetachOf(c).op = "ConnectionDestructor"
        BY DEF DetachOf, Functor
      <4>2. QED
        BY <3>3, <4>1 DEF QueueInv, Entry
    <3>5. CASE d = c
      <4>1. interest'[d] = {}
        BY <3>1, <3>5
      <4>2. QED
        BY <3>2, <3>4, <3>5, <4>1, StageIs, StageBecomes DEF MovesOn
    <3>6. CASE d # c
      BY <3>1, <3>2, <3>6, StaysInStage
    <3>7. QED
      BY <3>5, <3>6
  <2>9. CASE l = 0 /\ (CloseInline \/ CloseFromQueue)
    <3>1. PICK c \in Conns : HandleCloseInLoop(c) /\ Entry(c) /\ obj[c] = "open" /\ fd[c] \in Fds
      <4>1. CASE CloseInline
        <5>1. HandleCloseInLoop(at[0].conn) /\ at[0].pc = "erase" /\ at[0].conn \in Conns
          BY <4>1, SetupTypes DEF CloseInline, Frames
        <5>2. QED
          BY <5>1, SetupTypes DEF FrameInv, LiveInv
      <4>2. CASE CloseFromQueue
        <5>1. PICK c \in Conns : /\ HandleCloseInLoop(c) /\ batch[0] # << >>
                                 /\ Head(batch[0]) = EraseOf(c)
          BY <4>2 DEF CloseFromQueue, StartFunctor, EraseOf
        <5>2. EraseOf(c) \in Queued(0)
          <6>1. PICK b \in Seq(Functors) : b = batch[0]
            BY SetupTypes
          <6>2. Head(b) \in ToSet(b)
            <7>1. ToSet(b) = ToSet(Tail(b)) \cup {Head(b)}
              BY <5>1, <6>1, TailHolds
            <7>2. QED
              BY <7>1
          <6>3. QED
            BY <5>1, <6>1, <6>2, ZenonT(60) DEF Queued
        <5>3. obj[c] = "open" /\ Entry(c)
          <6>1. EraseOf(c).conn = c /\ EraseOf(c).op = "HandleCloseInLoop"
            BY DEF EraseOf, Functor
          <6>2. QED
            BY <5>2, <6>1, SetupTypes, ZenonT(60) DEF QueueInv, Entry
        <5>4. QED
          BY <5>1, <5>3 DEF LiveInv
      <4>3. QED
        BY <2>9, <4>1, <4>2
    <3>2. Release(obj) /\ fd' = fd /\ interest' = interest
      BY <2>9 DEF CloseInline, CloseFromQueue, HandleCloseInLoop
    <3>3. /\ connectionsMap_' = [connectionsMap_ EXCEPT ![fd[c]] = NoConn]
          /\ todo' = [todo EXCEPT ![loop[c]] = Append(todo[loop[c]], DetachOf(c))]
      BY <3>1 DEF HandleCloseInLoop, DetachOf
    <3>4. obj'[d] # obj[d] =>
            /\ obj[d] = "open" /\ obj'[d] = "gone"
            /\ \A f \in Fds : connectionsMap_'[f] # d
            /\ \A k \in Loops : \A f \in Queued(k)' : f.conn # d
      BY <3>2, ReleaseFrees
    <3>5. CASE d = c
      <4>1. PICK m \in Loops : m = loop[c] /\ todo[m] \in Seq(Functors)
        OBVIOUS
      <4>2. PICK x \in Functors : x = DetachOf(c) /\ x.conn = c
        <5>1. DetachOf(c) \in Functors /\ DetachOf(c).conn = c
          BY DEF DetachOf, Functor, Functors
        <5>2. QED
          BY <5>1
      <4>3. x \in ToSet(todo'[m])
        BY <3>3, <4>1, <4>2, AppendHolds
      <4>4. obj'[d] = "open"
        BY <3>1, <3>4, <3>5, <4>2, <4>3 DEF Queued
      <4>5. connectionsMap_'[fd'[d]] # d /\ interest'[d] # {}
        BY <3>1, <3>2, <3>3, <3>5, ServerAssumption DEF LiveInv
      <4>6. QED
        BY <3>1, <3>5, <4>4, <4>5, StageIs, StageBecomes DEF MovesOn, Entry
    <3>6. CASE d # c
      <4>1. obj[d] = "open" => connectionsMap_'[fd[d]] = connectionsMap_[fd[d]]
        BY <3>1, <3>3, <3>6 DEF OneOwnerPerFd
      <4>2. CASE obj'[d] = obj[d]
        BY <3>2, <4>1, <4>2, StaysInStage
      <4>3. CASE obj'[d] # obj[d]
        <5>1. \A k \in Loops : \A f \in Queued(k) : f.conn # d
          <6>1. SUFFICES ASSUME NEW k \in Loops, NEW f \in Queued(k), f.conn = d
                         PROVE  f \in Queued(k)'
            BY <3>4, <4>3
          <6>2. obj[d] = "open"
            BY <3>4, <4>3
          <6>3. f \in ToSet(todo[k]) => f \in ToSet(todo'[k])
            <7>1. PICK m \in Loops : m = loop[c] /\ todo[m] \in Seq(Functors)
              OBVIOUS
            <7>2. PICK x \in Functors : x = DetachOf(c)
              BY DEF DetachOf, Functor, Functors
            <7>3. todo'[m] = Append(todo[m], x) /\ \A j \in Loops : j # m => todo'[j] = todo[j]
              BY <3>3, <7>1, <7>2
            <7>4. QED
              <8>1. ToSet(Append(todo[m], x)) = ToSet(todo[m]) \cup {x}
                BY <7>1, AppendHolds
              <8>2. QED
                BY <7>3, <8>1
          <6>4. CASE CloseInline
            BY <6>1, <6>3, <6>4 DEF CloseInline, Queued
          <6>5. CASE CloseFromQueue
            <7>1. PICK e \in Conns : /\ batch[0] # << >> /\ Head(batch[0]) = EraseOf(e)
                                     /\ batch' = [batch EXCEPT ![0] = Tail(@)]
                                     /\ held' = [held EXCEPT ![0] = @ \cup {e}]
              BY <6>5 DEF CloseFromQueue, StartFunctor, EraseOf
            <7>2. PICK b \in Seq(Functors) : b = batch[0]
              BY SetupTypes
            <7>3. ToSet(b) = ToSet(Tail(b)) \cup {Head(b)}
              BY <7>1, <7>2, TailHolds
            <7>4. batch'[0] = Tail(b) /\ \A j \in Loops : j # 0 => batch'[j] = batch[j]
              BY <7>1, <7>2, SetupTypes
            <7>5. CASE f \in ToSet(todo[k])
              BY <6>3, <7>5 DEF Queued
            <7>6. CASE f \in ToSet(batch[k]) /\ k = 0 /\ f = EraseOf(e)
              <8>1. e = d
                BY <6>1, <7>6 DEF EraseOf, Functor
              <8>2. d \in held'[0]
                BY <7>1, <8>1, SetupTypes
              <8>3. FALSE
                BY <3>2, <4>3, <8>2, ReleaseFrees, SetupTypes
              <8>4. QED
                BY <8>3
            <7>7. CASE f \in ToSet(batch[k]) /\ ~(k = 0 /\ f = EraseOf(e))
              <8>1. f \in ToSet(batch'[k])
                BY <7>1, <7>2, <7>3, <7>4, <7>7
              <8>2. QED
                BY <8>1 DEF Queued
            <7>8. QED
              BY <6>1, <7>5, <7>6, <7>7 DEF Queued
          <6>6. QED
            BY <2>9, <6>4, <6>5
        <5>2. QED
          BY <3>4, <4>1, <4>3, <5>1, DestroyedIsLast
      <4>4. QED
        BY <4>2, <4>3
    <3>7. QED
      BY <3>5, <3>6
  <2>10. QED
    BY <1>3, <2>1, <2>2, <2>3, <2>4, <2>5, <2>6, <2>7, <2>8, <2>9 DEF LoopStep
<1>4. QED
  BY <1>1, <1>2, <1>3 DEF Next

\* The server implements ConnectionLife: every connection goes through its stages in
\* order and once, for the servers of EntryIsFound.
THEOREM ConnectionsLiveOnce == Spec /\ OneCloser => LivesOnce
<1>1. Init => Life!Init
  BY DEF Init, Life!Init, Stage
<1>2. ASSUME IInv, [Next]_vars
      PROVE  [Life!Next]_Stages
  <2>1. Known /\ Types'
    <3>1. IInv'
      BY <1>2, LifeNext
    <3>2. TypeInv' <=> Types'
      BY TypesAre, PTL
    <3>3. QED
      BY <1>2, <3>1, <3>2, KnownIs DEF IInv, OwnerInv
  <2>2. \A d \in Conns : MovesOn(d)
    BY <1>2, <2>1, StepMovesOn
  <2>3. PICK C \in SUBSET Conns : C = {d \in Conns : Stage(d)' # Stage(d)}
    OBVIOUS
  <2>4. Life!Advance(C)
    BY <2>2, <2>3 DEF Life!Advance, Life!Following, MovesOn, Stages
  <2>5. QED
    BY <2>4 DEF Life!Next
<1>3. QED
  BY <1>1, <1>2, Invariance, PTL DEF Spec, LivesOnce, Life!Spec, Stages
==============================================================================
