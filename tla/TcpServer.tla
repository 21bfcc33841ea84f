------------------------------ MODULE TcpServer ------------------------------
(***************************************************************************)
(* The life of connections in a TcpServer: the Acceptor and connectionsMap_ *)
(* on the main loop, TcpConnections on the sub loops, and the shared_ptrs   *)
(* that keep a connection alive (src/NetWork: Acceptor, TcpServer,          *)
(* TcpConnection, Channel, Epoller; HttpServer's callbacks).                *)
(*                                                                         *)
(* Loop 0 is main_reactor_; loops 1..thread_nums_ are those of the thread   *)
(* pool.  A loop's queue of functors is the Executor that EventLoop.tla     *)
(* implements: a queued functor wakes its loop.  The step boundaries are    *)
(* where two threads can see each other's half-done work: the test and the  *)
(* assignment of state_, the call of on_close_, the queues.                 *)
(***************************************************************************)
EXTENDS Integers, Sequences, SequencesExt

CONSTANTS
  Conns,        \* the connections that clients open (bounds the run)
  Fds,          \* descriptor numbers the kernel can hand out
  NoConn,       \* no connection
  MaxThreads,   \* the largest thread_nums_ (bounds the run)
  Setups        \* the values of <<thread_nums_, auto_close_conn_>> to start with

\* Channels other than those of connections, both on loop 0.
Acceptor == "acceptor"
Timerfd == "timerfd"

ASSUME ServerAssumption ==
  /\ MaxThreads \in Nat
  /\ Setups \subseteq (0 .. MaxThreads) \X BOOLEAN
  /\ {NoConn, Acceptor, Timerfd} \cap Conns = {}

Loops == 0 .. MaxThreads

VARIABLES
  thread_nums_,     \* EventLoopThreadPool::thread_nums_
  auto_close_conn_, \* HttpServer::auto_close_conn_
  obj,              \* the socket and its TcpConnection object
  fd,               \* connfd_
  loop,             \* loop_
  state_,           \* state_
  interest,         \* what the channel is registered for in its Epoller
  unread, fin,      \* received bytes not read yet; the peer has closed
  edge,             \* EPOLLET: an arrival epoll_wait has not reported yet
  connectionsMap_,  \* connectionsMap_
  next_,            \* EventLoopThreadPool::next_
  timers,           \* connections with an armed ActiveCloseConn timer
  phase,            \* per loop: "poll", "dispatch" or "functors"
  active,           \* per loop: channels Poll returned, not handled yet
  at,               \* per loop: the callback being run
  todo,             \* per loop: to_do_list_
  batch,            \* per loop: functors of DoToDoList not started
  held              \* per loop: connections bound in the batch's started functors

kernel == <<fd, loop, unread, fin>>
setup == <<thread_nums_, auto_close_conn_>>
vars == <<setup, obj, kernel, state_, interest, edge, connectionsMap_, next_, timers,
          phase, active, at, todo, batch, held>>

Idle == [pc |-> "idle", conn |-> NoConn, ret |-> "idle"]
Functor(op, c) == [op |-> op, conn |-> c]

------------------------------------------------------------------------------
(* Ownership: where a shared_ptr<TcpConnection> can be. *)

InQueue(s, c) == \E f \in ToSet(s) : f.conn = c

Held(c) ==
  \/ \E f \in Fds : connectionsMap_[f] = c
  \/ \E l \in Loops : \/ at[l].conn = c
                      \/ c \in held[l]
                      \/ InQueue(todo[l], c)
                      \/ InQueue(batch[l], c)

\* ~TcpConnection runs, and closes the descriptor, in the step that drops the
\* last reference.
Release(o) ==
  obj' = [c \in Conns |-> IF o[c] = "open" /\ ~Held(c)' THEN "gone" ELSE o[c]]

\* Mutated: HandleClose closes the descriptor.
FdsInUseUntilClosed ==
  {fd[c] : c \in {d \in Conns : obj[d] \in {"accepted", "open"} /\ state_[d] # "Disconected"}}

\* Descriptors between accept4 and close.
FdsInUse == {fd[c] : c \in {d \in Conns : obj[d] \in {"accepted", "open"}}}

------------------------------------------------------------------------------
Init ==
  /\ \E s \in Setups : thread_nums_ = s[1] /\ auto_close_conn_ = s[2]
  /\ obj = [c \in Conns |-> "none"]
  /\ fd \in [Conns -> {-1}]
  /\ loop = [c \in Conns |-> 0]
  /\ state_ = [c \in Conns |-> "unset"]
  /\ interest = [c \in Conns |-> {}]
  /\ unread = [c \in Conns |-> FALSE]
  /\ fin = [c \in Conns |-> FALSE]
  /\ edge = [c \in Conns |-> FALSE]
  /\ connectionsMap_ = [f \in Fds |-> NoConn]
  /\ next_ = 0
  /\ timers = {}
  /\ phase = [l \in Loops |-> "poll"]
  /\ active = [l \in Loops |-> {}]
  /\ at = [l \in Loops |-> Idle]
  /\ todo = [l \in Loops |-> << >>]
  /\ batch = [l \in Loops |-> << >>]
  /\ held = [l \in Loops |-> {}]

------------------------------------------------------------------------------
(* The peers. *)

Connect(c) ==
  /\ obj[c] = "none"
  /\ obj' = [obj EXCEPT ![c] = "backlog"]
  /\ UNCHANGED <<kernel, state_, interest, edge, connectionsMap_, next_, timers,
                 phase, active, at, todo, batch, held>>

Reachable(c) == obj[c] \in {"backlog", "accepted", "open"} /\ ~fin[c]

\* Bytes or the end of the stream arrive; a registered channel gets an edge.
Arrive(c) == edge' = [edge EXCEPT ![c] = "IN" \in interest[c]]

PeerSend(c) ==
  /\ Reachable(c)
  /\ unread' = [unread EXCEPT ![c] = TRUE]
  /\ Arrive(c)
  /\ UNCHANGED <<obj, fd, loop, fin, state_, interest, connectionsMap_, next_,
                 timers, phase, active, at, todo, batch, held>>

PeerClose(c) ==
  /\ Reachable(c)
  /\ fin' = [fin EXCEPT ![c] = TRUE]
  /\ Arrive(c)
  /\ UNCHANGED <<obj, fd, loop, unread, state_, interest, connectionsMap_, next_,
                 timers, phase, active, at, todo, batch, held>>

------------------------------------------------------------------------------
(* Every loop: EventLoop::Loop. *)

Ready(l) ==
  {c \in Conns : obj[c] = "open" /\ loop[c] = l /\ "IN" \in interest[c] /\ edge[c]}

\* Besides its connections, loop 0 polls the listening socket and the timerfd;
\* any armed timer may have expired.
MainReady(l) ==
  IF l # 0 THEN {{}}
  ELSE LET acc == IF \E c \in Conns : obj[c] = "backlog" THEN {Acceptor} ELSE {}
       IN  {acc} \cup (IF timers # {} THEN {acc \cup {Timerfd}} ELSE {})

\* A poll that finds only the eventfd leaves the active list empty.
Poll(l) ==
  /\ phase[l] = "poll"
  /\ \E others \in MainReady(l) :
        /\ Ready(l) \cup others # {} \/ todo[l] # << >>
        /\ active' = [active EXCEPT ![l] = Ready(l) \cup others]
  /\ edge' = [c \in Conns |-> edge[c] /\ c \notin Ready(l)]
  /\ phase' = [phase EXCEPT ![l] = "dispatch"]
  /\ UNCHANGED <<obj, kernel, state_, interest, connectionsMap_, next_, timers,
                 at, todo, batch, held>>

\* Take channel ch from the active list and enter its callback.
Dispatch(l, ch, frame) ==
  /\ phase[l] = "dispatch"
  /\ at[l] = Idle
  /\ ch \in active[l]
  /\ active' = [active EXCEPT ![l] = @ \ {ch}]
  /\ at' = [at EXCEPT ![l] = frame]

\* DoToDoList: swap the list.
EnterDoToDoList(l) ==
  /\ phase[l] = "dispatch"
  /\ at[l] = Idle
  /\ active[l] = {}
  /\ phase' = [phase EXCEPT ![l] = "functors"]
  /\ batch' = [batch EXCEPT ![l] = todo[l]]
  /\ todo' = [todo EXCEPT ![l] = << >>]
  /\ UNCHANGED <<obj, kernel, state_, interest, edge, connectionsMap_, next_,
                 timers, active, at, held>>

\* Mutated: the vector of functors outlives the call.
LeaveDoToDoListKeeping(l) ==
  /\ phase[l] = "functors"
  /\ batch[l] = << >>
  /\ phase' = [phase EXCEPT ![l] = "poll"]
  /\ UNCHANGED <<obj, kernel, state_, interest, edge, connectionsMap_, next_, timers,
                 active, at, todo, batch, held>>

\* DoToDoList returns: the local vector dies, and with it its functors.
LeaveDoToDoList(l) ==
  /\ phase[l] = "functors"
  /\ batch[l] = << >>
  /\ phase' = [phase EXCEPT ![l] = "poll"]
  /\ held' = [held EXCEPT ![l] = {}]
  /\ UNCHANGED <<kernel, state_, interest, edge, connectionsMap_, next_, timers,
                 active, at, todo, batch>>
  /\ Release(obj)

\* Start the next functor; the batch keeps it alive.
StartFunctor(l, op, c) ==
  /\ phase[l] = "functors"
  /\ batch[l] # << >>
  /\ Head(batch[l]) = Functor(op, c)
  /\ batch' = [batch EXCEPT ![l] = Tail(@)]
  /\ held' = [held EXCEPT ![l] = @ \cup {c}]

\* A callback returns and drops its reference to the connection.
Return(l) ==
  /\ at[l].pc = "end"
  /\ at' = [at EXCEPT ![l] = Idle]
  /\ UNCHANGED <<kernel, state_, interest, edge, connectionsMap_, next_, timers,
                 phase, active, todo, batch, held>>
  /\ Release(obj)

------------------------------------------------------------------------------
(* Loop 0: accepting. *)

\* AcceptConnection: accept4 succeeds and the callback gets the descriptor.
Accept ==
  /\ \E c \in Conns, f \in Fds \ FdsInUse :
        /\ obj[c] = "backlog"
        /\ Dispatch(0, Acceptor, [pc |-> "new", conn |-> c, ret |-> "end"])
        /\ obj' = [obj EXCEPT ![c] = "accepted"]
        /\ fd' = [fd EXCEPT ![c] = f]
  /\ UNCHANGED <<loop, unread, fin, state_, interest, edge, connectionsMap_,
                 next_, timers, phase, todo, batch, held>>

\* EventLoopThreadPool::nextloop, round robin; without threads, the main loop.
nextloop == IF thread_nums_ = 0 THEN 0 ELSE next_ + 1

nextindex == IF thread_nums_ = 0 THEN 0 ELSE (next_ + 1) % thread_nums_

\* HandleNewConnection up to connectionsMap_[fd] = conn.  The constructor of
\* TcpConnection registers the channel with EPOLLET alone: nothing is reported.
HandleNewConnection ==
  /\ at[0].pc = "new"
  /\ LET c == at[0].conn IN
       /\ obj' = [obj EXCEPT ![c] = "open"]
       /\ loop' = [loop EXCEPT ![c] = nextloop]
       /\ interest' = [interest EXCEPT ![c] = {"ET"}]
       /\ connectionsMap_' = [connectionsMap_ EXCEPT ![fd[c]] = c]
  /\ next_' = nextindex
  /\ at' = [at EXCEPT ![0].pc = "established"]
  /\ UNCHANGED <<fd, unread, fin, state_, edge, timers, phase, active, todo,
                 batch, held>>

\* ConnectionEstablished up to EnableRead: from here on the sub loop sees the
\* connection.  epoll_ctl reports what has already arrived.
ConnectionEstablished ==
  /\ at[0].pc = "established"
  /\ LET c == at[0].conn IN
       /\ state_' = [state_ EXCEPT ![c] = "Connected"]
       /\ interest' = [interest EXCEPT ![c] = @ \cup {"IN"}]
       /\ edge' = [edge EXCEPT ![c] = unread[c] \/ fin[c]]
  /\ at' = [at EXCEPT ![0].pc = "connect"]
  /\ UNCHANGED <<obj, kernel, connectionsMap_, next_, timers, phase, active, todo,
                 batch, held>>

\* on_connect_: HttpServer::onConnection arms the timer of ActiveCloseConn.
onConnection ==
  /\ at[0].pc = "connect"
  /\ timers' = IF auto_close_conn_ THEN timers \cup {at[0].conn} ELSE timers
  /\ at' = [at EXCEPT ![0].pc = "end"]
  /\ UNCHANGED <<obj, kernel, state_, interest, edge, connectionsMap_, next_,
                 phase, active, todo, batch, held>>

------------------------------------------------------------------------------
(* The loop of a connection: messages. *)

\* Mutated: HandleMessage reads once instead of until EAGAIN.
HandleMessageReadingOnce(l) ==
  /\ \E c \in Conns :
        /\ Dispatch(l, c, [pc |-> "message", conn |-> c, ret |-> "end"])
        /\ unread' \in {unread, [unread EXCEPT ![c] = FALSE]}
  /\ UNCHANGED <<obj, fd, loop, fin, state_, interest, edge, connectionsMap_,
                 next_, timers, phase, todo, batch, held>>

\* Channel::HandleEvent takes a reference through tie_; HandleMessage reads until
\* EAGAIN, or to the end of the stream, which closes the connection.
HandleMessage(l) ==
  /\ \E c \in Conns :
        /\ Dispatch(l, c, IF fin[c]
                          THEN [pc |-> "close", conn |-> c, ret |-> "message"]
                          ELSE [pc |-> "message", conn |-> c, ret |-> "end"])
        /\ unread' = [unread EXCEPT ![c] = FALSE]
  /\ UNCHANGED <<obj, fd, loop, fin, state_, interest, edge, connectionsMap_,
                 next_, timers, phase, todo, batch, held>>

\* on_message_ (HttpServer::onMessage): the request is answered and the
\* connection kept, or closed; a closed connection is ignored.
onMessage(l) ==
  /\ at[l].pc = "message"
  /\ \/ at' = [at EXCEPT ![l].pc = "end"]
     \/ /\ state_[at[l].conn] = "Connected"
        /\ at' = [at EXCEPT ![l].pc = "close", ![l].ret = "end"]
  /\ UNCHANGED <<obj, kernel, state_, interest, edge, connectionsMap_, next_,
                 timers, phase, active, todo, batch, held>>

\* The timer callback ActiveCloseConn, on loop 0: it locks its weak_ptr, and
\* closes the connection if it has been idle, or arms the timer again.
ActiveCloseConn ==
  /\ \E c \in timers :
       \/ /\ obj[c] = "open"
          /\ Dispatch(0, Timerfd, [pc |-> "close", conn |-> c, ret |-> "end"])
          /\ timers' = timers \ {c}
       \/ /\ obj[c] = "open"
          /\ Dispatch(0, Timerfd, Idle)
          /\ UNCHANGED timers
       \/ /\ obj[c] = "gone"
          /\ Dispatch(0, Timerfd, Idle)
          /\ timers' = timers \ {c}
  /\ UNCHANGED <<obj, kernel, state_, interest, edge, connectionsMap_, next_,
                 phase, todo, batch, held>>

------------------------------------------------------------------------------
(* Closing. *)

\* TcpConnection::HandleClose: the test of state_ ...
TestState(l) ==
  /\ at[l].pc = "close"
  /\ at' = [at EXCEPT ![l].pc =
              IF state_[at[l].conn] # "Disconected" THEN "disconnect" ELSE at[l].ret]
  /\ UNCHANGED <<obj, kernel, state_, interest, edge, connectionsMap_, next_,
                 timers, phase, active, todo, batch, held>>

\* Mutated: HandleClose does not set state_.
SetStateForgotten(l) ==
  /\ at[l].pc = "disconnect"
  /\ at' = [at EXCEPT ![l].pc = "on_close"]
  /\ UNCHANGED <<obj, kernel, state_, interest, edge, connectionsMap_, next_,
                 timers, phase, active, todo, batch, held>>

\* ... and its assignment.
SetState(l) ==
  /\ at[l].pc = "disconnect"
  /\ state_' = [state_ EXCEPT ![at[l].conn] = "Disconected"]
  /\ at' = [at EXCEPT ![l].pc = "on_close"]
  /\ UNCHANGED <<obj, kernel, interest, edge, connectionsMap_, next_,
                 timers, phase, active, todo, batch, held>>

\* on_close_, TcpServer::HandleClose: RunOneFunc on the main loop runs
\* HandleCloseInLoop at once on the main thread and queues it on any other.
HandleClose(l) ==
  /\ at[l].pc = "on_close"
  /\ IF l = 0
     THEN /\ at' = [at EXCEPT ![l].pc = "erase"]
          /\ UNCHANGED todo
     ELSE /\ at' = [at EXCEPT ![l].pc = at[l].ret]
          /\ todo' = [todo EXCEPT ![0] = Append(@, Functor("HandleCloseInLoop", at[l].conn))]
  /\ UNCHANGED <<obj, kernel, state_, interest, edge, connectionsMap_, next_,
                 timers, phase, active, batch, held>>

\* Mutated: the entry is erased and nobody takes the channel out of its poller.
EraseOnly(c) ==
  /\ connectionsMap_[fd[c]] # NoConn
  /\ connectionsMap_' = [connectionsMap_ EXCEPT ![fd[c]] = NoConn]
  /\ UNCHANGED <<todo, interest>>

\* Mutated: RunOneFunc in place of QueueOneFunc, and on the thread at hand.
EraseAndDelete(c) ==
  /\ connectionsMap_[fd[c]] # NoConn
  /\ connectionsMap_' = [connectionsMap_ EXCEPT ![fd[c]] = NoConn]
  /\ interest' = [interest EXCEPT ![c] = {}]
  /\ UNCHANGED todo

\* HandleCloseInLoop: find, assert that the entry is there (the process ends if
\* it is not), erase it, and hand ConnectionDestructor to the connection's loop.
HandleCloseInLoop(c) ==
  /\ connectionsMap_[fd[c]] # NoConn
  /\ connectionsMap_' = [connectionsMap_ EXCEPT ![fd[c]] = NoConn]
  /\ todo' = [todo EXCEPT ![loop[c]] = Append(@, Functor("ConnectionDestructor", c))]
  /\ UNCHANGED interest

\* HandleCloseInLoop called by RunOneFunc on the main thread.
CloseInline ==
  /\ at[0].pc = "erase"
  /\ HandleCloseInLoop(at[0].conn)
  /\ at' = [at EXCEPT ![0].pc = at[0].ret]
  /\ UNCHANGED <<kernel, state_, edge, next_, timers, phase, active, batch, held>>
  /\ Release(obj)

\* HandleCloseInLoop as a functor of the main loop.
CloseFromQueue ==
  /\ \E c \in Conns : /\ StartFunctor(0, "HandleCloseInLoop", c)
                      /\ HandleCloseInLoop(c)
  /\ UNCHANGED <<kernel, state_, edge, next_, timers, phase, active, at>>
  /\ Release(obj)

\* TcpConnection::ConnectionDestructor, on the connection's loop: DeleteChannel.
ConnectionDestructor(l) ==
  /\ \E c \in Conns :
        /\ StartFunctor(l, "ConnectionDestructor", c)
        /\ interest' = [interest EXCEPT ![c] = {}]
  /\ UNCHANGED <<obj, kernel, state_, edge, connectionsMap_, next_, timers, phase,
                 active, at, todo>>

------------------------------------------------------------------------------
LoopStep(l) ==
  /\ \/ Poll(l) \/ EnterDoToDoList(l) \/ LeaveDoToDoList(l) \/ Return(l)
     \/ HandleMessage(l) \/ onMessage(l)
     \/ TestState(l) \/ SetState(l) \/ HandleClose(l)
     \/ ConnectionDestructor(l)
     \/ /\ l = 0
        /\ \/ Accept \/ HandleNewConnection \/ ConnectionEstablished \/ onConnection
           \/ ActiveCloseConn \/ CloseInline \/ CloseFromQueue
  /\ UNCHANGED setup

Peer(c) == (Connect(c) \/ PeerSend(c) \/ PeerClose(c)) /\ UNCHANGED setup

Next == (\E l \in Loops : LoopStep(l)) \/ (\E c \in Conns : Peer(c))

\* Every loop's thread is scheduled.  The peers owe nothing, and no timer has to
\* expire.
Fairness == \A l \in Loops : WF_vars(LoopStep(l))

Spec == Init /\ [][Next]_vars /\ Fairness

------------------------------------------------------------------------------
TypeOK ==
  /\ setup \in Setups
  /\ obj \in [Conns -> {"none", "backlog", "accepted", "open", "gone"}]
  /\ fd \in [Conns -> Fds \cup {-1}]
  /\ loop \in [Conns -> Loops]
  /\ state_ \in [Conns -> {"unset", "Connected", "Disconected"}]
  /\ interest \in [Conns -> SUBSET {"ET", "IN"}]
  /\ unread \in [Conns -> BOOLEAN] /\ fin \in [Conns -> BOOLEAN]
  /\ edge \in [Conns -> BOOLEAN]
  /\ connectionsMap_ \in [Fds -> Conns \cup {NoConn}]
  /\ next_ \in Nat /\ (thread_nums_ > 0 => next_ < thread_nums_)
  /\ timers \subseteq Conns
  /\ phase \in [Loops -> {"poll", "dispatch", "functors"}]
  /\ active \in [Loops -> SUBSET (Conns \cup {Acceptor, Timerfd})]
  /\ held \in [Loops -> SUBSET Conns]
  /\ at \in [Loops -> [pc : {"idle", "new", "established", "connect", "message",
                             "close", "disconnect", "on_close", "erase", "end"},
                       conn : Conns \cup {NoConn}, ret : {"idle", "message", "end"}]]
  /\ \A l \in Loops : \A f \in ToSet(todo[l]) \cup ToSet(batch[l]) :
        f \in [op : {"HandleCloseInLoop", "ConnectionDestructor"}, conn : Conns]

\* A call of HandleCloseInLoop for c is under way or queued.
ErasePending(c) ==
  \/ at[0].pc = "erase" /\ at[0].conn = c
  \/ Functor("HandleCloseInLoop", c) \in ToSet(todo[0]) \cup ToSet(batch[0])

\* assert(it != connectionsMap_.end()) in HandleCloseInLoop, TcpServer.cpp:68:
\* each connection is closed by one call, and the entry found is its own, not
\* that of a later connection with the same descriptor.
EraseFindsEntry ==
  \A c \in Conns : ErasePending(c) => connectionsMap_[fd[c]] = c

\* connectionsMap_ is keyed by descriptor, and a connection is closed by its own
\* loop before the main loop erases its entry.  Still the entry of an old connection
\* never stands where a new one with the same descriptor is inserted, and a
\* connection that is open finds its own entry or none: the entry's reference
\* keeps the descriptor from being closed (TcpServer.cpp:50, 65-74,
\* TcpConnection.cpp:33-36).
NoEntryOverwritten ==
  \A c \in Conns :
    /\ obj[c] = "accepted" => connectionsMap_[fd[c]] = NoConn
    /\ obj[c] = "open" => connectionsMap_[fd[c]] \in {c, NoConn}

\* A loop never handles an event of a channel whose connection is destroyed or
\* has left its poller: Poll's list stays valid while other threads drop their
\* references (Epoller.cpp:25-36, Channel.cpp:18-25, EventLoop.cpp:38-40).
NoDanglingChannel ==
  \A l \in Loops : \A c \in active[l] \cap Conns :
    obj[c] = "open" /\ interest[c] # {}

\* EPOLLET: input of a connected, registered connection that nobody has read is
\* announced by an edge or is on the way to being read; the read loop goes on
\* until EAGAIN (TcpConnection.cpp:154-175, Channel.cpp:46-59).
NoStuckInput ==
  \A c \in Conns :
    obj[c] = "open" /\ "IN" \in interest[c] /\ state_[c] = "Connected" /\ (unread[c] \/ fin[c]) =>
      \/ edge[c]
      \/ c \in active[loop[c]]
      \/ at[loop[c]].conn = c /\ at[loop[c]].pc \in {"close", "disconnect"}

\* Each connection is served, removed from the map, detached from its poller and
\* destroyed, in this order and once (TcpServer.cpp:61-74,
\* TcpConnection.cpp:33-52).
Stage(c) ==
  CASE obj[c] \in {"none", "backlog", "accepted"} -> "absent"
    [] obj[c] = "open" /\ connectionsMap_[fd[c]] = c -> "served"
    [] obj[c] = "open" /\ connectionsMap_[fd[c]] # c /\ interest[c] # {} -> "removed"
    [] obj[c] = "open" /\ connectionsMap_[fd[c]] # c /\ interest[c] = {} -> "detached"
    [] obj[c] = "gone" -> "destroyed"

Life == INSTANCE ConnectionLife WITH stage <- [c \in Conns |-> Stage(c)]
LivesOnce == Life!Spec

\* When a peer has closed, the connection is destroyed, which returns its
\* descriptor, whatever the other connections and threads do.
ClosedIsReclaimed ==
  \A c \in Conns : fin[c] /\ obj[c] = "open" ~> obj[c] = "gone"

------------------------------------------------------------------------------
(* The inductive invariant of TcpServerProofs. *)

Functors == [op : {"HandleCloseInLoop", "ConnectionDestructor"}, conn : Conns]

\* TypeOK, that the queues are sequences, and that a callback has its connection.
TypeInv ==
  /\ TypeOK
  /\ todo \in [Loops -> Seq(Functors)] /\ batch \in [Loops -> Seq(Functors)]
  /\ \A l \in Loops : at[l].pc # "idle" => at[l].conn \in Conns

\* A new connection is accepted and not open yet.
NewInv == at[0].pc = "new" => obj[at[0].conn] = "accepted"

\* No two live connections share a descriptor.
OneOwnerPerFd ==
  \A c, d \in Conns :
    c # d /\ {obj[c], obj[d]} \subseteq {"accepted", "open"} => fd[c] # fd[d]

\* An entry is that of an open connection with its descriptor.
EntryInv ==
  /\ \A c \in Conns : obj[c] \in {"accepted", "open"} => fd[c] \in Fds
  /\ \A f \in Fds : connectionsMap_[f] # NoConn =>
        obj[connectionsMap_[f]] = "open" /\ fd[connectionsMap_[f]] = f

\* Only one thread can close a connection.
OneCloser == thread_nums_ = 0 \/ ~auto_close_conn_

SetupInv ==
  /\ OneCloser
  /\ thread_nums_ = 0 => \A c \in Conns : loop[c] = 0
  /\ timers # {} => auto_close_conn_
  /\ \A c \in timers : state_[c] # "unset"

\* The active list lives while it is dispatched, the batch while it runs.
LoopInv ==
  \A l \in Loops : /\ phase[l] # "dispatch" => active[l] = {}
                   /\ phase[l] # "functors" => batch[l] = << >>

\* What has not been connected yet has no input registered, but a descriptor.
UnsetInv ==
  \A c \in Conns :
    /\ obj[c] \in {"none", "backlog", "accepted"} => state_[c] = "unset" /\ interest[c] = {}
    /\ obj[c] = "open" /\ state_[c] = "unset" =>
          interest[c] = {"ET"} /\ at[0].pc = "established" /\ at[0].conn = c
    /\ obj[c] = "accepted" => fd[c] \in Fds
    /\ obj[c] = "gone" => state_[c] # "unset"

Queued(l) == ToSet(todo[l]) \cup ToSet(batch[l])
EraseOf(c) == Functor("HandleCloseInLoop", c)
DetachOf(c) == Functor("ConnectionDestructor", c)
Entry(c) == connectionsMap_[fd[c]] = c

\* A callback runs on its connection's loop, and what it has found out still holds.
FrameInv ==
  \A l \in Loops :
    /\ at[l].pc \in {"new", "established", "connect", "erase"} => l = 0
    /\ at[l].conn \in Conns /\ at[l].pc # "new" => obj[at[l].conn] = "open"
    /\ at[l].pc = "established" => state_[at[l].conn] = "unset"
    /\ at[l].pc = "connect" => state_[at[l].conn] # "unset"
    /\ at[l].pc \in {"message", "close", "disconnect", "on_close", "erase"} =>
          l = loop[at[l].conn] /\ state_[at[l].conn] # "unset"
    /\ at[l].pc = "disconnect" => state_[at[l].conn] = "Connected"
    /\ at[l].pc \in {"on_close", "erase"} =>
          /\ state_[at[l].conn] = "Disconected"
          /\ Entry(at[l].conn)
          /\ EraseOf(at[l].conn) \notin Queued(0)

\* The functors of a connection: its entry's erasure, then its channel's deletion.
QueueInv ==
  \A l \in Loops : \A f \in Queued(l) :
    /\ obj[f.conn] = "open" /\ state_[f.conn] = "Disconected"
    /\ f.op = "HandleCloseInLoop" => l = 0 /\ Entry(f.conn)
    /\ f.op = "ConnectionDestructor" => l = loop[f.conn] /\ ~Entry(f.conn)

Once(s, f) == \A i, j \in DOMAIN s : s[i] = f /\ s[j] = f => i = j

\* The erasure of an entry is queued once.
OnceInv ==
  \A c \in Conns :
    /\ Once(todo[0], EraseOf(c)) /\ Once(batch[0], EraseOf(c))
    /\ ~(EraseOf(c) \in ToSet(todo[0]) /\ EraseOf(c) \in ToSet(batch[0]))

\* What holds a reference refers to an open connection.
OpenInv ==
  /\ \A l \in Loops : \A c \in held[l] : obj[c] = "open"
  /\ \A f \in Fds : connectionsMap_[f] \in Conns =>
        obj[connectionsMap_[f]] = "open" /\ fd[connectionsMap_[f]] = f

\* A connection is in the map until its close, and registered until its loop, which
\* a functor tells to, has deleted its channel.
LiveInv ==
  \A c \in Conns : obj[c] = "open" =>
    /\ fd[c] \in Fds
    /\ state_[c] # "Disconected" => Entry(c)
    /\ Entry(c) => interest[c] # {}
    /\ ~Entry(c) /\ interest[c] # {} => DetachOf(c) \in Queued(loop[c])

ActiveInv ==
  \A l \in Loops : \A c \in active[l] \cap Conns :
    obj[c] = "open" /\ interest[c] # {} /\ loop[c] = l /\ state_[c] # "unset"

\* What holds of every server, and of one where one thread closes a connection.
OwnerInv == TypeInv /\ NewInv /\ OneOwnerPerFd
LifeInv ==
  /\ SetupInv /\ LoopInv /\ UnsetInv /\ FrameInv /\ QueueInv /\ OnceInv /\ OpenInv
  /\ LiveInv /\ ActiveInv /\ NoStuckInput
IInv == OwnerInv /\ LifeInv
==============================================================================
