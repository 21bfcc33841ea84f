------------------------------ MODULE TcpOutput ------------------------------
(***************************************************************************)
(* The way out of a TcpConnection: Send, send_buf_ and HandleWrite against  *)
(* a socket whose send queue fills up and an epoll that reports edges only  *)
(* (src/NetWork: TcpConnection, Channel, Epoller; the calls of HttpServer   *)
(* and RtspSession).                                                        *)
(*                                                                         *)
(* Bytes are numbered in the order in which they are passed to Send.        *)
(* send_buf_ is the byte queue that Buffer.tla implements.  Every step but  *)
(* the kernel's and the peer's is one of the connection's loop thread.      *)
(***************************************************************************)
EXTENDS Integers, Sequences, SequencesExt

CONSTANTS
  SendQueue,    \* how many bytes the socket's send queue takes
  LowMark,      \* how much of it must be free for EPOLLOUT
  MaxSend,      \* the longest message
  MaxBytes      \* bounds the run

ASSUME OutputAssumption ==
  /\ SendQueue \in Nat \ {0}
  /\ LowMark \in 1 .. SendQueue
  /\ MaxSend \in Nat /\ MaxBytes \in Nat

VARIABLES
  sent,         \* the number of bytes passed to Send
  send_buf_,    \* send_buf_
  queue,        \* the socket's send queue
  got,          \* the bytes the peer has read
  reset,        \* the peer has reset the connection
  nospace,      \* SOCK_NOSPACE: the next drop below the mark raises an edge
  input,        \* there is something to read
  edge,         \* the socket is on epoll's ready list
  listening,    \* EPOLLOUT is in listen_events_
  writable_cb,  \* write_callback_ is HandleWrite, not the empty function
  state_,       \* state_
  registered,   \* the channel is in the epoller
  pc,           \* where the loop is
  ready,        \* ready_events_
  unsent        \* Send's msg + send_size, remaining bytes

kernel == <<queue, got, reset>>
channel == <<listening, writable_cb, registered>>
vars == <<sent, send_buf_, kernel, nospace, input, edge, channel, state_, pc,
          ready, unsent>>

------------------------------------------------------------------------------
Numbers(from, to) == [i \in 1 .. to - from + 1 |-> from + i - 1]
Free == SendQueue - Len(queue)
Smaller(a, b) == IF a < b THEN a ELSE b
Drop(s, n) == SubSeq(s, n + 1, Len(s))
Take(s, n) == SubSeq(s, 1, n)

\* tcp_poll: after a reset reading and writing return at once.
Writable(q) == reset \/ SendQueue - Len(q) >= LowMark
Mask ==
  (IF input \/ reset THEN {"IN"} ELSE {}) \cup
  (IF listening /\ Writable(queue) THEN {"OUT"} ELSE {})

Init ==
  /\ sent = 0 /\ send_buf_ = << >> /\ unsent = << >>
  /\ queue = << >> /\ got = << >> /\ reset = FALSE
  /\ nospace = FALSE /\ input = FALSE /\ edge = FALSE
  /\ listening = FALSE /\ writable_cb = TRUE /\ registered = TRUE
  /\ state_ = "Connected"
  /\ pc = "poll" /\ ready = {}

------------------------------------------------------------------------------
(* The peer and the kernel. *)

\* Acknowledged bytes leave the queue; sk_write_space reports the first time that
\* the queue has room again after a write that found none.
PeerReads ==
  /\ queue # << >> /\ ~reset
  /\ got' = Append(got, Head(queue))
  /\ queue' = Tail(queue)
  /\ nospace' = (nospace /\ ~Writable(queue'))
  /\ edge' = (edge \/ (nospace /\ ~nospace' /\ listening))
  /\ UNCHANGED <<sent, send_buf_, reset, input, channel, state_, pc, ready, unsent>>

PeerSends ==
  /\ ~reset /\ ~input
  /\ input' = TRUE
  /\ edge' = TRUE
  /\ UNCHANGED <<sent, send_buf_, kernel, nospace, channel, state_, pc, ready, unsent>>

PeerResets ==
  /\ ~reset
  /\ reset' = TRUE
  /\ queue' = << >>
  /\ edge' = TRUE
  /\ UNCHANGED <<sent, send_buf_, got, nospace, input, channel, state_, pc, ready,
                 unsent>>

\* Mutated: listen_events_ changes, but epoll_ctl is not called.
UpdateBlind == UNCHANGED <<edge, nospace>>

\* epoll_ctl with the channel's events polls the socket: an event that is there
\* goes on the ready list, and a full send queue sets SOCK_NOSPACE.
Update ==
  /\ edge' = (edge \/ input \/ reset \/ Writable(queue))
  /\ nospace' = (nospace \/ ~Writable(queue))

------------------------------------------------------------------------------
(* The loop and the callbacks of the channel. *)

\* epoll_wait polls the socket again.
Poll ==
  /\ pc = "poll" /\ edge /\ registered
  /\ ready' = Mask
  /\ edge' = FALSE
  /\ nospace' = (nospace \/ (listening /\ ~Writable(queue)))
  /\ pc' = IF Mask = {} THEN "poll" ELSE "read"
  /\ UNCHANGED <<sent, send_buf_, kernel, input, channel, state_, unsent>>

HandleClose == state_' = "Disconected"

\* ReadNonBlocking: an error, and the end of the stream, which is one of the things
\* to read, close the connection; on_message_ follows all the same.
HandleMessage ==
  /\ pc = "read" /\ "IN" \in ready
  /\ input' = FALSE
  /\ HandleClose \/ (~reset /\ UNCHANGED state_)
  /\ pc' = "message"
  /\ UNCHANGED <<sent, send_buf_, kernel, nospace, edge, channel, ready, unsent>>

NothingToRead ==
  /\ pc = "read" /\ "IN" \notin ready
  /\ pc' = "write"
  /\ UNCHANGED <<sent, send_buf_, kernel, nospace, input, edge, channel, state_,
                 ready, unsent>>

\* on_message_ returns, having closed the connection or not.
MessageHandled ==
  /\ pc = "message"
  /\ HandleClose \/ UNCHANGED state_
  /\ pc' = "write"
  /\ UNCHANGED <<sent, send_buf_, kernel, nospace, input, edge, channel, ready, unsent>>

NothingToWrite ==
  /\ pc = "write"
  /\ "OUT" \notin ready \/ ~writable_cb \/ send_buf_ = << >>
  /\ pc' = "poll"
  /\ UNCHANGED <<sent, send_buf_, kernel, nospace, input, edge, channel, state_,
                 ready, unsent>>

\* WriteNonBlocking.
HandleWrite ==
  /\ pc = "write" /\ "OUT" \in ready /\ writable_cb /\ send_buf_ # << >> /\ ~reset
  /\ LET n == Smaller(Free, Len(send_buf_)) IN
       /\ queue' = queue \o Take(send_buf_, n)
       /\ send_buf_' = Drop(send_buf_, n)
       /\ nospace' = (nospace \/ n < Len(send_buf_))
  /\ pc' = "poll"
  /\ UNCHANGED <<sent, got, reset, input, edge, channel, state_, ready, unsent>>

\* The write fails.  Line 191 returned once; without it Retrieve(-1) steps back
\* over a byte that was sent long ago, or that never was one.
WriteFails ==
  /\ pc = "write" /\ "OUT" \in ready /\ writable_cb /\ send_buf_ # << >> /\ reset
  /\ writable_cb' = FALSE
  /\ HandleClose
  /\ send_buf_' = <<0>> \o send_buf_
  /\ pc' = "poll"
  /\ UNCHANGED <<sent, kernel, nospace, input, edge, listening, registered, ready,
                 unsent>>

\* The functor of HandleCloseInLoop comes back as ConnectionDestructor.
ConnectionDestructor ==
  /\ pc = "poll" /\ state_ = "Disconected" /\ registered
  /\ registered' = FALSE
  /\ UNCHANGED <<sent, send_buf_, kernel, nospace, input, edge, listening,
                 writable_cb, state_, pc, ready, unsent>>

------------------------------------------------------------------------------
(* Send, from on_message_ or from a timer or functor between two polls.  RtspSession *)
(* does not look at state_ first.                                                    *)

Sends(n) ==
  /\ pc \in {"message", "poll"} /\ registered
  /\ sent + n <= MaxBytes
  /\ sent' = sent + n

\* Nothing is waiting in send_buf_: write takes what fits.
SendNow(n) ==
  /\ Sends(n)
  /\ send_buf_ = << >> /\ ~reset
  /\ LET k == Smaller(Free, n) IN
       /\ queue' = queue \o Numbers(sent + 1, sent + k)
       /\ unsent' = Numbers(sent + k + 1, sent + n)
       /\ nospace' = (nospace \/ k < n)
  /\ UNCHANGED <<send_buf_, got, reset, input, edge, channel, state_, pc, ready>>

\* Mutated: write is tried although older bytes wait in send_buf_.
SendLaterAtOnce(n) ==
  /\ Sends(n)
  /\ send_buf_ # << >> /\ ~reset
  /\ LET k == Smaller(Free, n) IN
       /\ queue' = queue \o Numbers(sent + 1, sent + k)
       /\ unsent' = Numbers(sent + k + 1, sent + n)
       /\ nospace' = (nospace \/ k < n)
  /\ UNCHANGED <<send_buf_, got, reset, input, edge, channel, state_, pc, ready>>

SendLater(n) ==
  /\ Sends(n)
  /\ send_buf_ # << >>
  /\ unsent' = Numbers(sent + 1, sent + n)
  /\ UNCHANGED <<send_buf_, kernel, nospace, input, edge, channel, state_, pc, ready>>

SendFails(n) ==
  /\ Sends(n)
  /\ send_buf_ = << >> /\ reset
  /\ writable_cb' = FALSE
  /\ HandleClose
  /\ UNCHANGED <<send_buf_, kernel, nospace, input, edge, listening, registered, pc,
                 ready, unsent>>

\* The rest of Send: Append and EnableWrite.
Enqueue ==
  /\ unsent # << >>
  /\ send_buf_' = send_buf_ \o unsent
  /\ unsent' = << >>
  /\ listening' = TRUE
  /\ Update
  /\ UNCHANGED <<sent, kernel, input, writable_cb, registered, state_, pc, ready>>

------------------------------------------------------------------------------
Send == \E n \in 1 .. MaxSend : SendNow(n) \/ SendLater(n) \/ SendFails(n)

Dispatch ==
  \/ Poll \/ HandleMessage \/ NothingToRead \/ MessageHandled
  \/ NothingToWrite \/ HandleWrite \/ WriteFails \/ ConnectionDestructor

\* While unsent is not empty the loop is inside Send.
Loop == Enqueue \/ (unsent = << >> /\ Dispatch)
Application == unsent = << >> /\ Send
Peer == PeerReads \/ PeerSends \/ PeerResets

Next == Loop \/ Application \/ Peer

\* The loop runs, and the peer goes on reading.
Spec == Init /\ [][Next]_vars /\ WF_vars(Loop) /\ WF_vars(PeerReads)

------------------------------------------------------------------------------
(* Properties. *)

TypeOK ==
  /\ sent \in 0 .. MaxBytes
  /\ \A s \in {send_buf_, queue, got, unsent} : s \in Seq(0 .. MaxBytes)
  /\ Len(queue) <= SendQueue
  /\ \A b \in {reset, nospace, input, edge, listening, writable_cb, registered} :
        b \in BOOLEAN
  /\ state_ \in {"Connected", "Disconected"}
  /\ pc \in {"poll", "read", "message", "write"}
  /\ ready \subseteq {"IN", "OUT"}

\* What the peer has read is a beginning of what was passed to Send, without a gap,
\* a repetition or an exchange, and the rest waits behind it in order: the write in
\* Send never overtakes send_buf_ (TcpConnection.cpp:105-142, 177-196).
InOrder ==
  /\ IsPrefix(got, Numbers(1, sent))
  /\ ~reset => got \o queue \o send_buf_ \o unsent = Numbers(1, sent)

\* Bytes in send_buf_ never wait for an edge that will not come: when the loop
\* polls, an event is on its way, or the queue has no room and its next drop below
\* the mark will raise one (TcpConnection.cpp:131-141, 183-195).
NoStall ==
  pc = "poll" /\ send_buf_ # << >> /\ unsent = << >> /\ writable_cb
    => listening /\ (edge \/ (nospace /\ ~Writable(queue)))

\* What is passed to Send arrives, unless one side closes the connection
\* (TcpConnection.cpp:105-142).
Delivered ==
  \A i \in 1 .. MaxBytes :
    sent >= i ~> Len(got) >= i \/ state_ = "Disconected" \/ reset

------------------------------------------------------------------------------
(* Why InOrder and NoStall hold: the inductive invariant. *)

\* From epoll_wait to the callback an event is in ready_events_.
EventInv ==
  send_buf_ # << >> /\ unsent = << >> /\ writable_cb
    => /\ listening
       /\ \/ edge
          \/ nospace /\ ~Writable(queue)
          \/ pc # "poll" /\ "OUT" \in ready

\* Each byte's place tells its number.
PlaceInv ==
  /\ Len(got) <= sent /\ \A k \in 1 .. Len(got) : got[k] = k
  /\ ~reset =>
       /\ \A k \in 1 .. Len(queue) : queue[k] = Len(got) + k
       /\ \A k \in 1 .. Len(send_buf_) : send_buf_[k] = Len(got) + Len(queue) + k
       /\ \A k \in 1 .. Len(unsent) :
            unsent[k] = Len(got) + Len(queue) + Len(send_buf_) + k
       /\ Len(got) + Len(queue) + Len(send_buf_) + Len(unsent) = sent

IInv == TypeOK /\ EventInv /\ PlaceInv
===============================================================================
