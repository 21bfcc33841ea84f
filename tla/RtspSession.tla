----------------------------- MODULE RtspSession -----------------------------
(***************************************************************************)
(* One RTSP connection: the requests of its client, the RtspMediaStreams it *)
(* plays and the timers that PLAY leaves in the connection's loop           *)
(* (src/Rtsp: RtspServer, RtspSession, RtspMediaStream).  Everything runs   *)
(* on that loop, except that the last reference to the connection may be    *)
(* dropped by the main loop at any time (TcpServer.tla): the timers and the *)
(* send callback hold weak_ptrs only.                                       *)
(*                                                                         *)
(* OPTIONS, a PLAY for another session and every other method are answered  *)
(* without a change of state, and SETUP changes nothing but _rtp_type, which *)
(* no other request reads: they have no action here.                        *)
(***************************************************************************)
EXTENDS H264Rtp, SequencesExt

CONSTANTS
  Files,        \* the files that the URL may name; the empty one is missing
  Period,       \* 500 ms: the interval of the timer
  Delay,        \* 50 ms: readFrame stays that far behind the clock
  Frame,        \* 1000 / 25 ms
  MaxStreams, MaxPlays, MaxTime   \* bounds of the run

ASSUME SessionAssumption ==
  /\ Files \subseteq Seq(Nalus)
  /\ \A f \in Files : \A i \in DOMAIN f : f[i].id = i
  /\ \A f \in Files \ {<< >>} : \E i \in DOMAIN f : decodeAble(f[i])
  /\ {Period, Frame} \subseteq Nat \ {0}
  /\ {Delay, MaxStreams, MaxPlays, MaxTime} \subseteq Nat

VARIABLES
  file,      \* what File::loadFile(_streamid) returns
  state,     \* the connection: "Connected", "Disconected", or "gone" (destroyed)
  stream,    \* the number of _stream; 0: nullptr.  Also stands for _sessionid
  streams,   \* the RtspMediaStream objects made so far
  timers,    \* the timers of handlePlay in the loop's TimerQueue
  reading,   \* the timer callback being run, and the time at which it began
  now,       \* the clock
  sent       \* packets given to the connection, with the number of their stream

rtspVars == <<file, state, stream, streams, timers, reading, now, sent>>

NotReading == [timer |-> 0, stream |-> 0, at |-> 0]

\* The members of an RtspMediaStream after createFromEs.
NewStream(time) ==
  [data |-> 1, encoder |-> NewEncoder, send_cb |-> FALSE, time_stamp |-> 0,
   create_time |-> time]

RtspInit ==
  /\ file \in Files
  /\ state = "Connected"
  /\ stream = 0
  /\ streams = << >>
  /\ timers = {}
  /\ reading = NotReading
  /\ now = 0
  /\ sent = << >>

\* Whether weak_ptr<RtspMediaStream>::lock succeeds: the session, a member of
\* the connection, and the callback under way own streams.
Alive(s) == (s = stream /\ state # "gone") \/ s = reading.stream

------------------------------------------------------------------------------
(* Requests: OnMessage and onWholeRtspPacket. *)

\* The loop is not in the middle of a batch of timers.
Idle == reading = NotReading /\ \A t \in timers : ~t.ran

Request == state = "Connected" /\ Idle

\* A new stream replaces the old one, which nobody else owns.
handleDescribe ==
  /\ Request
  /\ stream < MaxStreams
  /\ stream' = stream + 1
  /\ streams' = Append(streams, NewStream(now))
  /\ UNCHANGED <<file, state, timers, reading, now, sent>>

\* Dereferences _stream, and the encoder, which is null when the file was missing:
\* such a PLAY is outside the model.  Every PLAY adds a timer; none is cancelled.
handlePlay ==
  /\ Request
  /\ stream # 0 /\ file # << >>
  /\ Cardinality(timers) < MaxPlays
  /\ streams' = [streams EXCEPT ![stream].send_cb = TRUE]
  /\ LET id == Min(1 .. MaxPlays \ {t.id : t \in timers})
     IN  timers' = timers \cup {[id |-> id, stream |-> stream, due |-> now + Period,
                                  ran |-> FALSE, began |-> 0]}
  /\ UNCHANGED <<file, state, stream, reading, now, sent>>

------------------------------------------------------------------------------
(* The end of the connection. *)

HandleClose ==
  /\ state = "Connected"
  /\ state' = "Disconected"
  /\ UNCHANGED <<file, stream, streams, timers, reading, now, sent>>

\* ~TcpConnection, and with it the session: also during readFrame.
Destroy ==
  /\ state = "Disconected"
  /\ state' = "gone"
  /\ UNCHANGED <<file, stream, streams, timers, reading, now, sent>>

------------------------------------------------------------------------------
(* The timer's callback. *)

\* A timer that has expired; one that has run waits for the end of the batch.
Expired(t) == t.due <= now /\ ~t.ran /\ reading = NotReading

\* Mutated: the callback owns its stream.
ExpireOwning ==
  \E t \in timers :
    /\ Expired(t)
    /\ reading' = [timer |-> t.id, stream |-> t.stream, at |-> now]
    /\ UNCHANGED <<file, state, stream, streams, timers, now, sent>>

\* An expired timer locks its stream and begins readFrame, which looks at the
\* clock once; a callback that returns false is not repeated (Timer::run).
Expire ==
  \E t \in timers :
    /\ Expired(t)
    /\ \/ /\ Alive(t.stream)
          /\ reading' = [timer |-> t.id, stream |-> t.stream, at |-> now]
          /\ UNCHANGED timers
       \/ /\ ~Alive(t.stream)
          /\ timers' = timers \ {t}
          /\ UNCHANGED reading
    /\ UNCHANGED <<file, state, stream, streams, now, sent>>

\* The condition of readFrame's loop.
Behind ==
  LET s == streams[reading.stream]
  IN  s.time_stamp < reading.at - s.create_time - Delay

\* send_cb_, the callback of PLAY: it locks the connection.
Send(packets) ==
  sent' = IF streams[reading.stream].send_cb /\ state # "gone"
          THEN sent \o [k \in DOMAIN packets |-> [stream |-> reading.stream, packet |-> packets[k]]]
          ELSE sent

StampAfter(n) == IF decodeAble(n) THEN Frame ELSE 0

\* One round of readFrame's loop: the next unit of the file goes to the encoder;
\* after the last one the file starts again.
ReadNalu ==
  /\ reading # NotReading
  /\ Behind
  /\ LET s == streams[reading.stream]
         n == file[s.data]
     IN  /\ streams' = [streams EXCEPT ![reading.stream] =
                 [s EXCEPT !.data = (@ % Len(file)) + 1,
                           !.encoder = inputFrame(@, n, s.time_stamp),
                           !.time_stamp = @ + StampAfter(n)]]
         /\ Send(PacketsFor(s.encoder, n, s.time_stamp))
  /\ UNCHANGED <<file, state, stream, timers, reading, now>>

\* Mutated: readFrame takes one frame per expiry.
ReadFrameEndsEarly ==
  /\ reading # NotReading
  /\ timers' = {IF t.id = reading.timer
                THEN [t EXCEPT !.ran = TRUE, !.began = reading.at] ELSE t : t \in timers}
  /\ reading' = NotReading
  /\ UNCHANGED <<file, state, stream, streams, now, sent>>

\* readFrame returns; the timer has run.
ReadFrameEnds ==
  /\ reading # NotReading
  /\ ~Behind
  /\ timers' = {IF t.id = reading.timer
                THEN [t EXCEPT !.ran = TRUE, !.began = reading.at] ELSE t : t \in timers}
  /\ reading' = NotReading
  /\ UNCHANGED <<file, state, stream, streams, now, sent>>

\* TimerQueue::ResetTimers: the timers that have run start again from the time that
\* the clock shows after all callbacks.
Restart ==
  /\ reading = NotReading
  /\ \E t \in timers : t.ran
  /\ timers' = {IF t.ran THEN [t EXCEPT !.ran = FALSE, !.due = now + Period] ELSE t : t \in timers}
  /\ UNCHANGED <<file, state, stream, streams, reading, now, sent>>

\* Time passes, also while the callbacks run.  The bound leaves room for the last
\* timers of a connection.
Elapse ==
  /\ now < (IF state = "gone" /\ Idle THEN MaxTime + Period ELSE MaxTime)
  /\ now' = now + 1
  /\ UNCHANGED <<file, state, stream, streams, timers, reading, sent>>

------------------------------------------------------------------------------
Loop == Expire \/ ReadNalu \/ ReadFrameEnds \/ Restart

RtspNext ==
  \/ handleDescribe \/ handlePlay
  \/ HandleClose \/ Destroy
  \/ Loop \/ Elapse

\* The loop runs and time passes; the client owes nothing.
RtspSpec == RtspInit /\ [][RtspNext]_rtspVars /\ WF_rtspVars(Loop) /\ WF_rtspVars(Elapse)

------------------------------------------------------------------------------
(* What the client receives. *)

\* The units of the file that are sent, in this order again and again.
Units == {i \in DOMAIN file : sendable(file[i])}
FirstUnit == file[Min(Units)]
Following(n) ==
  LET later == {i \in Units : i > n.id}
  IN  IF later = {} THEN FirstUnit ELSE file[Min(later)]

\* The packets sent before the i-th that carry a part of such a unit.
MediaBefore(i) == {j \in 1 .. i - 1 : sendable(sent[j].packet.nalu)}

\* q continues the stream that p belongs to.
Continues(p, q) ==
  IF p.end
  THEN p.to = p.nalu.len /\ q.start /\ q.nalu = Following(p.nalu)
  ELSE ~q.start /\ q.nalu = p.nalu /\ q.from = p.to

\* Packets reassemble to the units of the file, in order, whole and without a
\* gap or a repetition, through fragmentation, the unit that is held back, the
\* restart of the file, several timers of one stream and a new DESCRIBE; an old
\* stream never sends between the packets of a new one.  Sequence numbers
\* follow each other and wrap; "the marker is set when the time stamp changes",
\* on the last packet of a time stamp and on no other (H264Rtp.cpp:48-53, 64-109, 132;
\* RtspMediaStream.cpp:103-121; RtspSession.cpp:134-154).
ArrivesWhole ==
  /\ \A i \in DOMAIN sent :
       LET q == sent[i]
           p == sent[Max(MediaBefore(i))]
       IN  sendable(q.packet.nalu) =>
             IF MediaBefore(i) # {} /\ p.stream = q.stream
             THEN Continues(p.packet, q.packet)
             ELSE /\ MediaBefore(i) # {} => p.stream < q.stream
                  /\ q.packet.start /\ q.packet.nalu = FirstUnit
  /\ \A i \in 2 .. Len(sent) :
       sent[i].stream = sent[i - 1].stream =>
         /\ sent[i].packet.seq = (sent[i - 1].packet.seq + 1) % SeqNumbers
         /\ sent[i - 1].packet.mark <=> sent[i - 1].packet.stamp # sent[i].packet.stamp

\* The last parameter set of a type before n in the file.
ParameterSet(type, n) ==
  LET before == {i \in 1 .. n.id : file[i].nal_unit_type = type}
  IN  file[Max(before)]

\* What a file owes the encoder: every key frame has parameter sets before it, and a
\* unit to send after it before the next ones, for the encoder sends the sets that it
\* holds when the unit behind the key frame comes; an SPS fits into one packet
\* and a PPS, which is sent with the length of the SPS, is no longer.
WellConfigured(f) ==
  /\ \A i \in DOMAIN f : f[i].nal_unit_type = "SPS" =>
       /\ f[i].len < FragmentSize
       /\ \A j \in DOMAIN f : f[j].nal_unit_type = "PPS" => f[j].len <= f[i].len
  /\ \A i \in DOMAIN f : keyFrame(f[i]) =>
       /\ \A type \in {"SPS", "PPS"} : \E j \in 1 .. i : f[j].nal_unit_type = type
       /\ \E j \in DOMAIN f : /\ j > i /\ sendable(f[j])
                              /\ \A k \in i .. j : f[k].nal_unit_type \notin {"SPS", "PPS"}

\* "Every key frame is preceded by SPS and PPS" (H264Rtp.cpp:57), by those that
\* are in force for it, with its own time stamp and no marker, although it is
\* sent only when the next unit has been read (H264Rtp.cpp:24-31, 48-62).
ConfigBeforeKeyFrame ==
  \A i \in DOMAIN sent :
    LET q == sent[i].packet IN
    keyFrame(q.nalu) /\ q.start =>
      /\ i > 2
      /\ \A k \in {1, 2} :
           LET p == sent[i - k].packet IN
           /\ p.nalu = ParameterSet(IF k = 1 THEN "PPS" ELSE "SPS", q.nalu)
           /\ p.start /\ p.end /\ p.to >= p.nalu.len
           /\ p.stamp = q.stamp /\ ~p.mark

\* A stream is never ahead of the clock.  With one timer or several, each callback
\* catches up with the time at which it began: from then on, until the next one
\* begins, the stream is behind by Delay, the time that the callbacks of the
\* batch take, and Period, also when other streams took their turn in between
\* (RtspMediaStream.cpp:103-121, RtspSession.cpp:147-154, TimerQueue.cpp:68-79).
Paced ==
  /\ \A i \in DOMAIN streams :
       streams[i].time_stamp = 0 \/
       streams[i].time_stamp < now - streams[i].create_time - Delay + Frame
  /\ \A t \in timers :
       LET s == streams[t.stream]
       IN  s.time_stamp >= t.began - s.create_time - Delay

\* The timers of a connection that is gone end by themselves: nobody cancels
\* them (RtspSession.cpp:147-153, Timer.cpp:16-20).
TimersEnd == state = "gone" ~> timers = {}
==============================================================================
