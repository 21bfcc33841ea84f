------------------------------- MODULE H264Rtp -------------------------------
(***************************************************************************)
(* H264RtpEncoder: from the NAL units of a file to RTP packets              *)
(* (src/Rtsp: H264, H264Rtp, Rtsp).  A NAL unit is its type, its length,    *)
(* its first_mb bit and its place in the file; the bytes of a packet are    *)
(* the interval from .. to - 1 of a NAL unit.  Lengths are in units of a    *)
(* FragmentSize, the room for a fragment: mtu - 12 - 2.                     *)
(***************************************************************************)
EXTENDS Integers, Sequences, FiniteSetsExt

CONSTANTS
  FragmentSize,   \* _mtu_size - RtpHeaderSize - 2
  SeqNumbers,     \* 2^16
  NoNalu          \* a null H264Nalu::Ptr

\* The types of the code, the data partitions (2 to 4), which have no name there,
\* and all the others.
NaluTypes == {"SPS", "PPS", "SEI", "AUD", "B_P", "DP", "IDR", "other"}

\* packRtpFu takes a unit of exactly FragmentSize bytes for the first fragment
\* of a longer one, and then copies -1 bytes: no file of the model has one.
Nalus ==
  [nal_unit_type : NaluTypes,
   len           : Nat \ {0, FragmentSize},
   first_mb      : BOOLEAN,
   id            : Nat]

ASSUME RtpAssumption ==
  /\ FragmentSize \in Nat \ {0, 1}
  /\ SeqNumbers \in Nat \ {0, 1}
  /\ NoNalu \notin Nalus \cup [nalu : Nalus, stamp : Nat]

------------------------------------------------------------------------------
(* H264Nalu *)

slice(n) == n.nal_unit_type \in {"B_P", "DP", "IDR"}
decodeAble(n) == slice(n) /\ n.first_mb
keyFrame(n) == n.nal_unit_type = "IDR" /\ decodeAble(n)
dropAble(n) == n.nal_unit_type \in {"SEI", "AUD"}

\* What the encoder holds back and sends: everything but the parameter sets and
\* what is dropped.
sendable(n) == n.nal_unit_type \in {"B_P", "DP", "IDR", "other"}

------------------------------------------------------------------------------
(* H264RtpEncoder *)

NewEncoder == [sps |-> NoNalu, pps |-> NoNalu, last_nalu |-> NoNalu, seq |-> 0]

\* The packet that carries bytes from .. to - 1 of n; start and end are the FU-A
\* bits, both set in a packet of its own.
makeRtp(n, from, to, start, end, mark, stamp, seq) ==
  [nalu |-> n, from |-> from, to |-> to, start |-> start, end |-> end,
   mark |-> mark, stamp |-> stamp, seq |-> seq % SeqNumbers]

packRtpStapA(n, len, stamp, mark, seq) ==
  <<makeRtp(n, 0, len, TRUE, TRUE, mark, stamp, seq)>>

\* The first fragment never ends the unit, so that there are two at least; the
\* first byte travels in the FU-A header.
packRtpFu(n, len, stamp, mark, seq) ==
  LET offset(k) == 1 + (k - 1) * FragmentSize
      last == Min({k \in 2 .. len : len <= offset(k) + FragmentSize})
  IN  [k \in 1 .. last |->
         makeRtp(n, offset(k), IF k = last THEN len ELSE offset(k + 1),
                 k = 1, k = last, mark /\ k = last, stamp, seq + k - 1)]

packRtp(n, len, stamp, mark, seq) ==
  IF len <= FragmentSize - 1
  THEN packRtpStapA(n, len, stamp, mark, seq)
  ELSE packRtpFu(n, len, stamp, mark, seq)

\* Mutated: the two parameter sets are sent in the other order.
insertConfigFramePpsFirst(e, stamp) ==
  IF e.sps = NoNalu \/ e.pps = NoNalu THEN << >>
  ELSE LET pps == packRtp(e.pps, e.sps.len, stamp, FALSE, e.seq)
       IN  pps \o packRtp(e.sps, e.sps.len, stamp, FALSE, e.seq + Len(pps))

\* The PPS is sent with the length of the SPS.
insertConfigFrame(e, stamp) ==
  IF e.sps = NoNalu \/ e.pps = NoNalu THEN << >>
  ELSE LET sps == packRtp(e.sps, e.sps.len, stamp, FALSE, e.seq)
       IN  sps \o packRtp(e.pps, e.sps.len, stamp, FALSE, e.seq + Len(sps))

\* The packets of n, which is the stored last_nalu and has the time stamp stamp.
inputFrame_l(e, n, stamp, mark) ==
  LET config == IF keyFrame(n) THEN insertConfigFrame(e, stamp) ELSE << >>
  IN  config \o packRtp(n, n.len, stamp, mark, e.seq + Len(config))

\* What inputFrame sends: the unit before n, which closes its picture if n has
\* another time stamp.
PacketsFor(e, n, stamp) ==
  IF sendable(n) /\ e.last_nalu # NoNalu
  THEN inputFrame_l(e, e.last_nalu.nalu, e.last_nalu.stamp, e.last_nalu.stamp # stamp)
  ELSE << >>

\* Mutated: SPS and PPS replace the unit that waits to be sent.
inputFrameReplacing(e, n, stamp) ==
  CASE n.nal_unit_type = "SPS" -> [e EXCEPT !.sps = n]
    [] n.nal_unit_type = "PPS" -> [e EXCEPT !.pps = n, !.last_nalu = NoNalu]
    [] dropAble(n) -> e
    [] sendable(n) -> [e EXCEPT !.last_nalu = [nalu |-> n, stamp |-> stamp],
                             !.seq = (@ + Len(PacketsFor(e, n, stamp))) % SeqNumbers]

\* The encoder after inputFrame(n).
inputFrame(e, n, stamp) ==
  CASE n.nal_unit_type = "SPS" -> [e EXCEPT !.sps = n]
    [] n.nal_unit_type = "PPS" -> [e EXCEPT !.pps = n]
    [] dropAble(n) -> e
    [] sendable(n) -> [e EXCEPT !.last_nalu = [nalu |-> n, stamp |-> stamp],
                             !.seq = (@ + Len(PacketsFor(e, n, stamp))) % SeqNumbers]
==============================================================================
