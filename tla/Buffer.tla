-------------------------------- MODULE Buffer --------------------------------
(***************************************************************************)
(* Buffer (src/NetWork/Buffer.cpp): a vector of bytes, of which those from  *)
(* read_index_ up to write_index_ are the contents.  Indices count from 0   *)
(* as in the code; buffer_[i + 1] is the byte at index i.                   *)
(*                                                                         *)
(* content is the byte queue that the calls so far promise; the code does   *)
(* not keep it.                                                            *)
(***************************************************************************)
EXTENDS Integers, Sequences, FiniteSetsExt

CONSTANTS
  Bytes, Zero,     \* byte values, and the one a vector is filled with
  Messages,        \* the byte strings that are appended
  kPrePendIndex, kInitalSize,
  MaxSize          \* bound: appends stop when the vector would exceed it

ASSUME BufferAssumption ==
  /\ Zero \in Bytes
  /\ Messages \subseteq Seq(Bytes)
  /\ kPrePendIndex \in Nat /\ kInitalSize \in Nat /\ MaxSize \in Nat
  /\ kPrePendIndex <= kInitalSize

VARIABLES buffer_, read_index_, write_index_, content

bufferVars == <<buffer_, read_index_, write_index_, content>>

Queue == INSTANCE ByteQueue

readablebytes == write_index_ - read_index_
writeablebytes == Len(buffer_) - write_index_
prependablebytes == read_index_

\* PeekAllAsString: the bytes that a reader of the buffer sees.
Contents == SubSeq(buffer_, read_index_ + 1, write_index_)

\* std::copy of the bytes m to index dest of a vector.
Copy(buf, dest, m) ==
  [i \in 1 .. Len(buf) |-> IF i \in dest + 1 .. dest + Len(m) THEN m[i - dest] ELSE buf[i]]

Zeros(n) == [i \in 1 .. n |-> Zero]

BufferInit ==
  /\ buffer_ = Zeros(kInitalSize)
  /\ read_index_ = kPrePendIndex
  /\ write_index_ = kPrePendIndex
  /\ Queue!Init

------------------------------------------------------------------------------
\* Mutated: the prepend area counts as free space.
CompactsTooEarly(len) == writeablebytes + prependablebytes >= len

\* Mutated: the contents are never moved.
CompactsNever(len) == FALSE

\* EnsureWriteableBytes: the contents can be moved to make room for len bytes.
Compacts(len) == writeablebytes + prependablebytes >= kPrePendIndex + len

\* Append when the space behind the contents suffices.
AppendInPlace(m) ==
  /\ writeablebytes >= Len(m)
  /\ buffer_' = Copy(buffer_, write_index_, m)
  /\ write_index_' = write_index_ + Len(m)
  /\ UNCHANGED read_index_
  /\ Queue!Put(m)

\* Mutated: the indices move to the front and the contents do not.
AppendCompactingUnmoved(m) ==
  /\ writeablebytes < Len(m)
  /\ Compacts(Len(m))
  /\ buffer_' = Copy(buffer_, kPrePendIndex + readablebytes, m)
  /\ write_index_' = kPrePendIndex + readablebytes + Len(m)
  /\ read_index_' = kPrePendIndex
  /\ Queue!Put(m)

\* Append when EnsureWriteableBytes moves the contents to the front.
AppendCompacting(m) ==
  /\ writeablebytes < Len(m)
  /\ Compacts(Len(m))
  /\ buffer_' = Copy(Copy(buffer_, kPrePendIndex, Contents),
                     kPrePendIndex + readablebytes, m)
  /\ write_index_' = kPrePendIndex + readablebytes + Len(m)
  /\ read_index_' = kPrePendIndex
  /\ Queue!Put(m)

\* Append when EnsureWriteableBytes enlarges the vector.
AppendGrowing(m) ==
  /\ writeablebytes < Len(m)
  /\ ~Compacts(Len(m))
  /\ write_index_ + Len(m) <= MaxSize
  /\ buffer_' = Copy(buffer_ \o Zeros(Len(m) - writeablebytes), write_index_, m)
  /\ write_index_' = write_index_ + Len(m)
  /\ UNCHANGED read_index_
  /\ Queue!Put(m)

Append_(m) == AppendInPlace(m) \/ AppendCompacting(m) \/ AppendGrowing(m)

\* AppendPrepend: a message that does not fit in front is dropped.
AppendPrepend(m) ==
  /\ Len(m) <= prependablebytes
  /\ buffer_' = Copy(buffer_, read_index_ - Len(m), m)
  /\ read_index_' = read_index_ - Len(m)
  /\ UNCHANGED write_index_
  /\ Queue!PutBack(m)

\* Retrieve and RetrieveAsString, and with n = readablebytes RetrieveAll and
\* RetrieveAllAsString: taking everything resets both indices.
Retrieve(n) ==
  /\ n <= readablebytes
  /\ IF n + read_index_ < write_index_
     THEN /\ read_index_' = read_index_ + n
          /\ UNCHANGED write_index_
     ELSE /\ read_index_' = kPrePendIndex
          /\ write_index_' = kPrePendIndex
  /\ UNCHANGED buffer_
  /\ Queue!Take(n)

\* RetrieveUtil and RetrieveUtilAsString: no reset, even when all is taken.
RetrieveUtil(n) ==
  /\ n <= readablebytes
  /\ read_index_' = read_index_ + n
  /\ UNCHANGED <<buffer_, write_index_>>
  /\ Queue!Take(n)

BufferNext ==
  \/ \E m \in Messages : Append_(m) \/ AppendPrepend(m)
  \/ \E n \in 0 .. Len(content) : Retrieve(n) \/ RetrieveUtil(n)

BufferSpec == BufferInit /\ [][BufferNext]_bufferVars

------------------------------------------------------------------------------
BufferTyped ==
  /\ buffer_ \in Seq(Bytes)
  /\ read_index_ \in Nat /\ write_index_ \in Nat
  /\ content \in Seq(Bytes)

\* The indices stay inside the vector: no append, prepend or move writes outside
\* it, although EnsureWriteableBytes decides with sums of the three lengths
\* (Buffer.cpp:50-54, 120-133).
IndexInv ==
  /\ 0 <= read_index_ /\ read_index_ <= write_index_ /\ write_index_ <= Len(buffer_)
  /\ kPrePendIndex <= Len(buffer_)

\* The readers of the buffer see the byte queue: nothing is lost, repeated or
\* reordered by moves, growth, partial retrieval and prepending (Buffer.cpp:38-118).
Represents == Contents = content

\* A vector that grows is, after that, not larger than twice what it holds (and
\* the prepend area): retrieved space is used again, so a long-lived buffer that
\* is emptied now and then does not grow without end (Buffer.cpp:120-133).
BoundedSlack ==
  [][Len(buffer_') > Len(buffer_) => Len(buffer_') <= kPrePendIndex + 2 * Len(content')]_bufferVars
==============================================================================
