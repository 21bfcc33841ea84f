--------------------------- MODULE ConnectionProofs ---------------------------
(***************************************************************************)
(* Proofs about the bytes of a connection: Buffer, for any prepend area,   *)
(* initial size and messages, and TcpOutput, for any send queue, low mark  *)
(* and messages.                                                           *)
(***************************************************************************)
EXTENDS Buffer, TcpOutput, SequenceTheorems, TLAPS

------------------------------------------------------------------------------
(* Buffer: what it holds, and where. *)

\* A copy keeps the length of the vector, and its elements are bytes.
LEMMA CopyProperties ==
  ASSUME NEW b \in Seq(Bytes), NEW d \in Nat, NEW m \in Seq(Bytes)
  PROVE  /\ Copy(b, d, m) \in Seq(Bytes)
         /\ Len(Copy(b, d, m)) = Len(b)
         /\ \A i \in 1 .. Len(b) :
              Copy(b, d, m)[i] = IF i \in d + 1 .. d + Len(m) THEN m[i - d] ELSE b[i]
<1>1. ASSUME NEW i \in 1 .. Len(b)
      PROVE  (IF i \in d + 1 .. d + Len(m) THEN m[i - d] ELSE b[i]) \in Bytes
  <2>1. CASE i \in d + 1 .. d + Len(m)
    <3>1. i - d \in 1 .. Len(m)
      BY <2>1
    <3>2. QED
      BY <2>1, <3>1, ElementOfSeq
  <2>2. CASE i \notin d + 1 .. d + Len(m)
    BY <2>2, ElementOfSeq
  <2>3. QED
    BY <2>1, <2>2
<1>2. Copy(b, d, m) \in [1 .. Len(b) -> Bytes]
  BY <1>1 DEF Copy
<1>3. QED
  BY <1>2, IsASeq DEF Copy

\* resize fills with zero bytes.
LEMMA ZerosProperties ==
  ASSUME NEW n \in Nat
  PROVE  Zeros(n) \in Seq(Bytes) /\ Len(Zeros(n)) = n
<1>1. Zeros(n) \in [1 .. n -> Bytes]
  BY BufferAssumption DEF Zeros
<1>2. QED
  BY <1>1, IsASeq DEF Zeros

\* What PeekAllAsString returns, position by position.
LEMMA ContentsProperties ==
  ASSUME BufferTyped, IndexInv
  PROVE  /\ Contents \in Seq(Bytes)
         /\ Len(Contents) = readablebytes
         /\ \A i \in 1 .. readablebytes : Contents[i] = buffer_[read_index_ + i]
<1>1. \A i \in read_index_ + 1 .. write_index_ : buffer_[i] \in Bytes
  BY ElementOfSeq DEF BufferTyped, IndexInv
<1>2. QED
  BY <1>1, SubSeqProperties DEF BufferTyped, IndexInv, Contents, readablebytes

------------------------------------------------------------------------------
\* The two index conjuncts and the types form the invariant of the memory.
MemoryInv == BufferTyped /\ IndexInv

\* A new buffer is empty and its indices are inside the vector.
LEMMA InitMemory == BufferInit => MemoryInv
  BY ZerosProperties, BufferAssumption
     DEF BufferInit, MemoryInv, BufferTyped, IndexInv, Queue!Init

\* When the contents are moved, they move to the left (a forward std::copy is
\* right), and the message fits behind them.
LEMMA CompactionFits ==
  ASSUME MemoryInv, NEW m \in Messages, writeablebytes < Len(m), Compacts(Len(m))
  PROVE  /\ kPrePendIndex < read_index_
         /\ kPrePendIndex + readablebytes + Len(m) <= Len(buffer_)
<1>1. m \in Seq(Bytes) /\ Len(m) \in Nat
  BY BufferAssumption
<1>2. QED
  BY <1>1, BufferAssumption
     DEF MemoryInv, BufferTyped, IndexInv, Compacts, readablebytes, writeablebytes,
         prependablebytes

\* The vector and the indices after each kind of append.
LEMMA AppendMemory ==
  ASSUME MemoryInv, NEW m \in Messages, Append_(m)
  PROVE  /\ buffer_' \in Seq(Bytes)
         /\ read_index_' \in Nat /\ write_index_' \in Nat
         /\ IndexInv'
         /\ Len(buffer_') > Len(buffer_) => Len(buffer_') <= kPrePendIndex + 2 * (readablebytes + Len(m))
<1> USE BufferAssumption DEF MemoryInv, BufferTyped, IndexInv, readablebytes, writeablebytes, prependablebytes
<1>1. m \in Seq(Bytes) /\ Len(m) \in Nat
  OBVIOUS
<1>2. CASE AppendInPlace(m)
  <2>1. Copy(buffer_, write_index_, m) \in Seq(Bytes)
        /\ Len(Copy(buffer_, write_index_, m)) = Len(buffer_)
    BY <1>1, CopyProperties
  <2>2. QED
    BY <1>1, <1>2, <2>1 DEF AppendInPlace
<1>3. CASE AppendCompacting(m)
  <2> DEFINE b == Copy(buffer_, kPrePendIndex, Contents)
  <2>1. b \in Seq(Bytes) /\ Len(b) = Len(buffer_)
    BY CopyProperties, ContentsProperties
  <2>2. Copy(b, kPrePendIndex + readablebytes, m) \in Seq(Bytes)
        /\ Len(Copy(b, kPrePendIndex + readablebytes, m)) = Len(buffer_)
    <3>1. kPrePendIndex + readablebytes \in Nat
      OBVIOUS
    <3>2. QED
      BY <1>1, <2>1, <3>1, CopyProperties
  <2>3. kPrePendIndex + readablebytes + Len(m) <= Len(buffer_)
    BY <1>3, CompactionFits DEF AppendCompacting
  <2>4. QED
    BY <1>1, <1>3, <2>2, <2>3 DEF AppendCompacting
<1>4. CASE AppendGrowing(m)
  <2> DEFINE k == Len(m) - writeablebytes
             b == buffer_ \o Zeros(k)
  <2>1. k \in Nat /\ k > 0
    BY <1>1, <1>4 DEF AppendGrowing
  <2>2. b \in Seq(Bytes) /\ Len(b) = write_index_ + Len(m)
    BY <1>1, <2>1, ZerosProperties, ConcatProperties, SMTT(60)
  <2>3. Copy(b, write_index_, m) \in Seq(Bytes)
        /\ Len(Copy(b, write_index_, m)) = write_index_ + Len(m)
    BY <1>1, <2>2, CopyProperties
  <2>4. buffer_' = Copy(b, write_index_, m)
    BY <1>4 DEF AppendGrowing
  <2>5. write_index_ + Len(m) <= kPrePendIndex + 2 * (readablebytes + Len(m))
    BY <1>1, <1>4 DEF AppendGrowing, Compacts
  <2>6. QED
    BY <1>1, <1>4, <2>3, <2>4, <2>5 DEF AppendGrowing
<1>5. QED
  BY <1>2, <1>3, <1>4 DEF Append_

\* Every call keeps the types and the indices inside the vector.
LEMMA StepMemory ==
  ASSUME MemoryInv, [BufferNext]_bufferVars
  PROVE  MemoryInv'
<1> USE BufferAssumption DEF MemoryInv, BufferTyped, IndexInv, readablebytes, writeablebytes, prependablebytes
<1>1. ASSUME NEW m \in Messages, Append_(m)
      PROVE  MemoryInv'
  <2>1. content' = content \o m
    BY <1>1 DEF Append_, AppendInPlace, AppendCompacting, AppendGrowing, Queue!Put
  <2>2. content' \in Seq(Bytes)
    BY <2>1
  <2>3. QED
    BY <1>1, <2>2, AppendMemory
<1>2. ASSUME NEW m \in Messages, AppendPrepend(m)
      PROVE  MemoryInv'
  <2>1. m \in Seq(Bytes) /\ Len(m) \in Nat
    OBVIOUS
  <2>2. read_index_ - Len(m) \in Nat
    BY <1>2, <2>1 DEF AppendPrepend
  <2>3. Copy(buffer_, read_index_ - Len(m), m) \in Seq(Bytes)
        /\ Len(Copy(buffer_, read_index_ - Len(m), m)) = Len(buffer_)
    BY <2>1, <2>2, CopyProperties
  <2>4. content' \in Seq(Bytes)
    BY <1>2, <2>1 DEF AppendPrepend, Queue!PutBack
  <2>5. QED
    BY <1>2, <2>1, <2>2, <2>3, <2>4 DEF AppendPrepend
<1>3. ASSUME NEW n \in 0 .. Len(content), Queue!Take(n)
      PROVE  content' \in Seq(Bytes)
  <2>1. \A i \in n + 1 .. Len(content) : content[i] \in Bytes
    BY ElementOfSeq
  <2>2. QED
    BY <1>3, <2>1, SubSeqProperties DEF Queue!Take
<1>4. ASSUME NEW n \in 0 .. Len(content), Retrieve(n)
      PROVE  MemoryInv'
  BY <1>3, <1>4 DEF Retrieve
<1>5. ASSUME NEW n \in 0 .. Len(content), RetrieveUtil(n)
      PROVE  MemoryInv'
  BY <1>3, <1>5 DEF RetrieveUtil
<1>6. CASE UNCHANGED bufferVars
  BY <1>6 DEF bufferVars
<1>7. QED
  BY <1>1, <1>2, <1>4, <1>5, <1>6 DEF BufferNext

\* No call writes outside the vector, whatever is appended, prepended and taken.
THEOREM MemorySafe == BufferSpec => [](BufferTyped /\ IndexInv)
<1>1. MemoryInv /\ [BufferNext]_bufferVars => MemoryInv'
  BY StepMemory
<1>2. BufferSpec => []MemoryInv
  BY InitMemory, <1>1, PTL DEF BufferSpec
<1>3. QED
  BY <1>2, PTL DEF MemoryInv

------------------------------------------------------------------------------
\* Reading a part of a vector, position by position.
LEMMA ReadProperties ==
  ASSUME NEW b \in Seq(Bytes), NEW r \in Nat, NEW w \in Nat, r <= w, w <= Len(b)
  PROVE  /\ SubSeq(b, r + 1, w) \in Seq(Bytes)
         /\ Len(SubSeq(b, r + 1, w)) = w - r
         /\ \A i \in 1 .. w - r : SubSeq(b, r + 1, w)[i] = b[r + i]
<1>1. \A i \in r + 1 .. w : b[i] \in Bytes
  BY ElementOfSeq
<1>2. /\ SubSeq(b, r + 1, w) \in Seq(Bytes)
      /\ Len(SubSeq(b, r + 1, w)) = IF r + 1 <= w THEN w - (r + 1) + 1 ELSE 0
      /\ \A i \in 1 .. w - (r + 1) + 1 : SubSeq(b, r + 1, w)[i] = b[r + 1 + i - 1]
  BY <1>1, SubSeqProperties
<1> DEFINE s == SubSeq(b, r + 1, w)
<1> HIDE DEF s
<1>3. Len(s) = w - r
  BY <1>2 DEF s
<1>4. ASSUME NEW i \in 1 .. w - r
      PROVE  s[i] = b[r + i]
  BY <1>2 DEF s
<1>5. QED
  BY <1>2, <1>3, <1>4 DEF s

\* Bytes that have been copied into a vector are read back.
LEMMA CopyReadsBack ==
  ASSUME NEW b \in Seq(Bytes), NEW c \in Seq(Bytes), NEW r \in Nat, NEW w \in Nat,
         w = r + Len(c), w <= Len(b)
  PROVE  SubSeq(Copy(b, r, c), r + 1, w) = c
<1> DEFINE v == Copy(b, r, c)
           s == SubSeq(v, r + 1, w)
<1>1. /\ v \in Seq(Bytes) /\ Len(v) = Len(b)
      /\ \A i \in 1 .. Len(b) : v[i] = IF i \in r + 1 .. r + Len(c) THEN c[i - r] ELSE b[i]
  BY CopyProperties
<1> HIDE DEF v
<1>2. /\ s \in Seq(Bytes) /\ Len(s) = Len(c)
      /\ \A i \in 1 .. Len(c) : s[i] = v[r + i]
  <2>1. Len(c) \in Nat /\ r <= w /\ w - r = Len(c) /\ w <= Len(v)
    BY <1>1
  <2>2. /\ s \in Seq(Bytes) /\ Len(s) = w - r
        /\ \A i \in 1 .. w - r : s[i] = v[r + i]
    BY <1>1, <2>1, ReadProperties
  <2>3. QED
    BY <2>1, <2>2
<1> HIDE DEF s
<1>3. ASSUME NEW i \in 1 .. Len(c)
      PROVE  s[i] = c[i]
  <2> DEFINE j == r + i
  <2>1. j \in 1 .. Len(b) /\ j \in r + 1 .. r + Len(c) /\ j - r = i
    OBVIOUS
  <2>2. s[i] = v[j]
    BY <1>2
  <2> HIDE DEF j
  <2>3. v[j] = c[j - r]
    BY <1>1, <2>1
  <2>4. QED
    BY <2>1, <2>2, <2>3
<1>4. s = c
  BY <1>2, <1>3, SeqEqual
<1>5. QED
  BY <1>4 DEF s, v

\* A message copied behind a part of a vector extends that part.
LEMMA CopyBehind ==
  ASSUME NEW b \in Seq(Bytes), NEW m \in Seq(Bytes), NEW r \in Nat, NEW d \in Nat,
         r <= d, d + Len(m) <= Len(b)
  PROVE  SubSeq(Copy(b, d, m), r + 1, d + Len(m)) = SubSeq(b, r + 1, d) \o m
<1> DEFINE v == Copy(b, d, m)
           s == SubSeq(v, r + 1, d + Len(m))
           c == SubSeq(b, r + 1, d)
<1>1. Len(m) \in Nat /\ Len(b) \in Nat /\ d + Len(m) \in Nat /\ r <= d + Len(m) /\ d <= Len(b)
  OBVIOUS
<1>2. /\ v \in Seq(Bytes) /\ Len(v) = Len(b)
      /\ \A i \in 1 .. Len(b) : v[i] = IF i \in d + 1 .. d + Len(m) THEN m[i - d] ELSE b[i]
  BY CopyProperties
<1> HIDE DEF v
<1>3. /\ s \in Seq(Bytes) /\ Len(s) = d + Len(m) - r
      /\ \A i \in 1 .. d + Len(m) - r : s[i] = v[r + i]
  <2>1. v \in Seq(Bytes) /\ d + Len(m) <= Len(v) /\ r <= d + Len(m) /\ d + Len(m) \in Nat
    BY <1>1, <1>2
  <2>2. QED
    BY <2>1, ReadProperties
<1> HIDE DEF s
<1>4. /\ c \in Seq(Bytes) /\ Len(c) = d - r
      /\ \A i \in 1 .. d - r : c[i] = b[r + i]
  BY <1>1, ReadProperties
<1> HIDE DEF c
<1>5. /\ c \o m \in Seq(Bytes) /\ Len(c \o m) = Len(c) + Len(m)
      /\ \A i \in 1 .. Len(c) + Len(m) :
           (c \o m)[i] = IF i <= Len(c) THEN c[i] ELSE m[i - Len(c)]
  BY <1>4, ConcatProperties, ZenonT(60)
<1>6. ASSUME NEW i \in 1 .. d + Len(m) - r
      PROVE  s[i] = (c \o m)[i]
  <2> DEFINE j == r + i
  <2>1. j \in 1 .. Len(b)
    BY <1>1
  <2>2. s[i] = v[j]
    BY <1>3
  <2>3. i \in 1 .. Len(c) + Len(m)
    BY <1>1, <1>4
  <2>4. CASE i <= d - r
    <3>1. j \notin d + 1 .. d + Len(m)
      BY <1>1, <2>4
    <3>2. c[i] = b[j]
      BY <1>4, <2>4
    <3> HIDE DEF j
    <3>3. v[j] = b[j]
      BY <1>2, <2>1, <3>1
    <3>4. (c \o m)[i] = c[i]
      BY <1>4, <1>5, <2>3, <2>4
    <3>5. QED
      BY <2>2, <3>2, <3>3, <3>4
  <2>5. CASE ~(i <= d - r)
    <3>1. j \in d + 1 .. d + Len(m) /\ j - d = i - Len(c)
      BY <1>1, <1>4, <2>5
    <3> HIDE DEF j
    <3>2. v[j] = m[j - d]
      BY <1>2, <2>1, <3>1
    <3>3. (c \o m)[i] = m[i - Len(c)]
      BY <1>4, <1>5, <2>3, <2>5
    <3>4. QED
      BY <2>2, <3>1, <3>2, <3>3
  <2>6. QED
    BY <2>4, <2>5
<1>7. s = c \o m
  <2>1. Len(s) = Len(c \o m)
    BY <1>1, <1>3, <1>4, <1>5
  <2>2. QED
    BY <1>3, <1>5, <1>6, <2>1, SeqEqual
<1>8. QED
  BY <1>7 DEF s, v, c

\* Bytes behind a part of a vector do not change it.
LEMMA ConcatReads ==
  ASSUME NEW b \in Seq(Bytes), NEW z \in Seq(Bytes), NEW r \in Nat, NEW w \in Nat,
         r <= w, w <= Len(b)
  PROVE  SubSeq(b \o z, r + 1, w) = SubSeq(b, r + 1, w)
<1> DEFINE v == b \o z
           s == SubSeq(v, r + 1, w)
           c == SubSeq(b, r + 1, w)
<1>1. /\ v \in Seq(Bytes) /\ Len(v) = Len(b) + Len(z)
      /\ \A i \in 1 .. Len(b) + Len(z) : v[i] = IF i <= Len(b) THEN b[i] ELSE z[i - Len(b)]
  BY ConcatProperties
<1> HIDE DEF v
<1>2. Len(b) \in Nat /\ Len(z) \in Nat /\ w <= Len(v)
  BY <1>1
<1>3. /\ s \in Seq(Bytes) /\ Len(s) = w - r
      /\ \A i \in 1 .. w - r : s[i] = v[r + i]
  BY <1>1, <1>2, ReadProperties
<1> HIDE DEF s
<1>4. /\ c \in Seq(Bytes) /\ Len(c) = w - r
      /\ \A i \in 1 .. w - r : c[i] = b[r + i]
  BY ReadProperties
<1> HIDE DEF c
<1>5. ASSUME NEW i \in 1 .. w - r
      PROVE  s[i] = c[i]
  <2> DEFINE j == r + i
  <2>1. j \in 1 .. Len(b) + Len(z) /\ j <= Len(b)
    BY <1>2
  <2>2. s[i] = v[j] /\ c[i] = b[j]
    BY <1>3, <1>4
  <2> HIDE DEF j
  <2>3. QED
    BY <1>1, <2>1, <2>2
<1>6. s = c
  BY <1>3, <1>4, <1>5, SeqEqual
<1>7. QED
  BY <1>6 DEF s, v, c

\* Whichever way the space is found, an append adds the message behind the contents.
LEMMA AppendContents ==
  ASSUME MemoryInv, NEW m \in Messages, Append_(m)
  PROVE  Contents' = Contents \o m
<1>1. /\ m \in Seq(Bytes) /\ Len(m) \in Nat
      /\ read_index_ \in Nat /\ write_index_ \in Nat /\ Len(buffer_) \in Nat
      /\ kPrePendIndex \in Nat /\ readablebytes \in Nat
      /\ read_index_ + readablebytes = write_index_
      /\ read_index_ <= write_index_ /\ write_index_ <= Len(buffer_)
      /\ buffer_ \in Seq(Bytes)
  BY BufferAssumption DEF MemoryInv, BufferTyped, IndexInv, readablebytes
<1>2. Contents \in Seq(Bytes) /\ Len(Contents) = readablebytes
  BY ContentsProperties DEF MemoryInv
<1>3. CASE AppendInPlace(m)
  <2>1. write_index_ + Len(m) <= Len(buffer_)
    BY <1>1, <1>3 DEF AppendInPlace, writeablebytes
  <2>2. SubSeq(Copy(buffer_, write_index_, m), read_index_ + 1, write_index_ + Len(m))
          = SubSeq(buffer_, read_index_ + 1, write_index_) \o m
    BY <1>1, <2>1, CopyBehind, ZenonT(60)
  <2>3. QED
    BY <1>3, <2>2 DEF AppendInPlace, Contents
<1>4. CASE AppendCompacting(m)
  <2> DEFINE b == Copy(buffer_, kPrePendIndex, Contents)
             d == kPrePendIndex + readablebytes
  <2>1. kPrePendIndex + readablebytes + Len(m) <= Len(buffer_)
    BY <1>4, CompactionFits DEF AppendCompacting
  <2>2. d \in Nat /\ kPrePendIndex <= d /\ d = kPrePendIndex + Len(Contents)
        /\ d <= Len(buffer_) /\ d + Len(m) <= Len(buffer_)
    BY <1>1, <1>2, <2>1
  <2>3. Contents' = SubSeq(Copy(b, d, m), kPrePendIndex + 1, d + Len(m))
    BY <1>4 DEF AppendCompacting, Contents
  <2> HIDE DEF d
  <2>4. b \in Seq(Bytes) /\ Len(b) = Len(buffer_)
    BY <1>1, <1>2, CopyProperties
  <2>5. SubSeq(b, kPrePendIndex + 1, d) = Contents
    BY <1>1, <1>2, <2>2, CopyReadsBack
  <2> HIDE DEF b
  <2>6. SubSeq(Copy(b, d, m), kPrePendIndex + 1, d + Len(m)) = SubSeq(b, kPrePendIndex + 1, d) \o m
    <3>1. d + Len(m) <= Len(b)
      <4>1. d + Len(m) <= Len(buffer_)
        BY <2>2
      <4>2. QED
        BY <2>4, <4>1
    <3>2. kPrePendIndex \in Nat /\ d \in Nat /\ kPrePendIndex <= d
      BY <1>1, <2>2
    <3>3. m \in Seq(Bytes) /\ b \in Seq(Bytes)
      BY <1>1, <2>4
    <3>4. QED
      BY <3>1, <3>2, <3>3, CopyBehind
  <2>7. QED
    BY <2>3, <2>5, <2>6
<1>5. CASE AppendGrowing(m)
  <2> DEFINE k == Len(m) - writeablebytes
             b == buffer_ \o Zeros(k)
  <2>1. k \in Nat /\ Len(buffer_) + k = write_index_ + Len(m)
    BY <1>1, <1>5 DEF AppendGrowing, writeablebytes
  <2>2. Contents' = SubSeq(Copy(b, write_index_, m), read_index_ + 1, write_index_ + Len(m))
    BY <1>5 DEF AppendGrowing, Contents
  <2> HIDE DEF k
  <2>3. Zeros(k) \in Seq(Bytes) /\ Len(Zeros(k)) = k
    BY <2>1, ZerosProperties
  <2>4. b \in Seq(Bytes) /\ Len(b) = Len(buffer_) + k
    BY <1>1, <2>3, ConcatProperties
  <2>5. SubSeq(b, read_index_ + 1, write_index_) = Contents
    BY <1>1, <2>3, ConcatReads DEF Contents
  <2> HIDE DEF b
  <2>6. SubSeq(Copy(b, write_index_, m), read_index_ + 1, write_index_ + Len(m))
          = SubSeq(b, read_index_ + 1, write_index_) \o m
    <3>1. write_index_ + Len(m) <= Len(b)
      BY <1>1, <2>1, <2>4
    <3>2. m \in Seq(Bytes) /\ b \in Seq(Bytes)
      BY <1>1, <2>4
    <3>3. read_index_ \in Nat /\ write_index_ \in Nat /\ read_index_ <= write_index_
      BY <1>1
    <3>4. QED
      BY <3>1, <3>2, <3>3, CopyBehind
  <2>7. QED
    BY <2>2, <2>5, <2>6
<1>6. QED
  BY <1>3, <1>4, <1>5 DEF Append_

\* A message copied in front of a part of a vector extends that part.
LEMMA CopyBefore ==
  ASSUME NEW b \in Seq(Bytes), NEW m \in Seq(Bytes), NEW d \in Nat, NEW w \in Nat,
         d + Len(m) <= w, w <= Len(b)
  PROVE  SubSeq(Copy(b, d, m), d + 1, w) = m \o SubSeq(b, d + Len(m) + 1, w)
<1> DEFINE r == d + Len(m)
           v == Copy(b, d, m)
           s == SubSeq(v, d + 1, w)
           c == SubSeq(b, r + 1, w)
<1>1. Len(m) \in Nat /\ Len(b) \in Nat /\ d <= w /\ w - d = Len(m) + (w - r)
      /\ r \in Nat /\ r <= w /\ r = d + Len(m)
  OBVIOUS
<1> HIDE DEF r
<1>2. /\ v \in Seq(Bytes) /\ Len(v) = Len(b)
      /\ \A i \in 1 .. Len(b) : v[i] = IF i \in d + 1 .. d + Len(m) THEN m[i - d] ELSE b[i]
  BY CopyProperties
<1> HIDE DEF v
<1>3. /\ s \in Seq(Bytes) /\ Len(s) = w - d
      /\ \A i \in 1 .. w - d : s[i] = v[d + i]
  <2>1. v \in Seq(Bytes) /\ w <= Len(v) /\ d <= w
    BY <1>1, <1>2
  <2>2. QED
    BY <2>1, ReadProperties
<1> HIDE DEF s
<1>4. /\ c \in Seq(Bytes) /\ Len(c) = w - r
      /\ \A i \in 1 .. w - r : c[i] = b[r + i]
  BY <1>1, ReadProperties
<1> HIDE DEF c
<1>5. /\ m \o c \in Seq(Bytes) /\ Len(m \o c) = Len(m) + Len(c)
      /\ \A i \in 1 .. Len(m) + Len(c) :
           (m \o c)[i] = IF i <= Len(m) THEN m[i] ELSE c[i - Len(m)]
  BY <1>4, ConcatProperties, ZenonT(60)
<1>6. ASSUME NEW i \in 1 .. w - d
      PROVE  s[i] = (m \o c)[i]
  <2> DEFINE j == d + i
  <2>1. j \in 1 .. Len(b)
    BY <1>1
  <2>2. s[i] = v[j]
    BY <1>3
  <2>3. i \in 1 .. Len(m) + Len(c)
    BY <1>1, <1>4
  <2>4. CASE i <= Len(m)
    <3>1. j \in d + 1 .. d + Len(m) /\ j - d = i
      BY <1>1, <2>4
    <3> HIDE DEF j
    <3>2. v[j] = m[j - d]
      BY <1>2, <2>1, <3>1
    <3>3. (m \o c)[i] = m[i]
      BY <1>5, <2>3, <2>4
    <3>4. QED
      BY <2>2, <3>1, <3>2, <3>3
  <2>5. CASE ~(i <= Len(m))
    <3> DEFINE k == i - Len(m)
    <3>1. j \notin d + 1 .. d + Len(m) /\ r + k = j /\ k \in 1 .. w - r
      BY <1>1, <2>5
    <3> HIDE DEF j
    <3>2. v[j] = b[j]
      BY <1>2, <2>1, <3>1
    <3>3. (m \o c)[i] = c[k]
      BY <1>5, <2>3, <2>5
    <3> HIDE DEF k
    <3>4. c[k] = b[r + k]
      BY <1>4, <3>1
    <3>5. QED
      BY <2>2, <3>1, <3>2, <3>3, <3>4
  <2>6. QED
    BY <2>4, <2>5
<1>7. s = m \o c
  <2>1. Len(s) = Len(m \o c)
    BY <1>1, <1>3, <1>4, <1>5
  <2>2. QED
    BY <1>3, <1>5, <1>6, <2>1, SeqEqual
<1>8. QED
  BY <1>7 DEF s, v, c, r

\* The rest of a part of a vector is a part of it.
LEMMA ReadRest ==
  ASSUME NEW b \in Seq(Bytes), NEW r \in Nat, NEW w \in Nat, NEW n \in Nat,
         r + n <= w, w <= Len(b)
  PROVE  SubSeq(SubSeq(b, r + 1, w), n + 1, w - r) = SubSeq(b, r + n + 1, w)
<1> DEFINE c == SubSeq(b, r + 1, w)
           k == w - r
           s == SubSeq(c, n + 1, k)
           q == r + n
           t == SubSeq(b, q + 1, w)
<1>1. r <= w /\ k \in Nat /\ n <= k /\ q \in Nat /\ q <= w /\ w - q = k - n
  OBVIOUS
<1>2. /\ c \in Seq(Bytes) /\ Len(c) = k
      /\ \A i \in 1 .. k : c[i] = b[r + i]
  BY <1>1, ReadProperties
<1> HIDE DEF c
<1>3. /\ s \in Seq(Bytes) /\ Len(s) = k - n
      /\ \A i \in 1 .. k - n : s[i] = c[n + i]
  <2> HIDE DEF k
  <2>1. QED
    BY <1>1, <1>2, ReadProperties
<1>4. /\ t \in Seq(Bytes) /\ Len(t) = w - q
      /\ \A i \in 1 .. w - q : t[i] = b[q + i]
  <2> HIDE DEF q
  <2>1. QED
    BY <1>1, ReadProperties
<1> HIDE DEF s, t
<1>5. ASSUME NEW i \in 1 .. k - n
      PROVE  s[i] = t[i]
  <2> DEFINE j == n + i
  <2>1. j \in 1 .. k /\ r + j = q + i
    OBVIOUS
  <2>2. s[i] = c[j] /\ t[i] = b[q + i]
    BY <1>1, <1>3, <1>4
  <2> HIDE DEF j
  <2>3. c[j] = b[r + j]
    BY <1>2, <2>1
  <2>4. QED
    BY <2>1, <2>2, <2>3
<1>6. s = t
  <2>1. Len(s) = Len(t) /\ Len(s) = k - n
    BY <1>1, <1>3, <1>4
  <2> HIDE DEF k
  <2>2. QED
    BY <1>3, <1>4, <1>5, <2>1, SeqEqual
<1>7. QED
  BY <1>6 DEF s, t, c

\* Prepending adds the message in front of the contents.
LEMMA PrependContents ==
  ASSUME MemoryInv, NEW m \in Messages, AppendPrepend(m)
  PROVE  Contents' = m \o Contents
<1> DEFINE d == read_index_ - Len(m)
<1>1. /\ m \in Seq(Bytes) /\ Len(m) \in Nat /\ buffer_ \in Seq(Bytes)
      /\ read_index_ \in Nat /\ write_index_ \in Nat
      /\ d \in Nat /\ read_index_ = d + Len(m)
      /\ read_index_ <= write_index_ /\ write_index_ <= Len(buffer_)
  BY BufferAssumption DEF MemoryInv, BufferTyped, IndexInv, AppendPrepend, prependablebytes
<1>2. Contents' = SubSeq(Copy(buffer_, d, m), d + 1, write_index_)
  BY DEF AppendPrepend, Contents
<1> HIDE DEF d
<1>3. SubSeq(Copy(buffer_, d, m), d + 1, write_index_)
        = m \o SubSeq(buffer_, read_index_ + 1, write_index_)
  <2>1. d \in Nat /\ m \in Seq(Bytes) /\ buffer_ \in Seq(Bytes) /\ write_index_ \in Nat
        /\ d + Len(m) <= write_index_ /\ write_index_ <= Len(buffer_)
    BY <1>1
  <2>2. SubSeq(Copy(buffer_, d, m), d + 1, write_index_)
          = m \o SubSeq(buffer_, d + Len(m) + 1, write_index_)
    BY <2>1, CopyBefore
  <2>3. QED
    BY <1>1, <2>2
<1>4. QED
  BY <1>2, <1>3 DEF Contents

\* Taking n bytes leaves the others, in order, whether the indices are reset or not.
LEMMA TakeContents ==
  ASSUME MemoryInv, NEW n \in Nat, Retrieve(n) \/ RetrieveUtil(n)
  PROVE  Contents' = SubSeq(Contents, n + 1, Len(Contents))
<1>1. /\ buffer_ \in Seq(Bytes) /\ buffer_' = buffer_
      /\ read_index_ \in Nat /\ write_index_ \in Nat /\ kPrePendIndex \in Nat
      /\ read_index_ + n <= write_index_ /\ write_index_ <= Len(buffer_)
      /\ kPrePendIndex <= Len(buffer_)
  BY BufferAssumption
     DEF MemoryInv, BufferTyped, IndexInv, Retrieve, RetrieveUtil, readablebytes
<1>2. Len(Contents) = write_index_ - read_index_
  BY ContentsProperties DEF MemoryInv, readablebytes
<1>3. SubSeq(Contents, n + 1, Len(Contents)) = SubSeq(buffer_, read_index_ + n + 1, write_index_)
  BY <1>1, <1>2, ReadRest DEF Contents
<1>4. CASE read_index_' = read_index_ + n /\ write_index_' = write_index_
  BY <1>1, <1>3, <1>4 DEF Contents
<1>5. CASE ~(read_index_' = read_index_ + n /\ write_index_' = write_index_)
  <2>1. read_index_' = kPrePendIndex /\ write_index_' = kPrePendIndex /\ read_index_ + n = write_index_
    BY <1>1, <1>5 DEF Retrieve, RetrieveUtil
  <2>2. Contents' = SubSeq(buffer_, kPrePendIndex + 1, kPrePendIndex)
    BY <1>1, <2>1 DEF Contents
  <2>3. SubSeq(buffer_, kPrePendIndex + 1, kPrePendIndex) = << >>
    <3>1. SubSeq(buffer_, kPrePendIndex + 1, kPrePendIndex) \in Seq(Bytes)
          /\ Len(SubSeq(buffer_, kPrePendIndex + 1, kPrePendIndex)) = kPrePendIndex - kPrePendIndex
      BY <1>1, ReadProperties
    <3>2. QED
      BY <1>1, <3>1, EmptySeq
  <2>4. SubSeq(buffer_, read_index_ + n + 1, write_index_) = << >>
    <3>1. SubSeq(buffer_, write_index_ + 1, write_index_) \in Seq(Bytes)
          /\ Len(SubSeq(buffer_, write_index_ + 1, write_index_)) = write_index_ - write_index_
      BY <1>1, ReadProperties
    <3>2. QED
      BY <1>1, <2>1, <3>1, EmptySeq
  <2>5. QED
    BY <1>3, <2>2, <2>3, <2>4
<1>6. QED
  BY <1>4, <1>5

\* Every call keeps the readers' view equal to the byte queue.
LEMMA StepRepresents ==
  ASSUME MemoryInv, Represents, [BufferNext]_bufferVars
  PROVE  Represents'
<1>1. ASSUME NEW m \in Messages, Append_(m)
      PROVE  Represents'
  <2>1. content' = content \o m
    BY <1>1 DEF Append_, AppendInPlace, AppendCompacting, AppendGrowing, Queue!Put
  <2>2. QED
    BY <1>1, <2>1, AppendContents DEF Represents
<1>2. ASSUME NEW m \in Messages, AppendPrepend(m)
      PROVE  Represents'
  BY <1>2, PrependContents DEF Represents, AppendPrepend, Queue!PutBack
<1>3. ASSUME NEW n \in 0 .. Len(content), Retrieve(n) \/ RetrieveUtil(n)
      PROVE  Represents'
  <2>1. n \in Nat
    BY <1>3 DEF MemoryInv, BufferTyped
  <2>2. content' = SubSeq(content, n + 1, Len(content))
    BY <1>3 DEF Retrieve, RetrieveUtil, Queue!Take
  <2>3. QED
    BY <1>3, <2>1, <2>2, TakeContents DEF Represents
<1>4. CASE UNCHANGED bufferVars
  BY <1>4 DEF bufferVars, Represents, Contents
<1>5. QED
  BY <1>1, <1>2, <1>3, <1>4 DEF BufferNext

\* The buffer implements the byte queue: what it holds is what was put into it and
\* not taken, in order (Append, AppendPrepend and the Retrieve family).
THEOREM BufferIsQueue == BufferSpec => []Represents
<1>1. BufferInit => MemoryInv /\ Represents
  <2>1. ASSUME BufferInit
        PROVE  Contents = << >>
    <3>1. /\ buffer_ \in Seq(Bytes) /\ kPrePendIndex \in Nat /\ kPrePendIndex <= Len(buffer_)
          /\ read_index_ = kPrePendIndex /\ write_index_ = kPrePendIndex
      BY <2>1, InitMemory DEF BufferInit, MemoryInv, BufferTyped, IndexInv
    <3>2. SubSeq(buffer_, kPrePendIndex + 1, kPrePendIndex) \in Seq(Bytes)
          /\ Len(SubSeq(buffer_, kPrePendIndex + 1, kPrePendIndex)) = kPrePendIndex - kPrePendIndex
      BY <3>1, ReadProperties
    <3>3. QED
      BY <3>1, <3>2, EmptySeq DEF Contents
  <2>2. QED
    BY <2>1, InitMemory DEF Represents, BufferInit, Queue!Init
<1>2. (MemoryInv /\ Represents) /\ [BufferNext]_bufferVars => (MemoryInv /\ Represents)'
  BY StepMemory, StepRepresents
<1>3. QED
  BY <1>1, <1>2, PTL DEF BufferSpec

\* A vector grows to at most twice its contents, the prepend area apart.
THEOREM GrowthIsBounded == BufferSpec => BoundedSlack
<1>1. ASSUME MemoryInv, Represents, [BufferNext]_bufferVars, Len(buffer_') > Len(buffer_)
      PROVE  Len(buffer_') <= kPrePendIndex + 2 * Len(content')
  <2>1. PICK m \in Messages : Append_(m)
    <3>1. ASSUME NEW m \in Messages, AppendPrepend(m)
          PROVE  Len(buffer_') = Len(buffer_)
      <4>1. m \in Seq(Bytes) /\ buffer_ \in Seq(Bytes) /\ read_index_ - Len(m) \in Nat
        BY <1>1, <3>1, BufferAssumption
           DEF MemoryInv, BufferTyped, IndexInv, AppendPrepend, prependablebytes
      <4>2. QED
        BY <3>1, <4>1, CopyProperties DEF AppendPrepend
    <3>2. Len(buffer_) \in Nat
      BY <1>1 DEF MemoryInv, BufferTyped
    <3>3. ASSUME buffer_' = buffer_
          PROVE  FALSE
      BY <1>1, <3>2, <3>3
    <3>4. QED
      BY <1>1, <3>1, <3>2, <3>3 DEF BufferNext, Retrieve, RetrieveUtil, bufferVars
  <2>2. content' = content \o m
    BY <2>1 DEF Append_, AppendInPlace, AppendCompacting, AppendGrowing, Queue!Put
  <2>3. content \in Seq(Bytes) /\ m \in Seq(Bytes) /\ Len(content) = readablebytes
    BY <1>1, BufferAssumption, ContentsProperties DEF MemoryInv, BufferTyped, Represents
  <2>4. Len(content') = readablebytes + Len(m)
    BY <2>2, <2>3, ConcatProperties
  <2>5. QED
    BY <1>1, <2>1, <2>4, AppendMemory
<1>2. BufferSpec => [](MemoryInv /\ Represents)
  <2>1. BufferSpec => []MemoryInv
    BY MemorySafe, PTL DEF MemoryInv
  <2>2. QED
    BY <2>1, BufferIsQueue, PTL
<1>3. MemoryInv /\ Represents /\ [BufferNext]_bufferVars
        => [Len(buffer_') > Len(buffer_) => Len(buffer_') <= kPrePendIndex + 2 * Len(content')]_bufferVars
  BY <1>1
<1>4. QED
  BY <1>2, <1>3, PTL DEF BufferSpec, BoundedSlack

------------------------------------------------------------------------------
(* TcpOutput: every byte arrives once and in order, and none is left behind. *)

\* The sequences that a connection's bytes go through.
Streams == Seq(0 .. MaxBytes)

\* A message holds the numbers from its first byte to its last.
LEMMA NumbersHolds ==
  ASSUME NEW a \in Nat, NEW b \in 0 .. MaxBytes, a <= b + 1
  PROVE  /\ Numbers(a, b) \in Streams
         /\ Len(Numbers(a, b)) = b - a + 1
         /\ \A k \in 1 .. b - a + 1 : Numbers(a, b)[k] = a + k - 1
<1>1. b - a + 1 \in Nat
  OBVIOUS
<1>2. \A k \in 1 .. b - a + 1 : a + k - 1 \in 0 .. MaxBytes
  BY OutputAssumption
<1>3. QED
  BY <1>1, <1>2 DEF Numbers, Streams

\* What a sequence holds.
LEMMA BytesHold ==
  ASSUME NEW s \in Streams
  PROVE  /\ Len(s) \in Nat /\ \A k \in 1 .. Len(s) : s[k] \in 0 .. MaxBytes
         /\ s # << >> => Len(s) >= 1 /\ Head(s) = s[1]
<1> DEFINE S == 0 .. MaxBytes
<1>1. s \in Seq(S)
  BY DEF Streams
<1> HIDE DEF S
<1>2. Len(s) \in Nat /\ \A k \in 1 .. Len(s) : s[k] \in S
  BY <1>1, ElementOfSeq
<1>3. s # << >> => Len(s) >= 1 /\ Head(s) = s[1]
  BY <1>1
<1>4. QED
  BY <1>2, <1>3 DEF S

\* What the two parts of a sequence hold.
LEMMA TakeHolds ==
  ASSUME NEW s \in Streams, NEW n \in 0 .. Len(s)
  PROVE  /\ Take(s, n) \in Streams /\ Len(Take(s, n)) = n
         /\ \A k \in 1 .. n : Take(s, n)[k] = s[k]
<1>1. Len(s) \in Nat /\ \A k \in 1 .. n : s[k] \in 0 .. MaxBytes
  BY BytesHold
<1>2. /\ SubSeq(s, 1, n) \in Seq(0 .. MaxBytes)
      /\ Len(SubSeq(s, 1, n)) = IF 1 <= n THEN n - 1 + 1 ELSE 0
      /\ \A k \in 1 .. n - 1 + 1 : SubSeq(s, 1, n)[k] = s[1 + k - 1]
  BY <1>1, SubSeqProperties
<1>3. QED
  BY <1>1, <1>2 DEF Take, Streams

LEMMA DropHolds ==
  ASSUME NEW s \in Streams, NEW n \in 0 .. Len(s)
  PROVE  /\ Drop(s, n) \in Streams /\ Len(Drop(s, n)) = Len(s) - n
         /\ \A k \in 1 .. Len(s) - n : Drop(s, n)[k] = s[n + k]
<1>1. Len(s) \in Nat /\ \A k \in n + 1 .. Len(s) : s[k] \in 0 .. MaxBytes
  BY BytesHold
<1>2. /\ SubSeq(s, n + 1, Len(s)) \in Seq(0 .. MaxBytes)
      /\ Len(SubSeq(s, n + 1, Len(s))) = IF n + 1 <= Len(s) THEN Len(s) - (n + 1) + 1 ELSE 0
      /\ \A k \in 1 .. Len(s) - (n + 1) + 1 : SubSeq(s, n + 1, Len(s))[k] = s[n + 1 + k - 1]
  BY <1>1, SubSeqProperties
<1>3. Drop(s, n) = SubSeq(s, n + 1, Len(s))
  BY DEF Drop
<1>4. QED
  BY <1>1, <1>2, <1>3 DEF Streams

\* One sequence behind another.
LEMMA ConcatHolds ==
  ASSUME NEW s \in Streams, NEW t \in Streams
  PROVE  /\ s \o t \in Streams /\ Len(s \o t) = Len(s) + Len(t)
         /\ \A k \in 1 .. Len(s) : (s \o t)[k] = s[k]
         /\ \A k \in 1 .. Len(t) : (s \o t)[Len(s) + k] = t[k]
         /\ \A k \in Len(s) + 1 .. Len(s) + Len(t) : (s \o t)[k] = t[k - Len(s)]
BY DEF Streams

\* The parts of TypeOK that the steps use.
LEMMA Types ==
  ASSUME TypeOK
  PROVE  /\ sent \in 0 .. MaxBytes
         /\ send_buf_ \in Streams /\ queue \in Streams /\ got \in Streams /\ unsent \in Streams
         /\ Len(send_buf_) \in Nat /\ Len(queue) \in Nat /\ Len(got) \in Nat /\ Len(unsent) \in Nat
         /\ Len(queue) <= SendQueue /\ Free \in 0 .. SendQueue
BY OutputAssumption DEF TypeOK, Streams, Free

\* A new connection.
LEMMA InitInv == Init => IInv
<1> SUFFICES ASSUME Init PROVE IInv
  OBVIOUS
<1>1. TypeOK
  <2>1. << >> \in Seq(0 .. MaxBytes) /\ Len(<< >>) <= SendQueue /\ sent \in 0 .. MaxBytes
    BY OutputAssumption DEF Init
  <2>2. QED
    BY <2>1 DEF Init, TypeOK
<1>2. EventInv /\ PlaceInv
  BY DEF Init, EventInv, PlaceInv
<1>3. QED
  BY <1>1, <1>2 DEF IInv

------------------------------------------------------------------------------
(* The steps that leave every byte where it is. *)

Still == \/ Poll \/ HandleMessage \/ NothingToRead \/ MessageHandled \/ NothingToWrite
         \/ ConnectionDestructor \/ PeerSends

LEMMA StillInv ==
  ASSUME IInv, unsent = << >> \/ PeerSends, Still
  PROVE  IInv'
<1>1. TypeOK /\ EventInv /\ PlaceInv
  BY DEF IInv
<1>2. UNCHANGED <<sent, send_buf_, queue, got, reset, unsent, listening, writable_cb>>
  BY DEF Still, Poll, HandleMessage, NothingToRead, MessageHandled, NothingToWrite,
         ConnectionDestructor, PeerSends, kernel, channel
<1>3. TypeOK'
  <2>1. {nospace', input', edge', registered'} \subseteq BOOLEAN
    BY <1>1 DEF TypeOK, Still, Poll, HandleMessage, NothingToRead, MessageHandled,
       NothingToWrite, ConnectionDestructor, PeerSends, kernel, channel
  <2>2. /\ state_' \in {"Connected", "Disconected"}
        /\ pc' \in {"poll", "read", "message", "write"}
        /\ ready' \subseteq {"IN", "OUT"}
    BY <1>1 DEF TypeOK, Still, Poll, HandleMessage, NothingToRead, MessageHandled,
       NothingToWrite, ConnectionDestructor, PeerSends, HandleClose, Mask
  <2>3. QED
    BY <1>1, <1>2, <2>1, <2>2 DEF TypeOK
<1>4. EventInv'
  <2>1. CASE Poll
    <3>1. Writable(queue)' <=> Writable(queue)
      BY <1>2 DEF Writable
    <3>2. SUFFICES ASSUME send_buf_' # << >>, unsent' = << >>, writable_cb'
                   PROVE  listening' /\ ((nospace' /\ ~Writable(queue)') \/ (pc' # "poll" /\ "OUT" \in ready'))
      BY DEF EventInv
    <3>3. listening /\ listening'
      BY <1>1, <1>2, <3>2 DEF EventInv
    <3>4. CASE Writable(queue)
      <4>1. "OUT" \in Mask
        BY <3>3, <3>4 DEF Mask
      <4>2. QED
        BY <2>1, <3>3, <4>1 DEF Poll
    <3>5. CASE ~Writable(queue)
      BY <2>1, <3>1, <3>3, <3>5 DEF Poll
    <3>6. QED
      BY <3>4, <3>5
  <2>2. CASE HandleMessage \/ NothingToRead \/ MessageHandled
    BY <1>1, <1>2, <2>2 DEF EventInv, HandleMessage, NothingToRead, MessageHandled, Writable
  <2>3. CASE NothingToWrite
    BY <1>1, <1>2, <2>3 DEF EventInv, NothingToWrite, Writable
  <2>4. CASE ConnectionDestructor \/ PeerSends
    BY <1>1, <1>2, <2>4 DEF EventInv, ConnectionDestructor, PeerSends, Writable
  <2>5. QED
    BY <2>1, <2>2, <2>3, <2>4 DEF Still
<1>5. PlaceInv'
  BY <1>1, <1>2 DEF PlaceInv
<1>6. QED
  BY <1>3, <1>4, <1>5 DEF IInv

------------------------------------------------------------------------------
(* The peer. *)

\* The first byte of the queue arrives; a queue that has room again raises the edge.
LEMMA PeerReadsInv ==
  ASSUME IInv, PeerReads
  PROVE  IInv'
<1>1. TypeOK /\ EventInv /\ PlaceInv
  BY DEF IInv
<1>2. UNCHANGED <<sent, send_buf_, reset, input, channel, state_, pc, ready, unsent>>
      /\ ~reset /\ queue # << >>
  BY DEF PeerReads
<1>3. /\ got' \in Streams /\ Len(got') = Len(got) + 1 /\ got'[Len(got) + 1] = queue[1]
      /\ \A k \in 1 .. Len(got) : got'[k] = got[k]
      /\ queue' \in Streams /\ Len(queue) >= 1 /\ Len(queue') = Len(queue) - 1
      /\ \A k \in 1 .. Len(queue') : queue'[k] = queue[k + 1]
  <2>1. got \in Streams /\ queue \in Streams
    BY <1>1, Types
  <2>2. Head(queue) = queue[1] /\ queue[1] \in 0 .. MaxBytes /\ Len(queue) \in Nat /\ Len(queue) >= 1
    BY <1>2, <2>1, BytesHold
  <2>3. /\ queue' \in Seq(0 .. MaxBytes) /\ Len(queue') = Len(queue) - 1
        /\ \A k \in 1 .. Len(queue') : queue'[k] = queue[k + 1]
    BY <1>2, <2>1, HeadTailProperties DEF PeerReads, Streams
  <2>4. got' = Append(got, queue[1])
    BY <2>2 DEF PeerReads
  <2>5. QED
    BY <2>1, <2>2, <2>3, <2>4 DEF Streams
<1>4. TypeOK'
  <2>1. Len(queue') <= SendQueue
    BY <1>1, <1>3, Types, OutputAssumption
  <2>2. nospace' \in BOOLEAN /\ edge' \in BOOLEAN
    BY <1>1 DEF PeerReads, TypeOK
  <2>3. QED
    BY <1>1, <1>2, <1>3, <2>1, <2>2 DEF TypeOK, Streams, channel
<1>5. EventInv'
  <2>1. Writable(queue)' <=> Writable(queue')
    BY <1>2 DEF Writable
  <2>2. SUFFICES ASSUME send_buf_' # << >>, unsent' = << >>, writable_cb'
                 PROVE  /\ listening'
                        /\ \/ edge'
                           \/ nospace' /\ ~Writable(queue)'
                           \/ pc' # "poll" /\ "OUT" \in ready'
    BY DEF EventInv
  <2>3. listening /\ listening'
    BY <1>1, <1>2, <2>2 DEF EventInv, channel
  <2>4. CASE edge
    BY <2>3, <2>4 DEF PeerReads
  <2>5. CASE nospace /\ ~Writable(queue')
    BY <2>1, <2>3, <2>5 DEF PeerReads
  <2>6. CASE nospace /\ Writable(queue')
    BY <2>3, <2>6 DEF PeerReads
  <2>7. CASE pc # "poll" /\ "OUT" \in ready
    BY <1>2, <2>3, <2>7
  <2>8. QED
    BY <1>1, <1>2, <2>2, <2>4, <2>5, <2>6, <2>7 DEF EventInv, channel
<1>6. PlaceInv'
  <2>1. queue[1] = Len(got) + 1 /\ Len(got) + 1 <= sent
    BY <1>1, <1>2, <1>3, Types DEF PlaceInv
  <2>2. Len(got) \in Nat /\ Len(queue) \in Nat /\ Len(send_buf_) \in Nat /\ Len(unsent) \in Nat
        /\ sent \in Nat
    BY <1>1, Types
  <2>3. Len(got') <= sent' /\ \A k \in 1 .. Len(got') : got'[k] = k
    <3>1. \A k \in 1 .. Len(got) : got'[k] = k
      BY <1>1, <1>3 DEF PlaceInv
    <3>2. got'[Len(got) + 1] = Len(got) + 1
      BY <1>3, <2>1
    <3>3. QED
      BY <1>2, <1>3, <2>1, <2>2, <3>1, <3>2
  <2>4. \A k \in 1 .. Len(queue') : queue'[k] = Len(got') + k
    BY <1>1, <1>2, <1>3, <2>2 DEF PlaceInv
  <2>5. Len(got') + Len(queue') = Len(got) + Len(queue)
    BY <1>3, <2>2
  <2>6. QED
    BY <1>1, <1>2, <2>3, <2>4, <2>5 DEF PlaceInv
<1>7. QED
  BY <1>4, <1>5, <1>6 DEF IInv

LEMMA PeerResetsInv ==
  ASSUME IInv, PeerResets
  PROVE  IInv'
<1>1. TypeOK /\ EventInv /\ PlaceInv
  BY DEF IInv
<1>2. TypeOK'
  BY <1>1, OutputAssumption DEF TypeOK, PeerResets, channel
<1>3. EventInv'
  BY <1>1 DEF EventInv, PeerResets, channel
<1>4. PlaceInv'
  BY <1>1 DEF PlaceInv, PeerResets
<1>5. QED
  BY <1>2, <1>3, <1>4 DEF IInv

------------------------------------------------------------------------------
(* The writes of the loop. *)

\* WriteNonBlocking moves the front of send_buf_; what stays finds the queue full.
LEMMA HandleWriteInv ==
  ASSUME IInv, unsent = << >>, HandleWrite
  PROVE  IInv'
<1>1. TypeOK /\ EventInv /\ PlaceInv
  BY DEF IInv
<1>2. PICK n : n = Smaller(Free, Len(send_buf_))
  OBVIOUS
<1>3. /\ UNCHANGED <<sent, got, reset, input, edge, channel, state_, ready, unsent>>
      /\ ~reset /\ pc' = "poll" /\ send_buf_ # << >>
      /\ queue' = queue \o Take(send_buf_, n) /\ send_buf_' = Drop(send_buf_, n)
      /\ nospace' = (nospace \/ n < Len(send_buf_))
  BY <1>2 DEF HandleWrite
<1>4. n \in 0 .. Len(send_buf_) /\ n <= Free /\ (n < Len(send_buf_) => n = Free)
  BY <1>1, <1>2, Types DEF Smaller
<1>5. /\ queue \in Streams /\ send_buf_ \in Streams
      /\ Len(queue) \in Nat /\ Len(send_buf_) \in Nat /\ Len(got) \in Nat /\ Len(unsent) \in Nat
      /\ sent \in Nat
  BY <1>1, Types
<1>6. /\ send_buf_' \in Streams /\ Len(send_buf_') = Len(send_buf_) - n
      /\ \A k \in 1 .. Len(send_buf_) - n : send_buf_'[k] = send_buf_[n + k]
  BY <1>3, <1>4, <1>5, DropHolds
<1>7. PICK front \in Streams :
        /\ front = Take(send_buf_, n) /\ Len(front) = n
        /\ \A k \in 1 .. n : front[k] = send_buf_[k]
  BY <1>4, <1>5, TakeHolds
<1>8. /\ queue' \in Streams /\ Len(queue') = Len(queue) + n
      /\ \A k \in 1 .. Len(queue) : queue'[k] = queue[k]
      /\ \A k \in Len(queue) + 1 .. Len(queue) + n :
           queue'[k] = front[k - Len(queue)]
  <2>1. queue' = queue \o front
    BY <1>3, <1>7
  <2>2. /\ queue \o front \in Streams /\ Len(queue \o front) = Len(queue) + Len(front)
        /\ \A k \in 1 .. Len(queue) : (queue \o front)[k] = queue[k]
        /\ \A k \in Len(queue) + 1 .. Len(queue) + Len(front) :
             (queue \o front)[k] = front[k - Len(queue)]
    BY <1>5, ConcatHolds, Zenon
  <2>3. Len(front) = n
    BY <1>7
  <2>4. QED
    BY <2>1, <2>2, <2>3, Zenon
<1>9. TypeOK'
  <2>1. Len(queue') <= SendQueue
    BY <1>4, <1>5, <1>8, OutputAssumption DEF Free
  <2>2. nospace' \in BOOLEAN
    BY <1>1, <1>3 DEF TypeOK
  <2>3. QED
    BY <1>1, <1>3, <1>6, <1>8, <2>1, <2>2 DEF TypeOK, Streams, channel
<1>10. EventInv'
  <2>1. SUFFICES ASSUME send_buf_' # << >>
                 PROVE  listening' => nospace' /\ ~Writable(queue)'
    <3>1. writable_cb' => listening'
      BY <1>1, <1>3 DEF EventInv, channel
    <3>2. QED
      BY <2>1, <3>1 DEF EventInv
  <2>2. n < Len(send_buf_)
    BY <1>4, <1>5, <1>6, <2>1 DEF Streams
  <2>3. Len(queue') = SendQueue
    BY <1>4, <1>5, <1>8, <2>2, OutputAssumption DEF Free
  <2>4. ~Writable(queue)'
    BY <1>3, <2>3, OutputAssumption DEF Writable
  <2>5. QED
    BY <1>3, <2>2, <2>4
<1>11. PlaceInv'
  <2>1. /\ \A k \in 1 .. Len(queue) : queue[k] = Len(got) + k
        /\ \A k \in 1 .. Len(send_buf_) : send_buf_[k] = Len(got) + Len(queue) + k
        /\ Len(got) + Len(queue) + Len(send_buf_) + Len(unsent) = sent
    BY <1>1, <1>3 DEF PlaceInv
  <2>2. \A k \in 1 .. Len(queue') : queue'[k] = Len(got) + k
    <3>1. ASSUME NEW k \in 1 .. Len(queue'), k > Len(queue)
          PROVE  queue'[k] = Len(got) + k
      <4>1. k - Len(queue) \in 1 .. n /\ k - Len(queue) \in 1 .. Len(send_buf_)
        BY <1>4, <1>5, <1>8, <3>1
      <4>2. queue'[k] = send_buf_[k - Len(queue)]
        BY <1>5, <1>7, <1>8, <3>1, <4>1
      <4>3. QED
        BY <1>5, <2>1, <4>1, <4>2
    <3>2. QED
      BY <1>5, <1>8, <2>1, <3>1
  <2>3. \A k \in 1 .. Len(send_buf_') : send_buf_'[k] = Len(got) + Len(queue') + k
    BY <1>4, <1>5, <1>6, <1>8, <2>1
  <2>4. Len(got) + Len(queue') + Len(send_buf_') + Len(unsent) = sent
    <3>1. Len(queue') + Len(send_buf_') = Len(queue) + Len(send_buf_)
      BY <1>4, <1>5, <1>6, <1>8
    <3>2. Len(queue') \in Nat /\ Len(send_buf_') \in Nat
      BY <1>4, <1>5, <1>6, <1>8
    <3>3. Len(got) + Len(queue) + Len(send_buf_) + Len(unsent) = sent
      BY <2>1
    <3>4. QED
      BY <1>5, <3>1, <3>2, <3>3
  <2>5. unsent' = << >>
    BY <1>3
  <2>6. QED
    BY <1>1, <1>3, <2>2, <2>3, <2>4, <2>5 DEF PlaceInv
<1>12. QED
  BY <1>9, <1>10, <1>11 DEF IInv

\* A failed write leaves the wrong bytes, and nobody to write them.
LEMMA WriteFailsInv ==
  ASSUME IInv, WriteFails
  PROVE  IInv'
<1>1. TypeOK /\ PlaceInv
  BY DEF IInv
<1>2. send_buf_' \in Streams
  <2>1. send_buf_ \in Streams /\ <<0>> \in Streams
    BY <1>1, Types, OutputAssumption DEF Streams
  <2>2. QED
    BY <2>1, ConcatHolds DEF WriteFails
<1>3. TypeOK'
  BY <1>1, <1>2 DEF TypeOK, WriteFails, HandleClose, Streams, kernel
<1>4. EventInv' /\ PlaceInv'
  BY <1>1 DEF EventInv, PlaceInv, WriteFails, kernel
<1>5. QED
  BY <1>3, <1>4 DEF IInv

------------------------------------------------------------------------------
(* Send. *)

\* What write takes goes behind the queue, the rest becomes unsent.
LEMMA SendNowInv ==
  ASSUME IInv, unsent = << >>, NEW n \in 1 .. MaxSend, SendNow(n)
  PROVE  IInv'
<1>1. TypeOK /\ PlaceInv
  BY DEF IInv
<1>2. PICK k : k = Smaller(Free, n)
  OBVIOUS
<1>3. PICK now : now = Numbers(sent + 1, sent + k)
  OBVIOUS
<1>4. /\ UNCHANGED <<send_buf_, got, reset, input, edge, channel, state_, pc, ready>>
      /\ ~reset /\ send_buf_ = << >> /\ sent' = sent + n /\ sent + n <= MaxBytes
      /\ queue' = queue \o now /\ unsent' = Numbers(sent + k + 1, sent + n)
      /\ nospace' = (nospace \/ k < n)
  BY <1>2, <1>3 DEF SendNow, Sends
<1>5. /\ queue \in Streams /\ Len(queue) \in Nat /\ Len(got) \in Nat /\ sent \in Nat
      /\ Len(send_buf_) = 0 /\ Len(unsent) = 0
  BY <1>1, <1>4, Types
<1>6. k \in 0 .. n /\ k <= Free /\ n \in Nat
  BY <1>1, <1>2, Types, OutputAssumption DEF Smaller
<1>7. sent + 1 \in Nat /\ sent + k \in 0 .. MaxBytes /\ sent + 1 <= sent + k + 1
      /\ sent + k + 1 \in Nat /\ sent + n \in 0 .. MaxBytes /\ sent + k + 1 <= sent + n + 1
  BY <1>4, <1>5, <1>6, OutputAssumption
<1>8. /\ now \in Streams /\ Len(now) = k
      /\ \A j \in 1 .. k : now[j] = sent + j
  <2>1. (sent + k) - (sent + 1) + 1 = k /\ \A j \in 1 .. k : (sent + 1) + j - 1 = sent + j
    BY <1>5, <1>6
  <2>2. /\ now \in Streams /\ Len(now) = (sent + k) - (sent + 1) + 1
        /\ \A j \in 1 .. (sent + k) - (sent + 1) + 1 : now[j] = (sent + 1) + j - 1
    BY <1>3, <1>7, NumbersHolds
  <2>3. QED
    BY <2>1, <2>2
<1>9. /\ unsent' \in Streams /\ Len(unsent') = n - k
      /\ \A j \in 1 .. n - k : unsent'[j] = sent + k + j
  <2>1. (sent + n) - (sent + k + 1) + 1 = n - k
        /\ \A j \in 1 .. n - k : (sent + k + 1) + j - 1 = sent + k + j
    BY <1>5, <1>6
  <2>2. /\ unsent' \in Streams /\ Len(unsent') = (sent + n) - (sent + k + 1) + 1
        /\ \A j \in 1 .. (sent + n) - (sent + k + 1) + 1 :
             unsent'[j] = (sent + k + 1) + j - 1
    BY <1>4, <1>7, NumbersHolds
  <2>3. QED
    BY <2>1, <2>2
<1>10. /\ queue' \in Streams /\ Len(queue') = Len(queue) + k
       /\ \A j \in 1 .. Len(queue) : queue'[j] = queue[j]
       /\ \A j \in Len(queue) + 1 .. Len(queue) + k : queue'[j] = now[j - Len(queue)]
  <2>1. queue' = queue \o now /\ Len(now) = k
    BY <1>4, <1>8
  <2>2. /\ queue \o now \in Streams /\ Len(queue \o now) = Len(queue) + Len(now)
        /\ \A j \in 1 .. Len(queue) : (queue \o now)[j] = queue[j]
        /\ \A j \in Len(queue) + 1 .. Len(queue) + Len(now) :
             (queue \o now)[j] = now[j - Len(queue)]
    BY <1>5, <1>8, ConcatHolds, Zenon
  <2>3. QED
    BY <2>1, <2>2, Zenon
<1>11. TypeOK'
  <2>1. Len(queue') <= SendQueue
    BY <1>5, <1>6, <1>10, OutputAssumption DEF Free
  <2>2. sent' \in 0 .. MaxBytes
    BY <1>4, <1>7
  <2>3. nospace' \in BOOLEAN
    BY <1>1, <1>4 DEF TypeOK
  <2>4. QED
    BY <1>1, <1>4, <1>9, <1>10, <2>1, <2>2, <2>3 DEF TypeOK, Streams, channel
<1>12. EventInv'
  BY <1>4 DEF EventInv
<1>13. PlaceInv'
  <2>1. Len(got) + Len(queue) = sent
    BY <1>1, <1>4, <1>5 DEF PlaceInv
  <2>2. \A j \in 1 .. Len(queue) : queue[j] = Len(got) + j
    BY <1>1, <1>4 DEF PlaceInv
  <2>3. \A j \in 1 .. Len(queue') : queue'[j] = Len(got) + j
    <3>1. ASSUME NEW j \in 1 .. Len(queue'), j > Len(queue)
          PROVE  queue'[j] = Len(got) + j
      <4>1. j - Len(queue) \in 1 .. k /\ j \in Len(queue) + 1 .. Len(queue) + k
        BY <1>5, <1>6, <1>10, <3>1
      <4>2. queue'[j] = sent + (j - Len(queue))
        BY <1>8, <1>10, <4>1
      <4>3. QED
        BY <1>5, <2>1, <4>2, <3>1
    <3>2. QED
      BY <1>5, <1>10, <2>2, <3>1
  <2>4. \A j \in 1 .. Len(unsent') : unsent'[j] = Len(got) + Len(queue') + 0 + j
    <3>1. Len(got) + Len(queue') = sent + k /\ Len(queue') \in Nat
      BY <1>5, <1>6, <1>10, <2>1, SMTT(60)
    <3>2. ASSUME NEW j \in 1 .. Len(unsent')
          PROVE  unsent'[j] = Len(got) + Len(queue') + 0 + j
      <4>1. j \in 1 .. n - k /\ j \in Nat
        BY <1>9
      <4>2. unsent'[j] = sent + k + j
        BY <1>9, <4>1
      <4>3. QED
        BY <1>5, <1>6, <3>1, <4>1, <4>2
    <3>3. QED
      BY <3>2
  <2>5. Len(got) + Len(queue') + 0 + Len(unsent') = sent'
    BY <1>4, <1>5, <1>6, <1>9, <1>10, <2>1, SMTT(60)
  <2>6. Len(got') <= sent' /\ \A j \in 1 .. Len(got') : got'[j] = j
    BY <1>1, <1>4, <1>5, <1>6 DEF PlaceInv
  <2>7. send_buf_' = << >> /\ Len(send_buf_') = 0 /\ got' = got
    BY <1>4, <1>5
  <2>8. QED
    BY <2>3, <2>4, <2>5, <2>6, <2>7 DEF PlaceInv
<1>14. QED
  BY <1>11, <1>12, <1>13 DEF IInv

\* Older bytes wait: the whole message becomes unsent.
LEMMA SendLaterInv ==
  ASSUME IInv, unsent = << >>, NEW n \in 1 .. MaxSend, SendLater(n)
  PROVE  IInv'
<1>1. TypeOK /\ PlaceInv
  BY DEF IInv
<1>2. /\ UNCHANGED <<send_buf_, kernel, nospace, input, edge, channel, state_, pc, ready>>
      /\ sent' = sent + n /\ sent + n <= MaxBytes
      /\ unsent' = Numbers(sent + 1, sent + n)
  BY DEF SendLater, Sends
<1>3. /\ Len(queue) \in Nat /\ Len(got) \in Nat /\ Len(send_buf_) \in Nat /\ sent \in Nat
      /\ Len(unsent) = 0 /\ n \in Nat /\ n >= 1
  BY <1>1, Types, OutputAssumption
<1>4. /\ unsent' \in Streams /\ Len(unsent') = n
      /\ \A j \in 1 .. n : unsent'[j] = sent + j
  <2>1. sent + 1 \in Nat /\ sent + n \in 0 .. MaxBytes /\ sent + 1 <= sent + n + 1
    BY <1>2, <1>3, OutputAssumption
  <2>2. (sent + n) - (sent + 1) + 1 = n /\ \A j \in 1 .. n : (sent + 1) + j - 1 = sent + j
    BY <1>3
  <2>3. /\ unsent' \in Streams /\ Len(unsent') = (sent + n) - (sent + 1) + 1
        /\ \A j \in 1 .. (sent + n) - (sent + 1) + 1 : unsent'[j] = (sent + 1) + j - 1
    BY <1>2, <2>1, NumbersHolds
  <2>4. QED
    BY <2>2, <2>3
<1>5. TypeOK'
  <2>1. sent' \in 0 .. MaxBytes
    BY <1>2, <1>3, OutputAssumption
  <2>2. QED
    BY <1>1, <1>2, <1>4, <2>1 DEF TypeOK, Streams, channel, kernel
<1>6. EventInv'
  BY <1>3, <1>4 DEF EventInv
<1>7. PlaceInv'
  <2>1. Len(got') <= sent' /\ \A j \in 1 .. Len(got') : got'[j] = j
    BY <1>1, <1>2, <1>3 DEF PlaceInv, kernel
  <2>2. SUFFICES ASSUME ~reset
                 PROVE  /\ \A j \in 1 .. Len(unsent') :
                             unsent'[j] = Len(got) + Len(queue) + Len(send_buf_) + j
                        /\ Len(got) + Len(queue) + Len(send_buf_) + Len(unsent') = sent'
    BY <1>1, <1>2, <2>1 DEF PlaceInv, kernel
  <2>3. Len(got) + Len(queue) + Len(send_buf_) = sent
    BY <1>1, <1>3, <2>2 DEF PlaceInv
  <2>4. QED
    BY <1>2, <1>3, <1>4, <2>3
<1>8. QED
  BY <1>5, <1>6, <1>7 DEF IInv

\* After a failed write nobody waits for an event.
LEMMA SendFailsInv ==
  ASSUME IInv, NEW n \in 1 .. MaxSend, SendFails(n)
  PROVE  IInv'
<1>1. TypeOK /\ PlaceInv
  BY DEF IInv
<1>2. sent \in Nat /\ n \in Nat /\ Len(got) \in Nat
  BY <1>1, Types, OutputAssumption
<1>3. sent' \in 0 .. MaxBytes /\ sent' >= sent
  BY <1>2, OutputAssumption DEF SendFails, Sends
<1>4. TypeOK'
  BY <1>1, <1>3 DEF TypeOK, SendFails, HandleClose, kernel
<1>5. EventInv' /\ PlaceInv'
  BY <1>1, <1>2, <1>3 DEF EventInv, PlaceInv, SendFails, kernel
<1>6. QED
  BY <1>4, <1>5 DEF IInv

\* Append and EnableWrite: whatever the socket does, the bytes have their event.
LEMMA EnqueueInv ==
  ASSUME IInv, Enqueue
  PROVE  IInv'
<1>1. TypeOK /\ PlaceInv
  BY DEF IInv
<1>2. /\ UNCHANGED <<sent, kernel, input, writable_cb, registered, state_, pc, ready>>
      /\ send_buf_' = send_buf_ \o unsent /\ unsent' = << >> /\ listening' = TRUE
      /\ edge' = (edge \/ input \/ reset \/ Writable(queue))
      /\ nospace' = (nospace \/ ~Writable(queue))
  BY DEF Enqueue, Update
<1>3. /\ send_buf_ \in Streams /\ unsent \in Streams /\ Len(send_buf_) \in Nat /\ Len(unsent) \in Nat
      /\ Len(queue) \in Nat /\ Len(got) \in Nat /\ sent \in Nat
  BY <1>1, Types
<1>4. /\ send_buf_' \in Streams /\ Len(send_buf_') = Len(send_buf_) + Len(unsent)
      /\ \A j \in 1 .. Len(send_buf_) : send_buf_'[j] = send_buf_[j]
      /\ \A j \in Len(send_buf_) + 1 .. Len(send_buf_) + Len(unsent) :
           send_buf_'[j] = unsent[j - Len(send_buf_)]
  BY <1>2, <1>3, ConcatHolds, Zenon
<1>5. TypeOK'
  <2>1. edge' \in BOOLEAN /\ nospace' \in BOOLEAN
    BY <1>2
  <2>2. << >> \in Seq(0 .. MaxBytes)
    OBVIOUS
  <2>3. QED
    BY <1>1, <1>2, <1>4, <2>1, <2>2 DEF TypeOK, Streams, kernel
<1>6. EventInv'
  <2>1. Writable(queue)' <=> Writable(queue)
    BY <1>2 DEF Writable, kernel
  <2>2. edge' \/ (nospace' /\ ~Writable(queue)')
    BY <1>2, <2>1
  <2>3. QED
    BY <1>2, <2>2 DEF EventInv
<1>7. PlaceInv'
  <2>1. Len(got') <= sent' /\ \A j \in 1 .. Len(got') : got'[j] = j
    BY <1>1, <1>2 DEF PlaceInv, kernel
  <2>2. ASSUME ~reset
        PROVE  /\ \A j \in 1 .. Len(send_buf_') : send_buf_'[j] = Len(got) + Len(queue) + j
               /\ Len(got) + Len(queue) + Len(send_buf_') + 0 = sent
    <3>1. /\ \A j \in 1 .. Len(send_buf_) : send_buf_[j] = Len(got) + Len(queue) + j
          /\ \A j \in 1 .. Len(unsent) :
               unsent[j] = Len(got) + Len(queue) + Len(send_buf_) + j
      BY <1>1, <2>2 DEF PlaceInv
    <3>2. Len(got) + Len(queue) + Len(send_buf_) + Len(unsent) = sent
      BY <1>1, <2>2 DEF PlaceInv
    <3>3. ASSUME NEW j \in 1 .. Len(send_buf_'), j > Len(send_buf_)
          PROVE  send_buf_'[j] = Len(got) + Len(queue) + j
      <4>1. j - Len(send_buf_) \in 1 .. Len(unsent)
            /\ j \in Len(send_buf_) + 1 .. Len(send_buf_) + Len(unsent)
        BY <1>3, <1>4, <3>3
      <4>2. send_buf_'[j] = Len(got) + Len(queue) + Len(send_buf_) + (j - Len(send_buf_))
        BY <1>4, <3>1, <4>1
      <4>3. QED
        BY <1>3, <3>3, <4>2
    <3>4. \A j \in 1 .. Len(send_buf_') : send_buf_'[j] = Len(got) + Len(queue) + j
      <4>1. ASSUME NEW j \in 1 .. Len(send_buf_'), ~(j > Len(send_buf_))
            PROVE  send_buf_'[j] = Len(got) + Len(queue) + j
        <5>1. j \in 1 .. Len(send_buf_)
          BY <1>3, <4>1
        <5>2. QED
          BY <1>4, <3>1, <5>1
      <4>2. QED
        BY <3>3, <4>1
    <3>5. Len(got) + Len(queue) + Len(send_buf_') + 0 = sent
      BY <1>3, <1>4, <3>2
    <3>6. QED
      BY <3>4, <3>5
  <2>3. \A j \in 1 .. Len(queue) : ~reset => queue[j] = Len(got) + j
    BY <1>1 DEF PlaceInv
  <2>4. QED
    BY <1>2, <2>1, <2>2, <2>3 DEF PlaceInv, kernel
<1>8. QED
  BY <1>5, <1>6, <1>7 DEF IInv

------------------------------------------------------------------------------
(* The results. *)

LEMMA NextInv ==
  ASSUME IInv, [Next]_vars
  PROVE  IInv'
<1>1. CASE Loop
  <2>1. CASE Enqueue
    BY <2>1, EnqueueInv
  <2>2. CASE unsent = << >> /\ Dispatch
    BY <2>2, StillInv, HandleWriteInv, WriteFailsInv DEF Dispatch, Still
  <2>3. QED
    BY <1>1, <2>1, <2>2 DEF Loop
<1>2. CASE Application
  BY <1>2, SendNowInv, SendLaterInv, SendFailsInv DEF Application, Send
<1>3. CASE Peer
  <2>1. CASE PeerSends
    BY <2>1, StillInv DEF Still
  <2>2. QED
    BY <1>3, <2>1, PeerReadsInv, PeerResetsInv DEF Peer
<1>4. CASE UNCHANGED vars
  <2>1. UNCHANGED <<sent, send_buf_, queue, got, reset, nospace, input, edge, listening,
                    writable_cb, registered, state_, pc, ready, unsent>>
    BY <1>4 DEF vars, kernel, channel
  <2>2. Writable(queue)' <=> Writable(queue)
    BY <2>1 DEF Writable
  <2>3. TypeOK' /\ PlaceInv'
    BY <2>1 DEF IInv, TypeOK, PlaceInv
  <2>4. EventInv'
    BY <2>1, <2>2 DEF IInv, EventInv
  <2>5. QED
    BY <2>3, <2>4 DEF IInv
<1>5. QED
  BY <1>1, <1>2, <1>3, <1>4 DEF Next

\* The variables have their types, and the socket's queue its bound.
THEOREM TypeCorrect == Spec => []TypeOK
<1>1. IInv => TypeOK
  BY DEF IInv
<1>2. QED
  BY InitInv, NextInv, <1>1, PTL DEF Spec

\* Streams in send_buf_ never wait for an edge that will not come, whatever the size
\* of the socket's queue, the mark and the messages.
THEOREM NothingStalls == Spec => []NoStall
<1>1. IInv => NoStall
  BY DEF IInv, EventInv, NoStall
<1>2. QED
  BY InitInv, NextInv, <1>1, PTL DEF Spec

\* A sequence that counts from 1, with another behind it that goes on counting.
LEMMA CountsOn ==
  ASSUME NEW s \in Streams, \A k \in 1 .. Len(s) : s[k] = k,
         NEW t \in Streams, \A k \in 1 .. Len(t) : t[k] = Len(s) + k
  PROVE  /\ s \o t \in Streams /\ Len(s \o t) = Len(s) + Len(t)
         /\ \A k \in 1 .. Len(s \o t) : (s \o t)[k] = k
<1>1. Len(s) \in Nat /\ Len(t) \in Nat
  BY BytesHold
<1>2. /\ s \o t \in Streams /\ Len(s \o t) = Len(s) + Len(t)
      /\ \A k \in 1 .. Len(s) : (s \o t)[k] = s[k]
      /\ \A k \in Len(s) + 1 .. Len(s) + Len(t) : (s \o t)[k] = t[k - Len(s)]
  BY ConcatHolds, Zenon
<1>3. ASSUME NEW k \in 1 .. Len(s \o t)
      PROVE  (s \o t)[k] = k
  <2>1. CASE k <= Len(s)
    <3>1. k \in 1 .. Len(s)
      BY <1>1, <1>2, <2>1
    <3>2. QED
      BY <1>2, <3>1
  <2>2. CASE k > Len(s)
    <3>1. k - Len(s) \in 1 .. Len(t) /\ k \in Len(s) + 1 .. Len(s) + Len(t) /\ k \in Nat
      BY <1>1, <1>2, <2>2
    <3>2. t[k - Len(s)] = Len(s) + (k - Len(s))
      BY <3>1
    <3>3. QED
      BY <1>1, <1>2, <3>1, <3>2
  <2>3. QED
    BY <1>1, <1>2, <2>1, <2>2
<1>4. QED
  BY <1>2, <1>3

\* A sequence that counts from 1 is the numbers up to its length.
LEMMA CountsFromOne ==
  ASSUME NEW s \in Streams, \A k \in 1 .. Len(s) : s[k] = k
  PROVE  s = Numbers(1, Len(s))
<1>1. Len(s) \in Nat
  BY BytesHold
<1>2. s = [k \in 1 .. Len(s) |-> s[k]]
  BY DEF Streams
<1>3. Len(s) - 1 + 1 = Len(s) /\ \A k \in 1 .. Len(s) : 1 + k - 1 = k
  BY <1>1
<1>4. [k \in 1 .. Len(s) - 1 + 1 |-> 1 + k - 1] = [k \in 1 .. Len(s) |-> k]
  BY <1>3
<1>5. [k \in 1 .. Len(s) |-> s[k]] = [k \in 1 .. Len(s) |-> k]
  OBVIOUS
<1>6. QED
  BY <1>2, <1>4, <1>5 DEF Numbers

\* The bytes' places say that they are in order.
LEMMA InvIsInOrder == IInv => InOrder
<1> SUFFICES ASSUME IInv PROVE InOrder
  OBVIOUS
<1>1. TypeOK /\ PlaceInv
  BY DEF IInv
<1>2. /\ got \in Streams /\ queue \in Streams /\ send_buf_ \in Streams /\ unsent \in Streams
      /\ Len(got) \in Nat /\ Len(queue) \in Nat /\ Len(send_buf_) \in Nat /\ Len(unsent) \in Nat
      /\ sent \in 0 .. MaxBytes
  BY <1>1, Types
<1>3. Len(got) <= sent /\ \A k \in 1 .. Len(got) : got[k] = k
  BY <1>1 DEF PlaceInv
<1>4. IsPrefix(got, Numbers(1, sent))
  <2>1. /\ Numbers(1, sent) \in Streams /\ Len(Numbers(1, sent)) = sent
        /\ \A k \in 1 .. sent : Numbers(1, sent)[k] = k
    <3>1. sent - 1 + 1 = sent /\ 1 <= sent + 1 /\ \A k \in 1 .. sent : 1 + k - 1 = k
      BY <1>2, OutputAssumption
    <3>2. /\ Numbers(1, sent) \in Streams /\ Len(Numbers(1, sent)) = sent - 1 + 1
          /\ \A k \in 1 .. sent - 1 + 1 : Numbers(1, sent)[k] = 1 + k - 1
      BY <1>2, <3>1, NumbersHolds
    <3>3. QED
      BY <3>1, <3>2
  <2>2. PICK all \in Streams : all = Numbers(1, sent)
    BY <2>1
  <2>3. Len(got) \in 0 .. Len(all) /\ Len(got) \in 0 .. Len(got)
    BY <1>2, <1>3, <2>1, <2>2, OutputAssumption
  <2>4. /\ Take(all, Len(got)) \in Streams /\ Len(Take(all, Len(got))) = Len(got)
        /\ \A k \in 1 .. Len(got) : Take(all, Len(got))[k] = all[k]
    BY <2>3, TakeHolds
  <2>5. /\ Take(got, Len(got)) \in Streams /\ Len(Take(got, Len(got))) = Len(got)
        /\ \A k \in 1 .. Len(got) : Take(got, Len(got))[k] = got[k]
    BY <1>2, <2>3, TakeHolds
  <2>6. \A k \in 1 .. Len(got) : k \in 1 .. sent /\ all[k] = k
    BY <1>2, <1>3, <2>1, <2>2, OutputAssumption
  <2>7. Take(got, Len(got)) = Take(all, Len(got))
    <3>1. PICK s \in Streams : s = Take(all, Len(got))
      BY <2>4
    <3>2. PICK t \in Streams : t = Take(got, Len(got))
      BY <2>5
    <3>3. Len(s) = Len(got) /\ \A k \in 1 .. Len(s) : s[k] = k
      BY <2>4, <2>6, <3>1
    <3>4. Len(t) = Len(got) /\ \A k \in 1 .. Len(t) : t[k] = k
      BY <1>3, <2>5, <3>2
    <3>5. s = Numbers(1, Len(got)) /\ t = Numbers(1, Len(got))
      BY <3>3, <3>4, CountsFromOne
    <3>6. QED
      BY <3>1, <3>2, <3>5
  <2>8. SubSeq(got, 1, Len(got)) = SubSeq(all, 1, Len(got))
    BY <2>7 DEF Take
  <2>9. QED
    BY <1>3, <2>1, <2>2, <2>8 DEF IsPrefix
<1>5. ASSUME ~reset
      PROVE  got \o queue \o send_buf_ \o unsent = Numbers(1, sent)
  <2>1. /\ \A k \in 1 .. Len(queue) : queue[k] = Len(got) + k
        /\ \A k \in 1 .. Len(send_buf_) : send_buf_[k] = Len(got) + Len(queue) + k
        /\ \A k \in 1 .. Len(unsent) :
             unsent[k] = Len(got) + Len(queue) + Len(send_buf_) + k
    BY <1>1, <1>5 DEF PlaceInv
  <2>2. Len(got) + Len(queue) + Len(send_buf_) + Len(unsent) = sent
    BY <1>1, <1>5 DEF PlaceInv
  <2>3. PICK q \in Streams : /\ q = got \o queue /\ Len(q) = Len(got) + Len(queue)
                           /\ \A k \in 1 .. Len(q) : q[k] = k
    BY <1>2, <1>3, <2>1, CountsOn
  <2>4. \A k \in 1 .. Len(send_buf_) : send_buf_[k] = Len(q) + k
    BY <2>1, <2>3
  <2>5. PICK b \in Streams : /\ b = q \o send_buf_ /\ Len(b) = Len(q) + Len(send_buf_)
                           /\ \A k \in 1 .. Len(b) : b[k] = k
    BY <1>2, <2>3, <2>4, CountsOn
  <2>6. \A k \in 1 .. Len(unsent) : unsent[k] = Len(b) + k
    BY <2>1, <2>3, <2>5
  <2>7. PICK u \in Streams : /\ u = b \o unsent /\ Len(u) = Len(b) + Len(unsent)
                           /\ \A k \in 1 .. Len(u) : u[k] = k
    BY <1>2, <2>5, <2>6, CountsOn
  <2>8. Len(u) = sent
    BY <1>2, <2>2, <2>3, <2>5, <2>7
  <2>9. u = Numbers(1, Len(u))
    BY <2>7, CountsFromOne
  <2>10. u = got \o queue \o send_buf_ \o unsent
    BY <2>3, <2>5, <2>7
  <2>11. QED
    BY <2>8, <2>9, <2>10
<1>6. QED
  BY <1>4, <1>5 DEF InOrder

\* Nothing that Send was given is lost, repeated or overtaken on its way to the
\* peer, short writes, full queues and edges as they may come.
THEOREM BytesInOrder == Spec => []InOrder
BY InitInv, NextInv, InvIsInOrder, PTL DEF Spec
===============================================================================
