------------------------------ MODULE StreamProofs ------------------------------
(***************************************************************************)
(* Proofs about two streams that are put together from parts, by induction  *)
(* over sequences: what AsyncLogging writes to its files is what it was      *)
(* given, for any sizes of buffers and messages; and what HttpContext takes  *)
(* out of a request is what the client put in, for any requests.             *)
(***************************************************************************)
EXTENDS AsyncLogging, HttpServer, SequenceTheorems, WellFoundedInduction, TLAPS

------------------------------------------------------------------------------
(* Induction, from the well-foundedness of < on Nat. *)

\* Every nonempty set of numbers has a smallest one.
LEMMA LeastNumber ==
  ASSUME NEW T \in SUBSET Nat, T # {}
  PROVE  \E m \in T : \A k \in T : m <= k
<1> DEFINE Less == {ss \in Nat \X Nat : ss[1] < ss[2]}
<1>1. IsWellFoundedOn(Less, Nat)
  BY NatLessThanWellFounded DEF OpToRel
<1>2. \A i, j \in Nat : i < j => <<i, j>> \in Less
  OBVIOUS
<1> HIDE DEF Less
<1>3. PICK m \in T : \A k \in T : ~ (<<k, m>> \in Less)
  BY <1>1, WFMin
<1>4. ASSUME NEW k \in T
      PROVE  m <= k
  <2>1. k \in Nat /\ m \in Nat /\ ~(<<k, m>> \in Less)
    BY <1>3
  <2>2. ~(k < m)
    BY <1>2, <2>1
  <2>3. QED
    BY <2>1, <2>2
<1>5. QED
  BY <1>4

\* Induction, for a set of numbers.
LEMMA AllNumbers ==
  ASSUME NEW T \in SUBSET Nat, 0 \in T, \A n \in T : n + 1 \in T
  PROVE  T = Nat
<1>1. SUFFICES ASSUME Nat \ T # {}
               PROVE  FALSE
  OBVIOUS
<1>2. PICK m \in Nat \ T : \A k \in Nat \ T : m <= k
  BY <1>1, LeastNumber
<1>3. m - 1 \in Nat /\ m - 1 \in T
  BY <1>2
<1>4. QED
  BY <1>2, <1>3

------------------------------------------------------------------------------
(* FlattenSeq, by its recursive definition. *)

\* f puts the first n sequences of s together.
Flattens(f, s, n) ==
  f = [i \in 1 .. n |-> IF i = 1 THEN s[i] ELSE f[i - 1] \o s[i]]

\* There is such a function for every n.
LEMMA FlatteningExists ==
  ASSUME NEW s
  PROVE  \A n \in Nat : \E f : Flattens(f, s, n)
<1> DEFINE T == {n \in Nat : \E f : Flattens(f, s, n)}
<1>1. Flattens([i \in 1 .. 0 |-> 0], s, 0)
  BY DEF Flattens
<1>2. ASSUME NEW n \in T
      PROVE  n + 1 \in T
  <2>1. PICK f : Flattens(f, s, n)
    OBVIOUS
  <2> DEFINE g == [i \in 1 .. n + 1 |->
                     IF i = n + 1 THEN (IF i = 1 THEN s[i] ELSE f[n] \o s[i]) ELSE f[i]]
  <2>2. \A i \in 1 .. n : f[i] = IF i = 1 THEN s[i] ELSE f[i - 1] \o s[i]
    BY <2>1 DEF Flattens
  <2>3. ASSUME NEW i \in 1 .. n + 1
        PROVE  g[i] = IF i = 1 THEN s[i] ELSE g[i - 1] \o s[i]
    BY <2>2
  <2>4. Flattens(g, s, n + 1)
    BY <2>3 DEF Flattens
  <2>5. QED
    BY <2>4
<1>3. T = Nat
  <2> HIDE DEF T
  <2>1. 0 \in T
    BY <1>1 DEF T
  <2>2. T \in SUBSET Nat
    BY DEF T
  <2>3. QED
    BY <1>2, <2>1, <2>2, AllNumbers
<1>4. QED
  BY <1>3

\* Two such functions agree on a common prefix, and their values are sequences.
LEMMA FlatteningIsOne ==
  ASSUME NEW S, NEW s \in Seq(Seq(S)), NEW t \in Seq(Seq(S)), NEW f, NEW g,
         Len(s) <= Len(t), \A i \in 1 .. Len(s) : s[i] = t[i],
         Flattens(f, s, Len(s)), Flattens(g, t, Len(t))
  PROVE  \A i \in 1 .. Len(s) : f[i] = g[i] /\ f[i] \in Seq(S)
<1> DEFINE T == {k \in Nat : k \in 1 .. Len(s) => f[k] = g[k] /\ f[k] \in Seq(S)}
<1>1. \A i \in 1 .. Len(s) : /\ f[i] = IF i = 1 THEN s[i] ELSE f[i - 1] \o s[i]
                        /\ g[i] = IF i = 1 THEN t[i] ELSE g[i - 1] \o t[i]
  <2>1. TAKE i \in 1 .. Len(s)
  <2>2. i \in 1 .. Len(s) /\ i \in 1 .. Len(t)
    BY LenProperties
  <2>3. f[i] = IF i = 1 THEN s[i] ELSE f[i - 1] \o s[i]
    BY <2>2 DEF Flattens
  <2>4. g[i] = IF i = 1 THEN t[i] ELSE g[i - 1] \o t[i]
    BY <2>2 DEF Flattens
  <2>5. QED
    BY <2>3, <2>4
<1>2. \A i \in 1 .. Len(s) : s[i] \in Seq(S)
  OBVIOUS
<1>3. ASSUME NEW k \in T
      PROVE  k + 1 \in T
  <2>1. SUFFICES ASSUME k + 1 \in 1 .. Len(s)
                 PROVE  f[k + 1] = g[k + 1] /\ f[k + 1] \in Seq(S)
    OBVIOUS
  <2>2. CASE k = 0
    BY <1>1, <1>2, <2>1, <2>2
  <2>3. CASE k # 0
    <3>1. f[k] = g[k] /\ f[k] \in Seq(S) /\ s[k + 1] \in Seq(S)
      BY <1>2, <2>1, <2>3
    <3>2. f[k + 1] = f[k] \o s[k + 1] /\ g[k + 1] = g[k] \o t[k + 1]
      <4>1. k \in Nat /\ k + 1 # 1 /\ (k + 1) - 1 = k
        BY <2>3
      <4>2. QED
        BY <1>1, <2>1, <4>1
    <3>3. QED
      BY <2>1, <3>1, <3>2, ConcatProperties, ZenonT(60)
  <2>4. QED
    BY <2>2, <2>3
<1>4. T = Nat
  <2> HIDE DEF T
  <2>1. T \in SUBSET Nat /\ 0 \in T
    BY DEF T
  <2>2. QED
    BY <1>3, <2>1, AllNumbers
<1>5. ASSUME NEW i \in 1 .. Len(s)
      PROVE  f[i] = g[i] /\ f[i] \in Seq(S)
  <2> HIDE DEF T
  <2>1. i \in T
    BY <1>4
  <2>2. QED
    BY <2>1 DEF T
<1>6. QED
  BY <1>5

\* FlattenSeq is the last value of one.
LEMMA FlatteningUsed ==
  ASSUME NEW s, Len(s) # 0, Len(s) \in Nat
  PROVE  \E f : Flattens(f, s, Len(s)) /\ FlattenSeq(s) = f[Len(s)]
<1> DEFINE f == CHOOSE f : Flattens(f, s, Len(s))
<1>1. Flattens(f, s, Len(s))
  BY FlatteningExists
<1>2. FlattenSeq(s) = f[Len(s)]
  BY DEF FlattenSeq, Flattens
<1>3. QED
  BY <1>1, <1>2

\* Flattening no sequence at all.
LEMMA FlattenNone == FlattenSeq(<< >>) = << >>
BY DEF FlattenSeq

\* One sequence more.
LEMMA FlattenAppend ==
  ASSUME NEW S, NEW s \in Seq(Seq(S)), NEW x \in Seq(S)
  PROVE  /\ FlattenSeq(s) \in Seq(S)
         /\ FlattenSeq(Append(s, x)) = FlattenSeq(s) \o x
<1> DEFINE t == Append(s, x)
<1>1. /\ t \in Seq(Seq(S)) /\ Len(t) = Len(s) + 1 /\ Len(s) \in Nat
      /\ \A i \in 1 .. Len(s) : t[i] = s[i]
      /\ t[Len(s) + 1] = x
  BY AppendProperties
<1> HIDE DEF t
<1>2. PICK g : Flattens(g, t, Len(t)) /\ FlattenSeq(t) = g[Len(t)]
  BY <1>1, FlatteningUsed, SMTT(60)
<1>3. g[Len(t)] = IF Len(t) = 1 THEN t[Len(t)] ELSE g[Len(t) - 1] \o t[Len(t)]
  <2>1. Len(t) \in 1 .. Len(t)
    BY <1>1
  <2>2. QED
    BY <1>2, <2>1 DEF Flattens
<1>4. CASE s = << >>
  <2>1. Len(t) = 1 /\ FlattenSeq(t) = x
    BY <1>1, <1>2, <1>3, <1>4
  <2>2. FlattenSeq(s) = << >> /\ << >> \o x = x
    BY <1>4, FlattenNone, ConcatEmptySeq
  <2>4. << >> \in Seq(S)
    OBVIOUS
  <2>3. QED
    BY <2>1, <2>2, <2>4 DEF t
<1>5. CASE s # << >>
  <2>1. Len(s) \in 1 .. Len(s) /\ Len(s) # 0
    BY <1>1, <1>5, EmptySeq
  <2>2. PICK f : Flattens(f, s, Len(s)) /\ FlattenSeq(s) = f[Len(s)]
    BY <2>1, <1>1, FlatteningUsed
  <2>3. \A i \in 1 .. Len(s) : f[i] = g[i] /\ f[i] \in Seq(S)
    <3>1. Len(s) <= Len(t) /\ t \in Seq(Seq(S))
      BY <1>1
    <3>2. ASSUME NEW i \in 1 .. Len(s)
          PROVE  s[i] = t[i]
      BY <1>1
    <3>3. QED
      BY <1>2, <2>2, <3>1, <3>2, FlatteningIsOne
  <2>4. FlattenSeq(t) = g[Len(s)] \o x
    <3>1. Len(t) # 1 /\ Len(t) - 1 = Len(s) /\ t[Len(t)] = x
      BY <1>1, <2>1
    <3>2. QED
      BY <1>2, <1>3, <3>1
  <2>5. QED
    BY <2>1, <2>2, <2>3, <2>4 DEF t
<1>6. QED
  BY <1>4, <1>5
\* A sequence that is not empty, as its front and its last element.
LEMMA LastOfAppend ==
  ASSUME NEW S, NEW s \in Seq(S), s # << >>
  PROVE  Front(s) \in Seq(S) /\ Last(s) \in S /\ s = Append(Front(s), Last(s))
<1>1. Len(s) \in Nat /\ Len(s) # 0 /\ DOMAIN s = 1 .. Len(s)
  BY EmptySeq, LenProperties
<1>2. /\ Front(s) \in Seq(S) /\ Len(Front(s)) = Len(s) - 1
      /\ \A i \in 1 .. Len(s) - 1 : Front(s)[i] = s[i]
  BY <1>1, SubSeqProperties DEF Front
<1>3. Last(s) \in S /\ Last(s) = s[Len(s)]
  BY <1>1, ElementOfSeq DEF Last
<1>4. /\ Append(Front(s), Last(s)) \in Seq(S)
      /\ Len(Append(Front(s), Last(s))) = Len(s)
      /\ \A i \in 1 .. Len(s) : Append(Front(s), Last(s))[i] = s[i]
  <2>1. /\ Append(Front(s), Last(s)) \in Seq(S)
        /\ Len(Append(Front(s), Last(s))) = Len(Front(s)) + 1
        /\ \A i \in 1 .. Len(Front(s)) : Append(Front(s), Last(s))[i] = Front(s)[i]
        /\ Append(Front(s), Last(s))[Len(Front(s)) + 1] = Last(s)
    BY <1>2, <1>3, AppendProperties
  <2>2. QED
    BY <1>1, <1>2, <1>3, <2>1
<1>5. s = Append(Front(s), Last(s))
  BY <1>1, <1>4, SeqEqual
<1>6. QED
  BY <1>2, <1>3, <1>5

------------------------------------------------------------------------------
(* The log's buffers and files. *)

\* Nothing is written before the backend has opened the first file.
LogInv ==
  /\ given \in Seq(Lens)
  /\ dropped \subseteq 1 .. Len(given)
  /\ current_ \in Seq(Nat)
  /\ buffers_ \in Seq(Seq(Nat))
  /\ files \in Seq(Seq(Nat))
  /\ files = << >> <=> backend \in {"none", "started"}
  /\ owner = "new" => backend = "none"

\* A spare is empty, or used up.  Outside a round the backend has both of its own
\* and an empty list; a full buffer is queued if the front ends' spare is used up.
\* So a round that gives away both of the backend's spares has two buffers.
SpareInv ==
  /\ {next_, new_current, new_next} \subseteq {<< >>, Null}
  /\ active_buffers \in Seq(Seq(Nat))
  /\ backend \in {"head", "locking", "waiting", "notified"} =>
       new_current = << >> /\ new_next = << >>
  /\ IF backend = "recycling"
     THEN /\ Len(active_buffers) >= 1
          /\ new_next = Null => Len(active_buffers) >= 2
     ELSE active_buffers = << >>
  /\ next_ = Null => buffers_ # << >>

\* Once Stop has begun, what it waits for is in the files, or will be after the
\* round that the backend has begun.
OwedInv ==
  /\ owed \in Nat
  /\ owner \in {"joining", "joined"} =>
       /\ running_ = FALSE
       /\ owner = "joined" => backend = "ended"
       /\ IF backend \in {"locking", "waiting", "notified"}
          THEN owed <= Len(Written \o Pending)
          ELSE owed <= Len(Written)

\* What is written and what is pending are sequences of messages.
LEMMA MessagesTyped ==
  ASSUME LogInv
  PROVE  /\ Written \in Seq(Nat) /\ Pending \in Seq(Nat) /\ Written \o Pending \in Seq(Nat)
         /\ Len(Written \o Pending) = Len(Written) + Len(Pending)
<1>1. Written \in Seq(Nat) /\ FlattenSeq(buffers_) \in Seq(Nat)
  <2>1. << >> \in Seq(Nat)
    OBVIOUS
  <2>2. QED
    BY <2>1, FlattenAppend DEF LogInv, Written
<1>2. Pending \in Seq(Nat)
  BY <1>1, ConcatProperties DEF Pending, LogInv
<1>3. QED
  BY <1>1, <1>2, ConcatProperties

\* Writing puts the messages behind those that are in the files, whether it fills
\* the last file or not.
LEMMA WriteAppends ==
  ASSUME LogInv, NEW ms \in Seq(Nat), files # << >>, Write(ms)
  PROVE  files' \in Seq(Seq(Nat)) /\ files' # << >> /\ Written' = Written \o ms
<1>1. /\ Front(files) \in Seq(Seq(Nat)) /\ Last(files) \in Seq(Nat)
      /\ files = Append(Front(files), Last(files))
  BY LastOfAppend DEF LogInv
<1>2. PICK file : file = Last(files) \o ms
  OBVIOUS
<1>3. PICK written : written = Append(Front(files), file)
  OBVIOUS
<1>4. file \in Seq(Nat) /\ written \in Seq(Seq(Nat)) /\ written # << >>
  BY <1>1, <1>2, <1>3, ConcatProperties, AppendProperties
<1>5. FlattenSeq(written) = Written \o ms
  <2>1. Written = FlattenSeq(Front(files)) \o Last(files) /\ FlattenSeq(Front(files)) \in Seq(Nat)
    BY <1>1, FlattenAppend DEF Written
  <2>2. FlattenSeq(written) = FlattenSeq(Front(files)) \o file
    BY <1>1, <1>3, <1>4, FlattenAppend
  <2>3. \A a, b \in Seq(Nat) : (a \o b) \o ms = a \o (b \o ms)
    BY ConcatAssociative, SMTT(60)
  <2>4. QED
    BY <1>1, <1>2, <2>1, <2>2, <2>3
<1>6. CASE files' = written
  BY <1>4, <1>5, <1>6 DEF Written
<1>7. CASE files' = written \o << << >> >>
  <2>1. << >> \in Seq(Nat) /\ Written \o ms \in Seq(Nat)
    BY MessagesTyped, ConcatProperties
  <2>2. files' = Append(written, << >>)
    BY <1>4, <1>7, <2>1, AppendIsConcat
  <2>3. FlattenSeq(Append(written, << >>)) = FlattenSeq(written) \o << >>
    BY <1>4, <2>1, FlattenAppend
  <2>4. FlattenSeq(Append(written, << >>)) = Written \o ms
    BY <1>5, <2>1, <2>3, ConcatEmptySeq
  <2>5. QED
    BY <1>4, <2>1, <2>2, <2>4, AppendProperties DEF Written
<1>8. written \o << >> = written
  BY <1>4, ConcatEmptySeq
<1>9. QED
  BY <1>2, <1>3, <1>6, <1>7, <1>8 DEF Write

------------------------------------------------------------------------------
(* Nothing is lost, repeated or overtaken, and the spares suffice. *)

IInv == LogInv /\ SpareInv /\ InOrder /\ OwedInv

\* Null is no buffer, the empty one included.
LEMMA NullIsNoBuffer == Null \notin Seq(Nat) /\ Null # << >>
<1>1. << >> \in Seq(Nat)
  OBVIOUS
<1>2. QED
  BY <1>1, LogAssumption DEF LogAssumption

\* A new AsyncLogging satisfies the invariant.
LEMMA InitLog == Init => IInv
<1> SUFFICES ASSUME Init
             PROVE  IInv
  OBVIOUS
<1>1. LogInv
  BY EmptySeq DEF Init, LogInv
<1>2. Written = << >> /\ Pending = << >>
  BY FlattenNone, ConcatEmptySeq DEF Init, Written, Pending
<1>3. InOrder
  BY <1>2 DEF Init, InOrder, ToSet
<1>4. SpareInv
  <2>1. << >> \in Seq(Seq(Nat))
    OBVIOUS
  <2>2. Null # << >>
    BY NullIsNoBuffer
  <2>3. QED
    BY <2>1, <2>2 DEF Init, SpareInv
<1>5. QED
  BY <1>1, <1>3, <1>4 DEF Init, IInv, OwedInv

\* FixedBuffer::append keeps the buffer's type, whether it takes the message or not.
LEMMA CopyIsTyped ==
  ASSUME NEW id \in Nat, NEW len, NEW ms \in Seq(Nat), Copy(id, len, ms)
  PROVE  /\ current_' \in Seq(Nat)
         /\ \/ current_' = Append(ms, id) /\ dropped' = dropped
            \/ current_' = ms /\ dropped' = dropped \cup {id}
<1>1. Append(ms, id) \in Seq(Nat)
  BY AppendProperties
<1>2. QED
  BY <1>1 DEF Copy

\* Append in its branches: the message goes behind all others, or is dropped; the
\* spare is used up only for a full buffer that is queued.
LEMMA AppendStores ==
  ASSUME LogInv, SpareInv, NEW len \in Lens, AppendMessage(len)
  PROVE  /\ current_' \in Seq(Nat) /\ buffers_' \in Seq(Seq(Nat))
         /\ \/ Pending' = Append(Pending, Len(given) + 1) /\ dropped' = dropped
            \/ Pending' = Pending /\ dropped' = dropped \cup {Len(given) + 1}
         /\ \/ next_' = next_ /\ buffers_' = buffers_
            \/ next_' = Null /\ buffers_' # << >>
<1>1. PICK id \in Nat : id = Len(given) + 1
  BY LenProperties DEF LogInv
<1>2. PICK ms \in Seq(Nat) :
         /\ Copy(id, len, ms)
         /\ \/ ms = current_ /\ buffers_' = buffers_ /\ next_' = next_
            \/ ms = << >> /\ buffers_' = Append(buffers_, current_) /\ next_' = Null
  <2>1. << >> \in Seq(Nat) /\ current_ \in Seq(Nat)
    BY DEF LogInv
  <2>2. Spare = << >>
    BY DEF SpareInv, Spare
  <2>3. QED
    BY <1>1, <2>1, <2>2 DEF AppendMessage
<1>3. /\ FlattenSeq(buffers_) \in Seq(Nat) /\ current_ \in Seq(Nat)
      /\ FlattenSeq(Append(buffers_, current_)) = FlattenSeq(buffers_) \o current_
  BY FlattenAppend DEF LogInv
<1>4. /\ buffers_' \in Seq(Seq(Nat))
      /\ \/ next_' = next_ /\ buffers_' = buffers_
         \/ next_' = Null /\ buffers_' # << >>
  <2>1. buffers_ \in Seq(Seq(Nat)) /\ current_ \in Seq(Nat)
    BY DEF LogInv
  <2>2. Append(buffers_, current_) \in Seq(Seq(Nat)) /\ Append(buffers_, current_) # << >>
    <3>1. ASSUME NEW b \in Seq(Seq(Nat)), NEW c \in Seq(Nat)
          PROVE  Append(b, c) \in Seq(Seq(Nat)) /\ Append(b, c) # << >>
      BY AppendProperties
    <3>2. QED
      BY <2>1, <3>1
  <2>3. QED
    BY <1>2, <2>1, <2>2
<1>5. FlattenSeq(buffers_') \o ms = Pending /\ FlattenSeq(buffers_') \in Seq(Nat)
  <2>1. FlattenSeq(buffers_) \o current_ \in Seq(Nat)
    BY <1>3, ConcatProperties
  <2>2. QED
    BY <1>2, <1>3, <2>1, ConcatEmptySeq DEF Pending
<1>6. \/ current_' = Append(ms, id) /\ dropped' = dropped
      \/ current_' = ms /\ dropped' = dropped \cup {id}
  BY <1>2, CopyIsTyped
<1>7. FlattenSeq(buffers_') \o Append(ms, id) = Append(FlattenSeq(buffers_') \o ms, id)
  <2>1. PICK a \in Seq(Nat) : a = FlattenSeq(buffers_')
    BY <1>5
  <2>2. a \o Append(ms, id) = Append(a \o ms, id)
    <3>1. << id >> \in Seq(Nat) /\ a \o ms \in Seq(Nat)
      BY <2>1, ConcatProperties
    <3>2. Append(ms, id) = ms \o << id >> /\ Append(a \o ms, id) = (a \o ms) \o << id >>
      BY <3>1, AppendIsConcat
    <3>3. (a \o ms) \o << id >> = a \o (ms \o << id >>)
      BY <3>1, ConcatAssociative
    <3>4. QED
      BY <3>2, <3>3
  <2>3. QED
    BY <2>1, <2>2
<1>8. current_' \in Seq(Nat)
  BY <1>2, CopyIsTyped
<1>9. QED
  BY <1>1, <1>4, <1>5, <1>6, <1>7, <1>8 DEF Pending

\* A message more keeps the order: it has the largest number.
LEMMA AppendKeepsOrder ==
  ASSUME LogInv, SpareInv, InOrder, NEW len \in Lens, AppendMessage(len), UNCHANGED files
  PROVE  /\ InOrder'
         /\ given' \in Seq(Lens) /\ dropped' \subseteq 1 .. Len(given')
         /\ Len(Written' \o Pending') >= Len(Written \o Pending)
<1>1. /\ given' \in Seq(Lens) /\ Len(given') = Len(given) + 1 /\ Len(given) \in Nat
      /\ DOMAIN given' = 1 .. Len(given) + 1 /\ DOMAIN given = 1 .. Len(given)
  BY AppendProperties DEF LogInv, AppendMessage
<1>2. dropped \subseteq 1 .. Len(given)
  BY DEF LogInv
<1>3. PICK taken \in Seq(Nat) : taken = Written \o Pending
  BY MessagesTyped
<1>4. /\ ToSet(taken) = DOMAIN given \ dropped
      /\ \A i, j \in DOMAIN taken : i < j => taken[i] < taken[j]
  BY <1>3 DEF InOrder
<1>5. Written' = Written /\ Len(taken) \in Nat
  BY LenProperties DEF Written
<1>6. CASE Pending' = Pending /\ dropped' = dropped \cup {Len(given) + 1}
  <2>1. Written' \o Pending' = taken
    BY <1>3, <1>5, <1>6
  <2>2. DOMAIN given' \ dropped' = DOMAIN given \ dropped
    BY <1>1, <1>2, <1>6
  <2>3. InOrder'
    BY <1>4, <2>1, <2>2 DEF InOrder
  <2>4. dropped' \subseteq 1 .. Len(given')
    <3>1. PICK n \in Nat : n = Len(given)
      BY <1>1
    <3>2. \A x \in 1 .. n : x \in 1 .. n + 1
      OBVIOUS
    <3>3. n + 1 \in 1 .. n + 1
      OBVIOUS
    <3>4. Len(given') = n + 1 /\ dropped' = dropped \cup {n + 1} /\ dropped \subseteq 1 .. n
      BY <1>1, <1>2, <1>6, <3>1
    <3>5. QED
      BY <3>2, <3>3, <3>4
  <2>5. QED
    BY <1>1, <1>3, <1>5, <2>1, <2>3, <2>4
<1>7. CASE Pending' = Append(Pending, Len(given) + 1) /\ dropped' = dropped
  <2>1. Written' \o Pending' = Append(taken, Len(given) + 1)
    <3>1. /\ Written \in Seq(Nat) /\ Pending \in Seq(Nat)
          /\ << Len(given) + 1 >> \in Seq(Nat)
      BY <1>1, MessagesTyped
    <3>2. /\ Append(Pending, Len(given) + 1) = Pending \o << Len(given) + 1 >>
          /\ Append(taken, Len(given) + 1) = taken \o << Len(given) + 1 >>
      BY <1>1, <3>1, AppendIsConcat
    <3>3. (Written \o Pending) \o << Len(given) + 1 >> = Written \o (Pending \o << Len(given) + 1 >>)
      BY <3>1, ConcatAssociative, SMTT(60)
    <3>4. QED
      BY <1>3, <1>5, <1>7, <3>2, <3>3
  <2>2. PICK more : more = Append(taken, Len(given) + 1)
    OBVIOUS
  <2>3. /\ Len(more) = Len(taken) + 1 /\ DOMAIN more = 1 .. Len(taken) + 1
        /\ DOMAIN taken = 1 .. Len(taken) /\ Len(taken) \in Nat
        /\ \A i \in 1 .. Len(taken) : more[i] = taken[i]
        /\ more[Len(taken) + 1] = Len(given) + 1
    BY <1>1, <2>2, AppendProperties
  <2>4. ToSet(more) = ToSet(taken) \cup {Len(given) + 1}
    BY <2>3 DEF ToSet
  <2>5. ToSet(more) = DOMAIN given' \ dropped'
    BY <1>1, <1>2, <1>4, <1>7, <2>4
  <2>6. \A i \in 1 .. Len(taken) : taken[i] \in 1 .. Len(given)
    BY <1>1, <1>4, <2>3 DEF ToSet
  <2>7. \A i, j \in DOMAIN more : i < j => more[i] < more[j]
    <3>1. SUFFICES ASSUME NEW i \in 1 .. Len(taken) + 1, NEW j \in 1 .. Len(taken) + 1, i < j
                   PROVE  more[i] < more[j]
      BY <2>3
    <3>2. i \in 1 .. Len(taken) /\ more[i] = taken[i] /\ taken[i] \in 1 .. Len(given)
      BY <2>3, <2>6, <3>1
    <3>3. CASE j = Len(taken) + 1
      BY <1>1, <2>3, <3>2, <3>3
    <3>4. CASE j # Len(taken) + 1
      <4>1. j \in 1 .. Len(taken)
        BY <2>3, <3>4
      <4>2. QED
        BY <1>4, <2>3, <3>1, <3>2, <4>1
    <3>5. QED
      BY <3>3, <3>4
  <2>8. Len(more) >= Len(taken)
    BY <2>3
  <2>9. InOrder'
    BY <2>1, <2>2, <2>5, <2>7 DEF InOrder
  <2>10. QED
    BY <1>1, <1>2, <1>3, <1>7, <2>1, <2>2, <2>8, <2>9
<1>8. QED
  BY <1>6, <1>7, AppendStores

\* Append keeps the invariant.
LEMMA AppendKeeps ==
  ASSUME IInv, NEW len \in Lens, AppendMessage(len),
         UNCHANGED <<spares, files, running_, owner, owed>>
  PROVE  IInv'
<1>1. LogInv /\ SpareInv /\ InOrder /\ OwedInv
  BY DEF IInv
<1>2. /\ InOrder'
      /\ given' \in Seq(Lens) /\ dropped' \subseteq 1 .. Len(given')
      /\ Len(Written' \o Pending') >= Len(Written \o Pending)
  BY <1>1, AppendKeepsOrder
<1>3. /\ backend # "recycling"
      /\ backend' = backend \/ (backend = "waiting" /\ backend' = "notified")
  BY DEF AppendMessage, Notified
<1>4. LogInv'
  BY <1>1, <1>2, <1>3, AppendStores DEF LogInv
<1>5. SpareInv'
  BY <1>1, <1>3, AppendStores DEF SpareInv, spares
<1>6. OwedInv'
  <2>1. Written' = Written
    BY DEF Written
  <2>2. PICK m \in Nat, n \in Nat : m = Len(Written \o Pending) /\ n = Len(Written' \o Pending')
    BY <1>1, <1>4, MessagesTyped, LenProperties
  <2>3. owner \in {"joining", "joined"} /\ backend \in {"locking", "waiting", "notified"} => owed <= m
    BY <1>1, <2>2 DEF OwedInv
  <2>4. QED
    BY <1>1, <1>2, <1>3, <2>1, <2>2, <2>3 DEF OwedInv
<1>7. QED
  BY <1>2, <1>4, <1>5, <1>6 DEF IInv

\* A round of the backend moves what is pending into the files, in its order.
LEMMA RoundKeeps ==
  ASSUME IInv, backend \in {"locking", "waiting", "notified"}, Swap,
         UNCHANGED <<given, dropped, running_, owner, owed>>
  PROVE  IInv'
<1>1. LogInv /\ SpareInv /\ InOrder /\ OwedInv
  BY DEF IInv
<1>2. files # << >>
  BY <1>1 DEF LogInv
<1>3. PICK full : full = Append(buffers_, current_)
  OBVIOUS
<1>4. /\ full \in Seq(Seq(Nat)) /\ Len(full) = Len(buffers_) + 1 /\ Len(buffers_) \in Nat
      /\ FlattenSeq(full) = Pending
  <2>1. buffers_ \in Seq(Seq(Nat)) /\ current_ \in Seq(Nat)
    BY <1>1 DEF LogInv
  <2>2. FlattenSeq(full) = FlattenSeq(buffers_) \o current_
    BY <1>3, <2>1, FlattenAppend
  <2>3. QED
    BY <1>3, <2>1, <2>2, AppendProperties, LenProperties DEF Pending
<1>5. /\ files' \in Seq(Seq(Nat)) /\ files' # << >>
      /\ Written' = Written \o Pending
  <2>1. Write(Pending) /\ Pending \in Seq(Nat)
    BY <1>1, <1>3, <1>4, MessagesTyped DEF Swap
  <2>2. QED
    BY <1>1, <1>2, <2>1, WriteAppends
<1>6. /\ active_buffers' = full /\ buffers_' = << >> /\ current_' = << >>
      /\ new_current' = Null /\ next_' = << >>
      /\ new_next' = IF next_ = Null THEN Null ELSE << >>
      /\ backend' = "recycling"
  BY <1>1, <1>3 DEF Swap, TakesSpare, SpareInv
<1>7. Pending' = << >>
  BY <1>6, FlattenNone, ConcatEmptySeq DEF Pending
<1>8. LogInv'
  BY <1>1, <1>5, <1>6, EmptySeq DEF LogInv
<1>9. SpareInv'
  <2>1. next_ = Null => Len(buffers_) >= 1
    <3>1. buffers_ \in Seq(Seq(Nat))
      BY <1>1 DEF LogInv
    <3>2. QED
      BY <1>1, <1>4, <3>1, EmptySeq DEF SpareInv
  <2>2. QED
    BY <1>4, <1>6, <2>1, NullIsNoBuffer DEF SpareInv
<1>10. Written' \o Pending' = Written \o Pending
  BY <1>1, <1>5, <1>7, MessagesTyped, ConcatEmptySeq
<1>11. InOrder'
  BY <1>1, <1>10 DEF InOrder
<1>12. OwedInv'
  BY <1>1, <1>5, <1>6 DEF OwedInv
<1>13. QED
  BY <1>8, <1>9, <1>11, <1>12 DEF IInv

\* The buffers that are kept, and what is left of them without the last.
LEMMA KeptTyped ==
  ASSUME SpareInv
  PROVE  /\ Kept \in Seq(Seq(Nat))
         /\ Len(Kept) = IF Len(active_buffers) > 2 THEN 2 ELSE Len(active_buffers)
<1>1. active_buffers \in Seq(Seq(Nat)) /\ Len(active_buffers) \in Nat
  BY LenProperties DEF SpareInv
<1>2. CASE Len(active_buffers) > 2
  <2>1. Kept = SubSeq(active_buffers, 1, 2)
    BY <1>2 DEF Kept
  <2>2. QED
    BY <1>1, <1>2, <2>1, SubSeqProperties
<1>3. CASE ~(Len(active_buffers) > 2)
  BY <1>1, <1>3 DEF Kept
<1>4. QED
  BY <1>2, <1>3

\* The second half of a round provides the spares again.
LEMMA RecycleKeeps ==
  ASSUME IInv, Recycle
  PROVE  IInv'
<1>1. LogInv /\ SpareInv /\ InOrder /\ OwedInv
  BY DEF IInv
<1>2. /\ new_current' = << >> /\ new_next' = << >> /\ active_buffers' = << >>
      /\ backend = "recycling" /\ backend' = "head"
      /\ UNCHANGED <<log, files, running_, owner, owed>>
  BY <1>1 DEF Recycle, Bzero, SpareInv
<1>3. Written' = Written /\ Pending' = Pending
  BY <1>2 DEF log, Written, Pending
<1>4. LogInv' /\ InOrder' /\ OwedInv'
  BY <1>1, <1>2, <1>3 DEF LogInv, InOrder, OwedInv, log
<1>5. SpareInv'
  <2>1. << >> \in Seq(Seq(Nat))
    OBVIOUS
  <2>2. QED
    BY <1>1, <1>2, <2>1 DEF SpareInv, log
<1>6. QED
  BY <1>4, <1>5 DEF IInv

\* Steps that touch neither messages nor files, as far as the places of the
\* threads allow what is owed.
LEMMA PlacesChange ==
  ASSUME IInv, UNCHANGED <<log, files>>,
         files = << >> <=> backend' \in {"none", "started"},
         owner' = "new" => backend' = "none",
         OwedInv', SpareInv'
  PROVE  IInv'
<1>1. Written' = Written /\ Pending' = Pending
  BY DEF log, Written, Pending
<1>2. InOrder'
  BY <1>1 DEF IInv, InOrder, log
<1>3. LogInv'
  BY DEF IInv, LogInv, log
<1>4. QED
  BY <1>2, <1>3 DEF IInv

\* Every step of the backend thread keeps the invariant.
LEMMA BackendKeeps ==
  ASSUME IInv, Backend
  PROVE  IInv'
<1>1. LogInv /\ SpareInv /\ InOrder /\ OwedInv
  BY DEF IInv
<1>2. CASE Begin
  <2>1. /\ backend = "started" /\ backend' = "head" /\ files' = << << >> >>
        /\ new_current' = << >> /\ new_next' = << >> /\ active_buffers' = << >>
        /\ UNCHANGED <<log, running_, owner, owed>>
    BY <1>2 DEF Begin
  <2>2. files = << >>
    BY <1>1, <2>1 DEF LogInv
  <2>3. << >> \in Seq(Nat) /\ << << >> >> = Append(<< >>, << >>) /\ << >> \in Seq(Seq(Nat))
    OBVIOUS
  <2>4. Written = << >> /\ Written' = << >>
    <3>1. FlattenSeq(Append(<< >>, << >>)) = FlattenSeq(<< >>) \o << >>
      BY <2>3, FlattenAppend
    <3>2. QED
      BY <2>1, <2>2, <2>3, <3>1, FlattenNone, ConcatEmptySeq DEF Written
  <2>5. Pending' = Pending
    BY <2>1 DEF log, Pending
  <2>6. LogInv'
    BY <1>1, <2>1, <2>3 DEF LogInv, log
  <2>7. InOrder'
    BY <1>1, <2>1, <2>4, <2>5 DEF InOrder, log
  <2>8. OwedInv' /\ SpareInv'
    BY <1>1, <2>1, <2>3, <2>4 DEF OwedInv, SpareInv, log
  <2>9. QED
    BY <2>6, <2>7, <2>8 DEF IInv
<1>3. ASSUME UNCHANGED <<log, files>>
      PROVE  Written' = Written /\ Pending' = Pending
  BY <1>3 DEF log, Written, Pending
<1>4. CASE ReadRunning
  <2>1. OwedInv'
    BY <1>1, <1>3, <1>4 DEF OwedInv, ReadRunning
  <2>2. SpareInv'
    BY <1>1, <1>4 DEF SpareInv, ReadRunning, log, spares
  <2>3. QED
    BY <1>1, <1>4, <2>1, <2>2, PlacesChange DEF ReadRunning, LogInv
<1>5. CASE Wait \/ Recheck
  <2>1. OwedInv'
    BY <1>1, <1>3, <1>5 DEF OwedInv, Wait, Recheck
  <2>2. SpareInv'
    BY <1>1, <1>5 DEF SpareInv, Wait, Recheck, log, spares
  <2>3. QED
    BY <1>1, <1>5, <2>1, <2>2, PlacesChange DEF Wait, Recheck, LogInv
<1>6. CASE WriteFull \/ Timeout
  BY <1>6, RoundKeeps DEF WriteFull, Timeout
<1>7. CASE Recycle
  BY <1>7, RecycleKeeps
<1>8. QED
  BY <1>2, <1>4, <1>5, <1>6, <1>7 DEF Backend

\* Start, Stop and the owner's join keep the invariant.
LEMMA OwnerKeeps ==
  ASSUME IInv, Owner
  PROVE  IInv'
<1>1. LogInv /\ SpareInv /\ OwedInv
  BY DEF IInv
<1>2. UNCHANGED <<log, spares, files>>
  BY DEF Owner, Start, Started, Stop, Join
<1>3. Written' = Written /\ Pending' = Pending
  BY <1>2 DEF log, Written, Pending
<1>4. OwedInv'
  <2>1. CASE Start \/ Started \/ Join
    BY <1>1, <1>3, <2>1 DEF OwedInv, Start, Started, Join
  <2>2. CASE Stop
    <3>1. Len(Written) \in Nat /\ Len(Written \o Pending) \in Nat
      BY <1>1, MessagesTyped, LenProperties
    <3>2. QED
      BY <1>3, <2>2, <3>1 DEF OwedInv, Stop, Owed, Notified
  <2>3. QED
    BY <2>1, <2>2 DEF Owner
<1>5. /\ files = << >> <=> backend' \in {"none", "started"}
      /\ owner' = "new" => backend' = "none"
  BY <1>1 DEF LogInv, Owner, Start, Started, Stop, Join, Notified
<1>6. SpareInv'
  <2>1. \/ backend' = backend
        \/ backend = "none" /\ backend' = "started"
        \/ backend = "waiting" /\ backend' = "notified"
    BY <1>1 DEF LogInv, Owner, Start, Started, Stop, Join, Notified
  <2>2. QED
    BY <1>1, <1>2, <2>1 DEF SpareInv, log, spares
<1>7. QED
  BY <1>2, <1>4, <1>5, <1>6, PlacesChange

\* Every step keeps the invariant.
LEMMA LogNext == IInv /\ [Next]_vars => IInv'
<1> SUFFICES ASSUME IInv, [Next]_vars
             PROVE  IInv'
  OBVIOUS
<1>1. CASE UNCHANGED vars
  <2>1. UNCHANGED <<log, spares, files, running_, backend, owner, owed>>
    BY <1>1 DEF vars
  <2>2. Written' = Written /\ Pending' = Pending
    BY <2>1 DEF log, Written, Pending
  <2>3. OwedInv' /\ SpareInv'
    BY <2>1, <2>2 DEF IInv, OwedInv, SpareInv, log, spares
  <2>4. QED
    BY <2>1, <2>3, PlacesChange DEF IInv, LogInv
<1>2. CASE FrontEnd
  <2>1. CASE Abort
    <3>1. UNCHANGED <<log, spares, files, running_, backend, owner, owed>>
      BY <2>1 DEF Abort
    <3>2. Written' = Written /\ Pending' = Pending
      BY <3>1 DEF log, Written, Pending
    <3>3. OwedInv' /\ SpareInv'
      BY <3>1, <3>2 DEF IInv, OwedInv, SpareInv, log, spares
    <3>4. QED
      BY <3>1, <3>3, PlacesChange DEF IInv, LogInv
  <2>2. ASSUME NEW len \in Lens, Log(len) \/ LogFatal(len)
        PROVE  IInv'
    BY <2>2, AppendKeeps DEF Log, LogFatal
  <2>3. QED
    BY <1>2, <2>1, <2>2 DEF FrontEnd
<1>3. QED
  BY <1>1, <1>2, BackendKeeps, OwnerKeeps DEF Next

\* The invariant of the log holds in every reachable state.
LEMMA Invariance == Spec => []IInv
BY InitLog, LogNext, PTL DEF Spec

\* What the files and the buffers hold is, in the order of Append and each once,
\* every message that was taken (AsyncLogging.cpp:42-124).
THEOREM NothingIsLost == Spec => []InOrder
<1>1. IInv => InOrder
  BY DEF IInv
<1>2. QED
  BY Invariance, <1>1, PTL

\* The current buffer is never null, and of the buffers that a round keeps there is
\* one for each spare that it gave away, through whatever hand-overs and rounds:
\* active_buffers.back() is never that of an empty vector (AsyncLogging.cpp:106-120).
THEOREM SparesAreThere == Spec => []SparesSuffice
<1>1. IInv => SparesSuffice
  <2>1. SUFFICES ASSUME LogInv, SpareInv
                 PROVE  SparesSuffice
    BY DEF IInv
  <2>2. current_ # Null
    BY <2>1, NullIsNoBuffer DEF LogInv
  <2>3. Len(Kept) = IF Len(active_buffers) > 2 THEN 2 ELSE Len(active_buffers)
    BY <2>1, KeptTyped
  <2>4. Len(active_buffers) \in Nat
    BY <2>1, LenProperties DEF SpareInv
  <2>5. QED
    BY <2>1, <2>2, <2>3, <2>4 DEF SparesSuffice, SpareInv
<1>2. QED
  BY Invariance, <1>1, PTL

\* Stop waits for the round that the backend has begun: when it has returned, the
\* files hold what they held when Stop began, and what was pending then too if the
\* backend was past the test of running_.  Pending messages that a backend at the
\* head of its loop leaves are not promised (AsyncLogging.cpp:31-36, 77).
THEOREM StopFinishesTheRound == Spec => []StopWritesWhatItOwes
<1>1. IInv => StopWritesWhatItOwes
  <2>1. SUFFICES ASSUME IInv, owner = "joined"
                 PROVE  Len(Written) >= owed
    BY DEF StopWritesWhatItOwes
  <2>2. Len(Written) \in Nat
    BY <2>1, MessagesTyped, LenProperties DEF IInv
  <2>3. QED
    BY <2>1, <2>2 DEF IInv, OwedInv
<1>2. QED
  BY Invariance, <1>1, PTL

------------------------------------------------------------------------------
(* The parser's iterations. *)

Texts == Seq(Sent)
Maps == UNION {[D -> Texts] : D \in SUBSET Texts}
HttpRequest ==
  [method : Texts, url : Texts, protocol : Texts, version : Texts,
   request_params : Maps, headers : Maps, body : Texts]

Cursor(s, start, colon, r) ==
  [state_ |-> s, start |-> start, colon |-> colon, request_ |-> r]

\* What holds of the parser's variables after n iterations.
CursorInv(c, n) ==
  /\ c.start \in 0 .. n /\ c.colon \in 0 .. n
  /\ c.request_ \in HttpRequest

\* R is what the iterations over msg lead to, from c on.
Parses(R, c, msg) ==
  /\ R[0] = c
  /\ \A n \in 0 .. Len(msg) : R[n + 1] = Iterate(R[n], msg, n)

\* The same for the first n, as the definition of ParaseRequest has it.
Parsing(f, c, msg, n) ==
  f = [k \in 0 .. n |-> IF k = 0 THEN c
                        ELSE LET before == f[k - 1] IN Iterate(before, msg, k - 1)]

\* There is such a function for every n.
LEMMA ParsingExists ==
  ASSUME NEW c, NEW msg
  PROVE  \A n \in Nat : \E f : Parsing(f, c, msg, n)
<1> DEFINE T == {n \in Nat : \E f : Parsing(f, c, msg, n)}
<1>1. 0 \in T
  <2>1. Parsing([k \in 0 .. 0 |-> c], c, msg, 0)
    BY DEF Parsing
  <2>2. QED
    BY <2>1
<1>2. ASSUME NEW n \in T
      PROVE  n + 1 \in T
  <2>1. PICK f : Parsing(f, c, msg, n)
    OBVIOUS
  <2> DEFINE g == [k \in 0 .. n + 1 |-> IF k = n + 1 THEN Iterate(f[n], msg, n) ELSE f[k]]
  <2>2. \A k \in 0 .. n : f[k] = IF k = 0 THEN c ELSE Iterate(f[k - 1], msg, k - 1)
    BY <2>1 DEF Parsing
  <2>3. ASSUME NEW k \in 0 .. n + 1
        PROVE  g[k] = IF k = 0 THEN c ELSE Iterate(g[k - 1], msg, k - 1)
    <3>1. CASE k = n + 1
      <4>1. g[k] = Iterate(f[n], msg, n) /\ k # 0 /\ k - 1 = n /\ g[n] = f[n]
        BY <3>1
      <4>2. QED
        BY <4>1
    <3>2. CASE k # n + 1
      <4>1. k \in 0 .. n /\ (k # 0 => k - 1 \in 0 .. n)
        BY <3>2
      <4>2. g[k] = f[k] /\ (k # 0 => g[k - 1] = f[k - 1])
        BY <4>1
      <4> HIDE DEF g
      <4>3. QED
        BY <2>2, <4>1, <4>2
    <3>3. QED
      BY <3>1, <3>2
  <2>4. Parsing(g, c, msg, n + 1)
    BY <2>3 DEF Parsing
  <2>5. QED
    BY <2>4
<1>3. T \in SUBSET Nat
  OBVIOUS
<1>4. T = Nat
  <2> HIDE DEF T
  <2>1. QED
    BY <1>1, <1>2, <1>3, AllNumbers
<1>5. QED
  BY <1>4

\* ParaseRequest is what the last iteration leads to.
LEMMA ParseIs ==
  ASSUME NEW s, NEW r, NEW msg, Len(msg) \in Nat
  PROVE  \E R : /\ Parses(R, Cursor(s, 0, 0, r), msg)
                /\ ParaseRequest(s, r, msg) = R[Len(msg) + 1]
<1> DEFINE c == Cursor(s, 0, 0, r)
           m == Len(msg) + 1
           R == CHOOSE f : Parsing(f, c, msg, m)
<1>1. Parsing(R, c, msg, m)
  <2>1. m \in Nat
    OBVIOUS
  <2> HIDE DEF m, c
  <2>2. \E f : Parsing(f, c, msg, m)
    BY <2>1, ParsingExists
  <2>3. QED
    BY <2>2
<1>2. ParaseRequest(s, r, msg) = R[m]
  BY DEF ParaseRequest, Parsing, Cursor
<1>3. Parses(R, c, msg)
  <2> HIDE DEF R, c
  <2>1. \A k \in 0 .. m : R[k] = IF k = 0 THEN c ELSE Iterate(R[k - 1], msg, k - 1)
    BY <1>1 DEF Parsing
  <2>2. R[0] = c
    BY <2>1
  <2>3. ASSUME NEW n \in 0 .. Len(msg)
        PROVE  R[n + 1] = Iterate(R[n], msg, n)
    <3>1. n + 1 \in 0 .. m /\ n + 1 # 0 /\ (n + 1) - 1 = n
      OBVIOUS
    <3>2. QED
      BY <2>1, <3>1
  <2>4. QED
    BY <2>2, <2>3 DEF Parses
<1>4. QED
  BY <1>2, <1>3

\* Storing a pair in a map of texts leaves one.
LEMMA PutIsMap ==
  ASSUME NEW map \in Maps, NEW key \in Texts, NEW value \in Texts
  PROVE  Put(map, key, value) \in Maps
<1>1. PICK D \in SUBSET Texts : map \in [D -> Texts]
  BY DEF Maps
<1>2. /\ Put(map, key, value) \in [D \cup {key} -> Texts]
      /\ D \cup {key} \in SUBSET Texts
  BY <1>1 DEF Put
<1>3. QED
  BY <1>2 DEF Maps

\* A word is a part of the message.
LEMMA WordIsText ==
  ASSUME NEW msg \in Texts, NEW a \in Nat, NEW b \in Int, b <= Len(msg)
  PROVE  SubSeq(msg, a + 1, b) \in Texts
<1>1. \A i \in a + 1 .. b : msg[i] \in Sent
  <2>1. TAKE i \in a + 1 .. b
  <2>2. Len(msg) \in Nat
    BY LenProperties DEF Texts
  <2>3. i \in 1 .. Len(msg)
    BY <2>2
  <2>4. QED
    BY <2>3, ElementOfSeq DEF Texts
<1>2. a + 1 \in Int
  OBVIOUS
<1>3. QED
  BY <1>1, <1>2, SubSeqProperties DEF Texts

\* What a setter leaves is an HttpRequest.
LEMMA StoreTyped ==
  ASSUME NEW r \in HttpRequest, NEW s, NEW word \in Texts, NEW key \in Texts,
         NEW parameter \in Texts, NEW field \in Texts, NEW rest \in Texts
  PROVE  Store(r, s, word, key, parameter, field, rest) \in HttpRequest
<1> DEFINE q == Store(r, s, word, key, parameter, field, rest)
<1>1. /\ Put(r.request_params, key, parameter) \in Maps
      /\ Put(r.headers, key, field) \in Maps
  BY PutIsMap DEF HttpRequest
<1>2. CASE s = "METHOD"
  BY <1>2 DEF Store, HttpRequest
<1>3. CASE s = "IN_URL"
  BY <1>3 DEF Store, HttpRequest
<1>4. CASE s = "PROTOCOL"
  BY <1>4 DEF Store, HttpRequest
<1>5. CASE s = "VERSION"
  BY <1>5 DEF Store, HttpRequest
<1>6. CASE s = "URL_PARAM_VALUE"
  BY <1>1, <1>6 DEF Store, HttpRequest
<1>7. CASE s = "HEADER_VALUE"
  BY <1>1, <1>7 DEF Store, HttpRequest
<1>8. CASE s = "BODY"
  BY <1>8 DEF Store, HttpRequest
<1>9. CASE s \notin {"METHOD", "IN_URL", "PROTOCOL", "VERSION", "URL_PARAM_VALUE",
                     "HEADER_VALUE", "BODY"}
  BY <1>9 DEF Store
<1>10. QED
  BY <1>2, <1>3, <1>4, <1>5, <1>6, <1>7, <1>8, <1>9

\* An iteration keeps the types, and the pointers within what has been read.
LEMMA IterateTyped ==
  ASSUME NEW msg \in Texts, NEW end \in 0 .. Len(msg), NEW c, CursorInv(c, end)
  PROVE  CursorInv(Iterate(c, msg, end), end + 1)
<1>1. /\ Len(msg) \in Nat /\ c.start \in 0 .. end /\ c.colon \in 0 .. end
      /\ c.request_ \in HttpRequest
  BY LenProperties DEF CursorInv, Texts
<1>2. CASE c.state_ \in Over
  BY <1>1, <1>2 DEF CursorInv, Iterate
<1>3. CASE c.state_ \notin Over
  <2> DEFINE d == Step(c, msg, end)
             st == Store(c.request_, c.state_, SubSeq(msg, c.start + 1, end),
                      SubSeq(msg, c.start + 1, c.colon),
                      SubSeq(msg, c.colon + 2, end), SubSeq(msg, c.colon + 3, end),
                      SubSeq(msg, c.start + 1, c.start + Len(msg) - end))
  <2>1. /\ SubSeq(msg, c.start + 1, end) \in Texts
        /\ SubSeq(msg, c.start + 1, c.colon) \in Texts
        /\ SubSeq(msg, c.start + 1, c.start + Len(msg) - end) \in Texts
    <3>1. /\ c.start \in Nat /\ end \in Int /\ c.colon \in Int
          /\ c.start + Len(msg) - end \in Int
          /\ end <= Len(msg) /\ c.colon <= Len(msg) /\ c.start + Len(msg) - end <= Len(msg)
      BY <1>1
    <3>2. QED
      BY <3>1, WordIsText
  <2>2. /\ SubSeq(msg, c.colon + 2, end) \in Texts
        /\ SubSeq(msg, c.colon + 3, end) \in Texts
    <3>1. /\ c.colon + 1 \in Nat /\ c.colon + 2 \in Nat
          /\ (c.colon + 1) + 1 = c.colon + 2 /\ (c.colon + 2) + 1 = c.colon + 3
          /\ end \in Int /\ end <= Len(msg)
      BY <1>1
    <3>2. QED
      BY <3>1, WordIsText
  <2>3. st \in HttpRequest
    BY <1>1, <2>1, <2>2, StoreTyped
  <2> HIDE DEF st
  <2>4. /\ d.start \in {c.start, end + 1} /\ d.colon \in {c.colon, end}
        /\ d.request_ \in {c.request_, st}
    BY DEF Step, st
  <2>5. Iterate(c, msg, end) = d
    BY <1>3 DEF Iterate
  <2> HIDE DEF d
  <2>6. QED
    BY <1>1, <2>3, <2>4, <2>5 DEF CursorInv
<1>4. QED
  BY <1>2, <1>3

\* Whatever is read, the request has texts without the name Content-Lenght.
LEMMA ParseTyped ==
  ASSUME NEW msg \in Texts, NEW R, NEW c, Parses(R, c, msg), CursorInv(c, 0)
  PROVE  \A n \in 0 .. Len(msg) + 1 : CursorInv(R[n], n)
<1> DEFINE T == {n \in Nat : n <= Len(msg) + 1 => CursorInv(R[n], n)}
<1>1. Len(msg) \in Nat
  BY LenProperties DEF Texts
<1>2. 0 \in T
  BY DEF Parses
<1>3. ASSUME NEW n \in T
      PROVE  n + 1 \in T
  <2>1. SUFFICES ASSUME n + 1 <= Len(msg) + 1
                 PROVE  CursorInv(R[n + 1], n + 1)
    OBVIOUS
  <2>2. n \in 0 .. Len(msg) /\ CursorInv(R[n], n)
    BY <1>1, <2>1
  <2>3. R[n + 1] = Iterate(R[n], msg, n)
    BY <2>2 DEF Parses
  <2>4. QED
    BY <2>2, <2>3, IterateTyped
<1>4. T \in SUBSET Nat
  OBVIOUS
<1>5. T = Nat
  <2> HIDE DEF T
  <2>1. QED
    BY <1>2, <1>3, <1>4, AllNumbers
<1>6. QED
  BY <1>1, <1>5

------------------------------------------------------------------------------
(* Texts in a message. *)

\* w stands in msg behind the first a characters.
At(msg, a, w) ==
  /\ a + Len(w) <= Len(msg)
  /\ \A i \in 1 .. Len(w) : msg[a + i] = w[i]

\* The length and the characters of a text.
LEMMA TextLen ==
  ASSUME NEW w \in Texts
  PROVE  /\ Len(w) \in Nat /\ DOMAIN w = 1 .. Len(w)
         /\ \A i \in 1 .. Len(w) : w[i] \in Sent
BY LenProperties, ElementOfSeq DEF Texts

\* Where two texts are joined, each of them is found.
LEMMA AtParts ==
  ASSUME NEW msg \in Texts, NEW a \in Nat, NEW u \in Texts, NEW w \in Texts,
         At(msg, a, u \o w)
  PROVE  At(msg, a, u) /\ At(msg, a + Len(u), w)
<1>1. Len(u) \in Nat /\ Len(w) \in Nat /\ Len(msg) \in Nat
  BY TextLen
<1>2. /\ Len(u \o w) = Len(u) + Len(w)
      /\ \A i \in 1 .. Len(u) + Len(w) :
           (u \o w)[i] = IF i <= Len(u) THEN u[i] ELSE w[i - Len(u)]
  BY ConcatProperties DEF Texts
<1>3. At(msg, a, u)
  <2>1. ASSUME NEW i \in 1 .. Len(u)
        PROVE  msg[a + i] = u[i]
    <3>1. i \in 1 .. Len(u) + Len(w) /\ i <= Len(u)
      BY <1>1
    <3>2. QED
      BY <1>2, <3>1 DEF At
  <2>2. a + Len(u) <= Len(msg)
    BY <1>1, <1>2 DEF At
  <2>3. QED
    BY <2>1, <2>2 DEF At
<1>4. At(msg, a + Len(u), w)
  <2>1. ASSUME NEW i \in 1 .. Len(w)
        PROVE  msg[a + Len(u) + i] = w[i]
    <3>1. PICK j \in 1 .. Len(u) + Len(w) : j = Len(u) + i
      BY <1>1
    <3>2. ~(j <= Len(u)) /\ j - Len(u) = i /\ a + j = a + Len(u) + i
      BY <1>1, <3>1
    <3>3. QED
      BY <1>2, <3>2 DEF At
  <2>2. a + Len(u) + Len(w) <= Len(msg)
    BY <1>1, <1>2 DEF At
  <2>3. QED
    BY <2>1, <2>2 DEF At
<1>5. QED
  BY <1>3, <1>4

\* A message is found at its own start.
LEMMA AtWhole ==
  ASSUME NEW msg \in Texts
  PROVE  At(msg, 0, msg)
<1>1. Len(msg) \in Nat
  BY TextLen
<1>2. QED
  BY <1>1 DEF At

\* The characters between the pointers are the word that is there.
LEMMA AtIsWord ==
  ASSUME NEW msg \in Texts, NEW a \in Nat, NEW w \in Texts, At(msg, a, w)
  PROVE  SubSeq(msg, a + 1, a + Len(w)) = w
<1> DEFINE u == SubSeq(msg, a + 1, a + Len(w))
<1>1. Len(w) \in Nat /\ Len(msg) \in Nat /\ a + Len(w) <= Len(msg)
  BY TextLen DEF At
<1>2. u \in Texts
  BY <1>1, WordIsText
<1>3. /\ Len(u) = Len(w)
      /\ \A i \in 1 .. Len(w) : u[i] = w[i]
  <2>1. \A i \in a + 1 .. a + Len(w) : msg[i] \in Sent
    BY <1>1, TextLen
  <2>2. /\ Len(u) = IF a + 1 <= a + Len(w) THEN a + Len(w) - (a + 1) + 1 ELSE 0
        /\ \A i \in 1 .. a + Len(w) - (a + 1) + 1 : u[i] = msg[a + 1 + i - 1]
    <3>1. a + 1 \in Int /\ a + Len(w) \in Int
      BY <1>1
    <3>2. QED
      BY <2>1, <3>1, SubSeqProperties
  <2> HIDE DEF u
  <2>3. Len(u) = Len(w)
    BY <1>1, <2>2
  <2>4. ASSUME NEW i \in 1 .. Len(w)
        PROVE  u[i] = w[i]
    <3>1. a + 1 + i - 1 = a + i /\ i \in 1 .. a + Len(w) - (a + 1) + 1
      BY <1>1
    <3>2. QED
      BY <2>2, <3>1 DEF At
  <2>5. QED
    BY <2>3, <2>4
<1>4. QED
  BY <1>2, <1>3, SeqEqual DEF Texts

\* A text put together from others: o[i] characters stand before the end of the
\* i-th of them.
LEMMA AtFlattened ==
  ASSUME NEW msg \in Texts, NEW a \in Nat, NEW s \in Seq(Texts), At(msg, a, FlattenSeq(s))
  PROVE  \E o \in [0 .. Len(s) -> Nat] :
           /\ o[0] = a /\ o[Len(s)] = a + Len(FlattenSeq(s))
           /\ \A i \in 1 .. Len(s) : o[i] = o[i - 1] + Len(s[i]) /\ At(msg, o[i - 1], s[i])
<1>1. /\ Len(s) \in Nat /\ DOMAIN s = 1 .. Len(s)
      /\ \A i \in 1 .. Len(s) : s[i] \in Texts
  BY LenProperties, ElementOfSeq
<1>2. CASE Len(s) = 0
  <2>1. FlattenSeq(s) = << >>
    <3>1. s = << >>
      BY <1>2, EmptySeq
    <3>2. QED
      BY <3>1, FlattenNone
  <2>2. PICK o \in [0 .. Len(s) -> Nat] : o[0] = a
    <3>1. [i \in 0 .. Len(s) |-> a] \in [0 .. Len(s) -> Nat]
      OBVIOUS
    <3>2. [i \in 0 .. Len(s) |-> a][0] = a
      BY <1>2
    <3>3. QED
      BY <3>1, <3>2
  <2>3. Len(FlattenSeq(s)) = 0 /\ o[Len(s)] = a + Len(FlattenSeq(s))
    BY <1>2, <2>1, <2>2, EmptySeq
  <2>4. QED
    BY <1>2, <2>2, <2>3
<1>3. CASE Len(s) # 0
  <2>1. PICK f : Flattens(f, s, Len(s)) /\ FlattenSeq(s) = f[Len(s)]
    BY <1>1, <1>3, FlatteningUsed
  <2>2. \A i \in 1 .. Len(s) : f[i] \in Texts
    <3>1. s \in Seq(Seq(Sent)) /\ Len(s) <= Len(s)
      BY <1>1 DEF Texts
    <3>2. \A i \in 1 .. Len(s) : f[i] \in Seq(Sent)
      BY <2>1, <3>1, FlatteningIsOne
    <3>3. QED
      BY <3>2 DEF Texts
  <2>3. \A i \in 1 .. Len(s) : f[i] = IF i = 1 THEN s[i] ELSE f[i - 1] \o s[i]
    BY <2>1 DEF Flattens
  <2> DEFINE T == {m \in Nat : m < Len(s) => At(msg, a, f[Len(s) - m])}
  <2>4. 0 \in T
    <3>1. Len(s) - 0 = Len(s)
      BY <1>1
    <3>2. QED
      BY <2>1, <3>1
  <2>5. ASSUME NEW m \in T
        PROVE  m + 1 \in T
    <3>1. SUFFICES ASSUME m + 1 < Len(s)
                   PROVE  At(msg, a, f[Len(s) - (m + 1)])
      OBVIOUS
    <3>2. PICK i \in 2 .. Len(s) : i = Len(s) - m /\ Len(s) - (m + 1) = i - 1
      <4>1. m \in Nat
        OBVIOUS
      <4> HIDE DEF T
      <4>2. Len(s) - m \in 2 .. Len(s) /\ Len(s) - (m + 1) = (Len(s) - m) - 1
        BY <1>1, <3>1, <4>1
      <4>3. QED
        BY <4>2
    <3>3. At(msg, a, f[i])
      BY <1>1, <3>1, <3>2
    <3>4. f[i] = f[i - 1] \o s[i] /\ f[i - 1] \in Texts /\ s[i] \in Texts
      <4>1. i \in 1 .. Len(s) /\ i # 1 /\ i - 1 \in 1 .. Len(s)
        BY <1>1
      <4>2. QED
        BY <1>1, <2>2, <2>3, <4>1
    <3>5. QED
      BY <3>2, <3>3, <3>4, AtParts
  <2>6. T = Nat
    <3>1. T \in SUBSET Nat
      OBVIOUS
    <3> HIDE DEF T
    <3>2. QED
      BY <2>4, <2>5, <3>1, AllNumbers
  <2>7. \A i \in 1 .. Len(s) : At(msg, a, f[i])
    <3>1. TAKE i \in 1 .. Len(s)
    <3>2. Len(s) - i \in Nat /\ Len(s) - i < Len(s) /\ Len(s) - (Len(s) - i) = i
      BY <1>1
    <3>3. QED
      BY <2>6, <3>2
  <2> HIDE DEF T
  <2> DEFINE o == [i \in 0 .. Len(s) |-> IF i = 0 THEN a ELSE a + Len(f[i])]
  <2>8. \A i \in 1 .. Len(s) : Len(f[i]) \in Nat
    BY <2>2, TextLen
  <2>9. /\ o \in [0 .. Len(s) -> Nat] /\ o[0] = a
        /\ \A i \in 1 .. Len(s) : o[i] = a + Len(f[i])
    BY <1>1, <2>8
  <2> HIDE DEF o
  <2>10. o[Len(s)] = a + Len(FlattenSeq(s))
    BY <1>1, <1>3, <2>1, <2>9
  <2>12. ASSUME NEW i \in 1 .. Len(s)
         PROVE  o[i] = o[i - 1] + Len(s[i]) /\ At(msg, o[i - 1], s[i])
    <3>1. CASE i = 1
      <4>1. f[i] = s[i] /\ o[i] = a + Len(f[i]) /\ o[i - 1] = a
        BY <1>1, <2>3, <2>9, <3>1
      <4>2. QED
        BY <2>7, <4>1
    <3>2. CASE i # 1
      <4>1. i - 1 \in 1 .. Len(s)
        BY <1>1, <3>2
      <4>2. /\ f[i] = f[i - 1] \o s[i] /\ f[i - 1] \in Texts /\ s[i] \in Texts
            /\ o[i] = a + Len(f[i]) /\ o[i - 1] = a + Len(f[i - 1])
        BY <1>1, <2>2, <2>3, <2>9, <3>2, <4>1
      <4>3. Len(f[i]) = Len(f[i - 1]) + Len(s[i])
        BY <4>2, ConcatProperties DEF Texts
      <4>4. At(msg, o[i - 1], s[i])
        <5>1. At(msg, a, f[i - 1] \o s[i])
          BY <2>7, <4>2
        <5>2. At(msg, a + Len(f[i - 1]), s[i])
          BY <4>2, <5>1, AtParts
        <5>3. QED
          BY <4>2, <5>2
      <4>5. Len(f[i - 1]) \in Nat /\ Len(s[i]) \in Nat
        BY <4>2, TextLen
      <4>6. o[i] = o[i - 1] + Len(s[i])
        <5>1. \A x, y \in Nat : a + (x + y) = (a + x) + y
          OBVIOUS
        <5>2. a + (Len(f[i - 1]) + Len(s[i])) = (a + Len(f[i - 1])) + Len(s[i])
          BY <4>5, <5>1
        <5>3. QED
          BY <4>2, <4>3, <5>2
      <4>7. QED
        BY <4>4, <4>6
    <3>3. QED
      BY <3>1, <3>2
  <2>11. QED
    BY <2>9, <2>10, <2>12
<1>4. QED
  BY <1>2, <1>3

------------------------------------------------------------------------------
(* The parser at a character. *)

NextState(s, ch, r, more) ==
  IF s \in LineStates THEN LineState(s, ch) ELSE HeaderState(s, ch, r, more)

\* The same within the message.
StateAfter(s, ch, r) == NextState(s, ch, r, TRUE)

CharAt(msg, end) == IF end < Len(msg) THEN msg[end + 1] ELSE NUL

Colons == {"URL_PARAM_KEY", "HEADER_KEY"}

\* What the step out of state s stores in r at the character with index end.
Stored(r, s, msg, end, start, colon) ==
  Store(r, s, SubSeq(msg, start + 1, end), SubSeq(msg, start + 1, colon),
        SubSeq(msg, colon + 2, end), SubSeq(msg, colon + 3, end),
        SubSeq(msg, start + 1, start + Len(msg) - end))

\* An iteration, written out for a cursor.
LEMMA IterateIs ==
  ASSUME NEW s, s \notin Over, NEW start, NEW colon, NEW r, NEW msg, NEW end,
         NEW t, t = NextState(s, CharAt(msg, end), r, end < Len(msg)),
         ~(s = "HEADER_VALUE" /\ CharAt(msg, end) = CR /\ end < colon + 2)
  PROVE  Iterate(Cursor(s, start, colon, r), msg, end)
           = Cursor(t,
                    IF EndsWord(s, t) THEN end + 1 ELSE start,
                    IF s \in Colons /\ s # t THEN end ELSE colon,
                    IF EndsWord(s, t) \/ s = "BODY"
                    THEN Stored(r, s, msg, end, start, colon) ELSE r)
<1> DEFINE c == Cursor(s, start, colon, r)
<1>1. c.state_ = s /\ c.start = start /\ c.colon = colon /\ c.request_ = r
  BY DEF Cursor
<1> HIDE DEF c
<1>2. Iterate(c, msg, end) = Step(c, msg, end)
  BY <1>1 DEF Iterate, Over
<1>3. t = IF s \in LineStates THEN LineState(s, IF end < Len(msg) THEN msg[end + 1] ELSE NUL)
           ELSE HeaderState(s, IF end < Len(msg) THEN msg[end + 1] ELSE NUL, r, end < Len(msg))
  BY DEF NextState, CharAt
<1>4. ~ Throws(c, IF end < Len(msg) THEN msg[end + 1] ELSE NUL, end)
  BY <1>1 DEF Throws, CharAt
<1>5. QED
  BY <1>1, <1>2, <1>3, <1>4 DEF Step, Cursor, Stored, Colons, c

\* While the iterations change nothing.
LEMMA Stutters ==
  ASSUME NEW msg, Len(msg) \in Nat, NEW R, NEW c, Parses(R, c, msg),
         NEW a \in Nat, NEW b \in Nat, a <= b, b <= Len(msg) + 1,
         \A k \in a .. b - 1 : Iterate(R[a], msg, k) = R[a]
  PROVE  R[b] = R[a]
<1> DEFINE T == {n \in Nat : a + n <= b => R[a + n] = R[a]}
<1>1. 0 \in T
  OBVIOUS
<1>2. ASSUME NEW n \in T
      PROVE  n + 1 \in T
  <2>1. SUFFICES ASSUME a + (n + 1) <= b
                 PROVE  R[a + (n + 1)] = R[a]
    OBVIOUS
  <2>2. n \in Nat
    OBVIOUS
  <2>3. a + n \in a .. b - 1 /\ a + n \in 0 .. Len(msg) /\ a + (n + 1) = (a + n) + 1
    BY <2>1, <2>2
  <2>4. R[(a + n) + 1] = Iterate(R[a + n], msg, a + n)
    BY <2>3 DEF Parses
  <2>5. R[a + n] = R[a]
    BY <2>1
  <2>6. QED
    BY <2>3, <2>4, <2>5
<1>3. T \in SUBSET Nat
  OBVIOUS
<1>4. T = Nat
  <2> HIDE DEF T
  <2>1. QED
    BY <1>1, <1>2, <1>3, AllNumbers
<1>5. b - a \in Nat /\ a + (b - a) = b /\ a + (b - a) <= b
  OBVIOUS
<1>6. QED
  BY <1>4, <1>5

\* A header's value ends at a CR.
LEMMA HeaderValueEnds ==
  ASSUME NEW r
  PROVE  StateAfter("HEADER_VALUE", CR, r) = "WHEN_CR"
BY DEF StateAfter, NextState, LineStates, HeaderState, Otherwise

\* Going over characters in one state.
LEMMA Scans ==
  ASSUME NEW msg \in Texts, NEW R, NEW c, Parses(R, c, msg),
         NEW a \in Nat, NEW b \in Nat, a <= b, b <= Len(msg),
         NEW s, s \notin Over \cup {"BODY"}, NEW start, NEW colon, NEW r,
         R[a] = Cursor(s, start, colon, r),
         \A k \in a + 1 .. b : StateAfter(s, msg[k], r) = s
  PROVE  R[b] = Cursor(s, start, colon, r)
<1>1. Len(msg) \in Nat
  BY TextLen
<1>2. ASSUME NEW k \in a .. b - 1
      PROVE  Iterate(R[a], msg, k) = R[a]
  <2>1. k + 1 \in a + 1 .. b /\ k < Len(msg)
    BY <1>1
  <2>2. s = NextState(s, CharAt(msg, k), r, k < Len(msg))
    BY <2>1 DEF CharAt, StateAfter
  <2>3. ~ EndsWord(s, s) /\ s # "BODY"
    BY DEF EndsWord
  <2>4. CharAt(msg, k) = msg[k + 1]
    BY <2>1 DEF CharAt
  <2>5. ~(s = "HEADER_VALUE" /\ CharAt(msg, k) = CR /\ k < colon + 2)
    <3>1. StateAfter(s, msg[k + 1], r) = s
      BY <2>1
    <3>2. StateAfter("HEADER_VALUE", CR, r) # "HEADER_VALUE"
      BY HeaderValueEnds
    <3>3. QED
      BY <2>4, <3>1, <3>2
  <2>6. QED
    BY <2>2, <2>3, <2>5, IterateIs
<1>3. b <= Len(msg) + 1
  BY <1>1
<1>4. QED
  BY <1>1, <1>2, <1>3, Stutters

\* A character that leads into another state: without the end of a word, and with it.
LEMMA Passes ==
  ASSUME NEW msg \in Texts, NEW R, NEW c, Parses(R, c, msg),
         NEW a \in Nat, a < Len(msg),
         NEW s, s \notin Over \cup {"BODY"}, NEW start, NEW colon, NEW r,
         R[a] = Cursor(s, start, colon, r),
         NEW t, t = StateAfter(s, msg[a + 1], r), t # s, ~ EndsWord(s, t)
  PROVE  R[a + 1] = Cursor(t, start, IF s \in Colons THEN a ELSE colon, r)
<1>1. R[a + 1] = Iterate(R[a], msg, a)
  BY TextLen DEF Parses
<1>2. /\ t = NextState(s, CharAt(msg, a), r, a < Len(msg))
      /\ ~(s = "HEADER_VALUE" /\ CharAt(msg, a) = CR /\ a < colon + 2)
  <2>1. t = NextState(s, CharAt(msg, a), r, a < Len(msg)) /\ CharAt(msg, a) = msg[a + 1]
    BY DEF CharAt, StateAfter
  <2>2. StateAfter("HEADER_VALUE", CR, r) = "WHEN_CR" /\ EndsWord("HEADER_VALUE", "WHEN_CR")
    BY HeaderValueEnds DEF EndsWord
  <2>3. QED
    BY <2>1, <2>2
<1>3. Iterate(Cursor(s, start, colon, r), msg, a)
       = Cursor(t,
                IF EndsWord(s, t) THEN a + 1 ELSE start,
                IF s \in Colons /\ s # t THEN a ELSE colon,
                IF EndsWord(s, t) \/ s = "BODY"
                THEN Stored(r, s, msg, a, start, colon) ELSE r)
  <2>1. s \notin Over
    OBVIOUS
  <2>2. QED
    BY ONLY <1>2, <2>1, IterateIs
<1>4. QED
  BY <1>1, <1>3

\* An iteration that ends a word stores it and moves start behind it.
LEMMA PassesWord ==
  ASSUME NEW msg \in Texts, NEW R, NEW c, Parses(R, c, msg),
         NEW a \in Nat, a < Len(msg),
         NEW s, s \notin Over \cup {"BODY"}, NEW start, NEW colon, NEW r,
         R[a] = Cursor(s, start, colon, r),
         NEW t, t = StateAfter(s, msg[a + 1], r), EndsWord(s, t),
         s = "HEADER_VALUE" => ~(a < colon + 2)
  PROVE  R[a + 1] = Cursor(t, a + 1, colon, Stored(r, s, msg, a, start, colon))
<1>1. R[a + 1] = Iterate(R[a], msg, a)
  BY TextLen DEF Parses
<1>2. /\ t = NextState(s, CharAt(msg, a), r, a < Len(msg))
      /\ ~(s = "HEADER_VALUE" /\ CharAt(msg, a) = CR /\ a < colon + 2)
  BY DEF CharAt, StateAfter
<1>3. s \notin Colons
  BY DEF EndsWord, Colons
<1>4. Iterate(Cursor(s, start, colon, r), msg, a)
       = Cursor(t,
                IF EndsWord(s, t) THEN a + 1 ELSE start,
                IF s \in Colons /\ s # t THEN a ELSE colon,
                IF EndsWord(s, t) \/ s = "BODY"
                THEN Stored(r, s, msg, a, start, colon) ELSE r)
  <2>1. s \notin Over
    OBVIOUS
  <2>2. QED
    BY ONLY <1>2, <2>1, IterateIs
<1>5. QED
  BY <1>1, <1>3, <1>4

\* r with one of its parts stored.
WithMethod(r, w) == [r EXCEPT !.method = w]
WithUrl(r, w) == [r EXCEPT !.url = w]
WithVersion(r, w) == [[r EXCEPT !.protocol = <<"H">>] EXCEPT !.version = w]
WithParameter(r, key, value) == [r EXCEPT !.request_params = Put(@, key, value)]
WithHeader(r, key, value) == [r EXCEPT !.headers = Put(@, key, value)]
WithBody(r, w) == [r EXCEPT !.body = w]

\* Storing one part keeps the others.
LEMMA WithKeeps ==
  ASSUME NEW r \in HttpRequest, NEW w, NEW key, NEW value
  PROVE  /\ WithMethod(r, w).method = w /\ WithMethod(r, w).headers = r.headers
         /\ WithMethod(r, w).request_params = r.request_params
         /\ WithUrl(r, w).url = w /\ WithUrl(r, w).method = r.method
         /\ WithUrl(r, w).headers = r.headers
         /\ WithUrl(r, w).request_params = r.request_params
         /\ WithVersion(r, w).protocol = <<"H">>
         /\ WithVersion(r, w).version = w /\ WithVersion(r, w).method = r.method
         /\ WithVersion(r, w).url = r.url /\ WithVersion(r, w).headers = r.headers
         /\ WithVersion(r, w).request_params = r.request_params
         /\ WithParameter(r, key, value).request_params = Put(r.request_params, key, value)
         /\ WithParameter(r, key, value).method = r.method
         /\ WithParameter(r, key, value).url = r.url
         /\ WithParameter(r, key, value).headers = r.headers
         /\ WithBody(r, w).body = w /\ WithBody(r, w).headers = r.headers
         /\ WithBody(r, w).request_params = r.request_params
         /\ WithBody(r, w).method = r.method /\ WithBody(r, w).url = r.url
         /\ WithBody(r, w).version = r.version /\ WithBody(r, w).protocol = r.protocol
BY DEF HttpRequest, WithMethod, WithUrl, WithVersion, WithParameter, WithBody

\* The same for a header.
LEMMA WithHeaderKeeps ==
  ASSUME NEW r \in HttpRequest, NEW key, NEW value
  PROVE  /\ WithHeader(r, key, value).headers = Put(r.headers, key, value)
         /\ WithHeader(r, key, value).request_params = r.request_params
         /\ WithHeader(r, key, value).method = r.method
         /\ WithHeader(r, key, value).url = r.url
         /\ WithHeader(r, key, value).version = r.version
         /\ WithHeader(r, key, value).protocol = r.protocol
BY DEF HttpRequest, WithHeader

------------------------------------------------------------------------------
(* The request line. *)

\* The transitions over the method and the URL.
LEMMA LineTransitions ==
  ASSUME NEW ch, NEW r
  PROVE  /\ ch \in Upper => StateAfter("START", ch, r) = "METHOD"
         /\ ch \in Upper => StateAfter("METHOD", ch, r) = "METHOD"
         /\ StateAfter("METHOD", SP, r) = "IN_URL"
         /\ ch \notin {SP, "?"} => StateAfter("IN_URL", ch, r) = "IN_URL"
         /\ StateAfter("IN_URL", "?", r) = "BEFORE_URL_PARAM_KEY"
         /\ StateAfter("IN_URL", SP, r) = "BEFORE_PROTOCOL"
BY DEF StateAfter, NextState, LineStates, LineState, Invalid, Otherwise, Upper, Blank, SP, CR, LF

\* The transitions over a parameter.
LEMMA ParameterTransitions ==
  ASSUME NEW ch, NEW r
  PROVE  /\ ch \notin Separators =>
              StateAfter("BEFORE_URL_PARAM_KEY", ch, r) = "URL_PARAM_KEY"
         /\ ch \notin Separators \cup {"="} =>
              StateAfter("URL_PARAM_KEY", ch, r) = "URL_PARAM_KEY"
         /\ StateAfter("URL_PARAM_KEY", "=", r) = "BEFORE_URL_PARAM_VALUE"
         /\ ch \notin Separators =>
              StateAfter("BEFORE_URL_PARAM_VALUE", ch, r) = "URL_PARAM_VALUE"
         /\ ch \notin Separators \cup {"&"} =>
              StateAfter("URL_PARAM_VALUE", ch, r) = "URL_PARAM_VALUE"
         /\ StateAfter("URL_PARAM_VALUE", "&", r) = "BEFORE_URL_PARAM_KEY"
         /\ StateAfter("URL_PARAM_VALUE", SP, r) = "BEFORE_PROTOCOL"
BY DEF StateAfter, NextState, LineStates, LineState, Invalid, Otherwise, Blank, SP, Separators, CR, LF

\* The transitions over the protocol, the version and the line end.
LEMMA VersionTransitions ==
  ASSUME NEW ch, NEW r
  PROVE  /\ StateAfter("BEFORE_PROTOCOL", "H", r) = "PROTOCOL"
         /\ StateAfter("PROTOCOL", "/", r) = "BEFORE_VERSION"
         /\ ch \in Digit => StateAfter("BEFORE_VERSION", ch, r) = "VERSION"
         /\ ch \in Digit \cup {"."} => StateAfter("VERSION", ch, r) = "VERSION"
         /\ StateAfter("VERSION", CR, r) = "WHEN_CR"
         /\ StateAfter("WHEN_CR", LF, r) = "CR_LF"
BY DEF StateAfter, NextState, LineStates, LineState, HeaderState, Invalid, Otherwise, Blank, SP, Digit, CR, LF

\* The transitions over a header, the empty line and the line feed before a body.
LEMMA HeaderTransitions ==
  ASSUME NEW ch, NEW r
  PROVE  /\ ch \notin Separators => StateAfter("CR_LF", ch, r) = "HEADER_KEY"
         /\ StateAfter("CR_LF", CR, r) = "CR_LF_CR"
         /\ ch # ":" => StateAfter("HEADER_KEY", ch, r) = "HEADER_KEY"
         /\ StateAfter("HEADER_KEY", ":", r) = "HEADER_VALUE"
         /\ ch # CR => StateAfter("HEADER_VALUE", ch, r) = "HEADER_VALUE"
         /\ StateAfter("HEADER_VALUE", CR, r) = "WHEN_CR"
         /\ <<"L">> \notin DOMAIN r.headers => StateAfter("CR_LF_CR", LF, r) = "BODY"
BY DEF StateAfter, NextState, LineStates, HeaderState, AfterHeaders, Invalid, Otherwise, Blank, SP, Separators, CR, LF

\* What the steps at the ends of words store.
LEMMA StoredIs ==
  ASSUME NEW r, NEW msg, NEW end, NEW start, NEW colon
  PROVE  /\ Stored(r, "METHOD", msg, end, start, colon)
              = [r EXCEPT !.method = SubSeq(msg, start + 1, end)]
         /\ Stored(r, "IN_URL", msg, end, start, colon)
              = [r EXCEPT !.url = SubSeq(msg, start + 1, end)]
         /\ Stored(r, "PROTOCOL", msg, end, start, colon)
              = [r EXCEPT !.protocol = SubSeq(msg, start + 1, end)]
         /\ Stored(r, "VERSION", msg, end, start, colon)
              = [r EXCEPT !.version = SubSeq(msg, start + 1, end)]
         /\ Stored(r, "BODY", msg, end, start, colon)
              = [r EXCEPT !.body = SubSeq(msg, start + 1, start + Len(msg) - end)]
         /\ Stored(r, "WHEN_CR", msg, end, start, colon) = r
         /\ Stored(r, "CR_LF_CR", msg, end, start, colon) = r
BY DEF Stored, Store

\* From the start of a request to the space behind its method.
LEMMA MethodIsRead ==
  ASSUME NEW msg \in Texts, NEW r, NEW R, Parses(R, Cursor("START", 0, 0, r), msg),
         NEW w \in Seq(Upper \ {"L"}), w # << >>, At(msg, 0, w \o <<SP>>)
  PROVE  R[Len(w) + 1] = Cursor("IN_URL", Len(w) + 1, 0, WithMethod(r, w))
<1> DEFINE n == Len(w)
<1>1. /\ n \in Nat /\ n >= 1 /\ w \in Texts /\ <<SP>> \in Texts /\ Len(<<SP>>) = 1
      /\ \A i \in 1 .. n : w[i] \in Upper
  <2>1. Upper \ {"L"} \subseteq Sent /\ SP \in Sent
    BY DEF Upper, Sent, Char, Blank, SP
  <2>2. w \in Texts /\ <<SP>> \in Texts
    BY <2>1, SeqMonotonic DEF Texts
  <2>3. \A i \in 1 .. n : w[i] \in Upper
    BY ElementOfSeq
  <2>4. QED
    BY <2>2, <2>3, EmptySeq, TextLen DEF Texts
<1>2. At(msg, 0, w) /\ At(msg, n, <<SP>>) /\ Len(msg) \in Nat
  <2>1. At(msg, 0 + Len(w), <<SP>>) /\ At(msg, 0, w)
    BY <1>1, AtParts
  <2>2. QED
    BY <1>1, <2>1, TextLen
<1>3. /\ n + 1 <= Len(msg) /\ msg[n + 1] = SP /\ 0 < Len(msg) /\ n < Len(msg)
      /\ \A i \in 1 .. n : msg[i] = w[i]
  BY <1>1, <1>2 DEF At
<1> HIDE DEF n
<1>4. R[0] = Cursor("START", 0, 0, r)
  BY DEF Parses
<1>5. R[1] = Cursor("METHOD", 0, 0, r)
  <2>1. "METHOD" = StateAfter("START", msg[0 + 1], r)
    <3>1. msg[0 + 1] \in Upper
      BY <1>1, <1>3
    <3>2. QED
      BY <3>1, LineTransitions
  <2>2. ~ EndsWord("START", "METHOD") /\ "START" \notin Colons /\ "START" \notin Over \cup {"BODY"}
    BY DEF EndsWord, Colons, Over
  <2>3. R[0 + 1] = Cursor("METHOD", 0, 0, r)
    BY <1>3, <1>4, <2>1, <2>2, Passes
  <2>4. QED
    BY <2>3
<1>6. R[n] = Cursor("METHOD", 0, 0, r)
  <2>1. \A k \in 1 + 1 .. n : StateAfter("METHOD", msg[k], r) = "METHOD"
    BY <1>1, <1>3, LineTransitions
  <2>2. "METHOD" \notin Over \cup {"BODY"}
    BY DEF Over
  <2>3. 1 <= n /\ n <= Len(msg)
    BY <1>1, <1>2, <1>3
  <2>4. QED
    BY <1>1, <1>5, <2>1, <2>2, <2>3, Scans
<1>7. R[n + 1] = Cursor("IN_URL", n + 1, 0, Stored(r, "METHOD", msg, n, 0, 0))
  <2>1. EndsWord("METHOD", "IN_URL") /\ "METHOD" \notin Over \cup {"BODY"}
    BY DEF EndsWord, Over
  <2>2. "IN_URL" = StateAfter("METHOD", msg[n + 1], r)
    BY <1>3, LineTransitions
  <2>3. QED
    BY <1>1, <1>3, <1>6, <2>1, <2>2, PassesWord, SMTT(60)
<1>8. SubSeq(msg, 0 + 1, n) = w
  <2>1. SubSeq(msg, 0 + 1, 0 + Len(w)) = w
    BY <1>1, <1>2, AtIsWord
  <2>2. QED
    BY <1>1, <2>1 DEF n
<1>9. Stored(r, "METHOD", msg, n, 0, 0) = [r EXCEPT !.method = SubSeq(msg, 0 + 1, n)]
  BY StoredIs
<1>10. QED
  BY <1>7, <1>8, <1>9 DEF n, WithMethod

\* Where a parameter may follow: the state behind the character that is there instead.
Following(ch) == IF ch = SP THEN "BEFORE_PROTOCOL" ELSE "BEFORE_URL_PARAM_KEY"
ReadTo(R, msg, b, colon, r) == R[b + 1] = Cursor(Following(msg[b + 1]), b + 1, colon, r)

\* From the start of the URL to the character behind it.
LEMMA UrlIsRead ==
  ASSUME NEW msg \in Texts, NEW r, NEW R, NEW c, Parses(R, c, msg),
         NEW a \in Nat, NEW colon, R[a] = Cursor("IN_URL", a, colon, r),
         NEW w \in Text({SP, "?"}), At(msg, a, w), a + Len(w) < Len(msg),
         msg[a + Len(w) + 1] \in {SP, "?"}
  PROVE  ReadTo(R, msg, a + Len(w), colon, WithUrl(r, w))
<1>1. w \in Texts /\ Len(w) \in Nat /\ \A i \in 1 .. Len(w) : w[i] \notin {SP, "?"}
  <2>1. w \in Seq(Sent \ {SP, "?"})
    BY DEF Text
  <2>2. w \in Texts
    BY <2>1, SeqMonotonic DEF Texts
  <2>3. \A i \in 1 .. Len(w) : w[i] \in Sent \ {SP, "?"}
    BY <2>1, ElementOfSeq
  <2>4. QED
    BY <2>2, <2>3, TextLen
<1>2. PICK b \in Nat : b = a + Len(w)
  BY <1>1
<1>3. \A k \in a + 1 .. b : msg[k] \notin {SP, "?"}
  <2>1. TAKE k \in a + 1 .. b
  <2>2. PICK i \in 1 .. Len(w) : i = k - a /\ a + i = k
    <3>1. k - a \in 1 .. Len(w) /\ a + (k - a) = k
      BY <1>1, <1>2
    <3>2. QED
      BY <3>1
  <2>3. msg[a + i] = w[i]
    BY DEF At
  <2>4. QED
    BY <1>1, <2>2, <2>3
<1>4. "IN_URL" \notin Over \cup {"BODY"}
  BY DEF Over
<1>5. R[b] = Cursor("IN_URL", a, colon, r)
  <2>1. \A k \in a + 1 .. b : StateAfter("IN_URL", msg[k], r) = "IN_URL"
    BY <1>3, LineTransitions
  <2>2. a <= b /\ b <= Len(msg)
    BY <1>1, <1>2, TextLen
  <2>3. QED
    BY <1>4, <2>1, <2>2, Scans
<1>6. SubSeq(msg, a + 1, b) = w
  BY <1>1, <1>2, AtIsWord
<1>7. Stored(r, "IN_URL", msg, b, a, colon) = WithUrl(r, w)
  <2>1. Stored(r, "IN_URL", msg, b, a, colon) = [r EXCEPT !.url = SubSeq(msg, a + 1, b)]
    BY DEF Stored, Store
  <2>2. QED
    BY <1>6, <2>1 DEF WithUrl
<1>8. CASE msg[b + 1] = SP
  <2>1. EndsWord("IN_URL", "BEFORE_PROTOCOL")
    BY DEF EndsWord
  <2>2. "BEFORE_PROTOCOL" = StateAfter("IN_URL", msg[b + 1], r)
    BY <1>8, LineTransitions
  <2>3. b < Len(msg)
    BY <1>2
  <2>4. R[b + 1] = Cursor("BEFORE_PROTOCOL", b + 1, colon, WithUrl(r, w))
    <3>1. R[b + 1] = Cursor("BEFORE_PROTOCOL", b + 1, colon,
                            Stored(r, "IN_URL", msg, b, a, colon))
      BY <1>4, <1>5, <2>1, <2>2, <2>3, PassesWord
    <3>2. QED
      BY <1>7, <3>1
  <2>5. QED
    BY <1>2, <1>8, <2>4 DEF Following, ReadTo
<1>9. CASE msg[b + 1] = "?"
  <2>1. EndsWord("IN_URL", "BEFORE_URL_PARAM_KEY")
    BY DEF EndsWord
  <2>2. "BEFORE_URL_PARAM_KEY" = StateAfter("IN_URL", msg[b + 1], r)
    BY <1>9, LineTransitions
  <2>3. b < Len(msg)
    BY <1>2
  <2>4. R[b + 1] = Cursor("BEFORE_URL_PARAM_KEY", b + 1, colon, WithUrl(r, w))
    <3>1. R[b + 1] = Cursor("BEFORE_URL_PARAM_KEY", b + 1, colon,
                            Stored(r, "IN_URL", msg, b, a, colon))
      BY <1>4, <1>5, <2>1, <2>2, <2>3, PassesWord
    <3>2. QED
      BY <1>7, <3>1
  <2>5. msg[b + 1] # SP
    BY <1>9 DEF SP
  <2>6. QED
    BY <1>2, <2>4, <2>5 DEF Following, ReadTo
<1>10. QED
  BY <1>2, <1>8, <1>9

\* The characters of a text in the message.
LEMMA TextIsAt ==
  ASSUME NEW msg \in Texts, NEW a \in Nat, NEW X, NEW w \in Text(X), At(msg, a, w)
  PROVE  /\ w \in Texts /\ Len(w) \in Nat /\ a + Len(w) <= Len(msg)
         /\ \A k \in a + 1 .. a + Len(w) : msg[k] \in Sent \ X
<1>1. w \in Seq(Sent \ X)
  BY DEF Text
<1>2. w \in Texts
  BY <1>1, SeqMonotonic DEF Texts
<1>3. \A i \in 1 .. Len(w) : w[i] \in Sent \ X
  BY <1>1, ElementOfSeq
<1>4. Len(w) \in Nat
  BY <1>2, TextLen
<1>5. ASSUME NEW k \in a + 1 .. a + Len(w)
      PROVE  msg[k] \in Sent \ X
  <2>1. k - a \in 1 .. Len(w) /\ a + (k - a) = k
    BY <1>4
  <2>2. msg[a + (k - a)] = w[k - a]
    BY <2>1 DEF At
  <2>3. QED
    BY <1>3, <2>1, <2>2
<1>6. QED
  BY <1>2, <1>4, <1>5 DEF At

\* A word's first character is read in a state of its own.
LEMMA ParameterIsRead ==
  ASSUME NEW msg \in Texts, NEW r, NEW R, NEW c, Parses(R, c, msg),
         NEW a \in Nat, NEW colon, R[a] = Cursor("BEFORE_URL_PARAM_KEY", a, colon, r),
         NEW key \in Word(Separators \cup {"="}), NEW value \in Word(Separators \cup {"&"}),
         At(msg, a, key), NEW d \in Nat, d = a + Len(key),
         msg[d + 1] = "=", At(msg, d + 1, value),
         NEW b \in Nat, b = d + 1 + Len(value), b < Len(msg),
         msg[b + 1] \in {SP, "&"}
  PROVE  ReadTo(R, msg, b, d, WithParameter(r, key, value))
<1>1. /\ key \in Text(Separators \cup {"="}) /\ key # << >>
      /\ value \in Text(Separators \cup {"&"}) /\ value # << >>
  BY DEF Word
<1>2. /\ key \in Texts /\ Len(key) \in Nat /\ a + Len(key) <= Len(msg)
      /\ \A k \in a + 1 .. a + Len(key) : msg[k] \in Sent \ (Separators \cup {"="})
  BY <1>1, TextIsAt
<1>3. Len(key) >= 1
  BY <1>1, <1>2, EmptySeq DEF Texts
<1>5. d + 1 \in Nat /\ At(msg, d + 1, value) /\ msg[d + 1] = "=" /\ Len(msg) \in Nat
  BY TextLen
<1>6. /\ value \in Texts /\ Len(value) \in Nat /\ d + 1 + Len(value) <= Len(msg)
      /\ \A k \in d + 1 + 1 .. d + 1 + Len(value) : msg[k] \in Sent \ (Separators \cup {"&"})
  BY <1>1, <1>5, TextIsAt
<1>7. Len(value) >= 1
  BY <1>1, <1>6, EmptySeq DEF Texts
<1>8. b \in Nat /\ b = d + 1 + Len(value) /\ b >= d + 2 /\ d >= a + 1 /\ d + 2 \in Nat
  BY <1>2, <1>3, <1>6, <1>7
<1>9. /\ SubSeq(msg, a + 1, d) = key /\ SubSeq(msg, d + 2, b) = value
  <2>1. SubSeq(msg, (d + 1) + 1, (d + 1) + Len(value)) = value
    BY <1>5, <1>6, AtIsWord
  <2>2. (d + 1) + 1 = d + 2
    OBVIOUS
  <2>3. SubSeq(msg, a + 1, a + Len(key)) = key
    BY <1>2, AtIsWord
  <2>4. QED
    BY <1>8, <2>1, <2>2, <2>3
<1>10. /\ "BEFORE_URL_PARAM_KEY" \notin Over \cup {"BODY"} /\ "URL_PARAM_KEY" \notin Over \cup {"BODY"}
       /\ "BEFORE_URL_PARAM_VALUE" \notin Over \cup {"BODY"}
       /\ "URL_PARAM_VALUE" \notin Over \cup {"BODY"}
  BY DEF Over
<1>11. R[a + 1] = Cursor("URL_PARAM_KEY", a, colon, r)
  <2>1. "URL_PARAM_KEY" = StateAfter("BEFORE_URL_PARAM_KEY", msg[a + 1], r)
    <3>1. msg[a + 1] \notin Separators
      BY <1>2, <1>3
    <3>2. QED
      BY <3>1, ParameterTransitions
  <2>2. /\ ~ EndsWord("BEFORE_URL_PARAM_KEY", "URL_PARAM_KEY")
        /\ "BEFORE_URL_PARAM_KEY" \notin Colons
    BY DEF EndsWord, Colons
  <2>3. a < Len(msg)
    BY <1>2, <1>3, <1>5
  <2>4. R[a + 1] = Cursor("URL_PARAM_KEY", a,
                          IF "BEFORE_URL_PARAM_KEY" \in Colons THEN a ELSE colon, r)
    BY <1>10, <2>1, <2>2, <2>3, Passes
  <2>5. QED
    BY <2>2, <2>4
<1>12. R[d] = Cursor("URL_PARAM_KEY", a, colon, r)
  <2>1. \A k \in (a + 1) + 1 .. d : StateAfter("URL_PARAM_KEY", msg[k], r) = "URL_PARAM_KEY"
    <3>1. \A k \in (a + 1) + 1 .. d : msg[k] \notin Separators \cup {"="}
      BY <1>2
    <3>2. QED
      BY <3>1, ParameterTransitions
  <2>2. a + 1 \in Nat /\ a + 1 <= d /\ d <= Len(msg)
    BY <1>2, <1>8
  <2>3. QED
    BY <1>10, <1>11, <2>1, <2>2, Scans, SMTT(60)
<1>13. R[d + 1] = Cursor("BEFORE_URL_PARAM_VALUE", a, d, r)
  <2>1. "BEFORE_URL_PARAM_VALUE" = StateAfter("URL_PARAM_KEY", msg[d + 1], r)
    BY <1>5, ParameterTransitions
  <2>2. /\ ~ EndsWord("URL_PARAM_KEY", "BEFORE_URL_PARAM_VALUE")
        /\ "URL_PARAM_KEY" \in Colons
    BY DEF EndsWord, Colons
  <2>3. d < Len(msg)
    BY <1>5, <1>8
  <2>4. R[d + 1] = Cursor("BEFORE_URL_PARAM_VALUE", a,
                          IF "URL_PARAM_KEY" \in Colons THEN d ELSE colon, r)
    BY <1>10, <1>12, <2>1, <2>2, <2>3, Passes
  <2>5. QED
    BY <2>2, <2>4
<1>14. R[d + 2] = Cursor("URL_PARAM_VALUE", a, d, r)
  <2>1. "URL_PARAM_VALUE" = StateAfter("BEFORE_URL_PARAM_VALUE", msg[(d + 1) + 1], r)
    <3>1. msg[(d + 1) + 1] \notin Separators
      BY <1>6, <1>7
    <3>2. QED
      BY <3>1, ParameterTransitions
  <2>2. /\ ~ EndsWord("BEFORE_URL_PARAM_VALUE", "URL_PARAM_VALUE")
        /\ "BEFORE_URL_PARAM_VALUE" \notin Colons
    BY DEF EndsWord, Colons
  <2>3. d + 1 < Len(msg) /\ d + 1 \in Nat /\ (d + 1) + 1 = d + 2
    BY <1>5, <1>8
  <2>4. R[(d + 1) + 1] = Cursor("URL_PARAM_VALUE", a,
                          IF "BEFORE_URL_PARAM_VALUE" \in Colons THEN d + 1 ELSE d, r)
    BY <1>10, <1>13, <2>1, <2>2, <2>3, Passes
  <2>5. QED
    BY <2>2, <2>3, <2>4
<1>15. R[b] = Cursor("URL_PARAM_VALUE", a, d, r)
  <2>1. \A k \in (d + 2) + 1 .. b : StateAfter("URL_PARAM_VALUE", msg[k], r) = "URL_PARAM_VALUE"
    <3>1. \A k \in (d + 2) + 1 .. b : msg[k] \notin Separators \cup {"&"}
      BY <1>6, <1>8
    <3>2. QED
      BY <3>1, ParameterTransitions
  <2>2. d + 2 <= b /\ b <= Len(msg)
    BY <1>5, <1>8
  <2>3. QED
    BY <1>8, <1>10, <1>14, <2>1, <2>2, Scans, SMTT(60)
<1>16. Stored(r, "URL_PARAM_VALUE", msg, b, a, d)
         = WithParameter(r, key, value)
  <2>1. Stored(r, "URL_PARAM_VALUE", msg, b, a, d)
         = [r EXCEPT !.request_params = Put(@, SubSeq(msg, a + 1, d), SubSeq(msg, d + 2, b))]
    BY DEF Stored, Store
  <2>2. QED
    BY <1>9, <2>1 DEF WithParameter
<1>17. CASE msg[b + 1] = SP
  <2>1. EndsWord("URL_PARAM_VALUE", "BEFORE_PROTOCOL")
    BY DEF EndsWord
  <2>2. "BEFORE_PROTOCOL" = StateAfter("URL_PARAM_VALUE", msg[b + 1], r)
    BY <1>17, ParameterTransitions
  <2>3. R[b + 1] = Cursor("BEFORE_PROTOCOL", b + 1, d,
                          Stored(r, "URL_PARAM_VALUE", msg, b, a, d))
    BY <1>8, <1>10, <1>15, <2>1, <2>2, PassesWord
  <2>4. QED
    BY <1>8, <1>16, <1>17, <2>3 DEF Following, ReadTo
<1>18. CASE msg[b + 1] = "&"
  <2>1. EndsWord("URL_PARAM_VALUE", "BEFORE_URL_PARAM_KEY")
    BY DEF EndsWord
  <2>2. "BEFORE_URL_PARAM_KEY" = StateAfter("URL_PARAM_VALUE", msg[b + 1], r)
    BY <1>18, ParameterTransitions
  <2>3. R[b + 1] = Cursor("BEFORE_URL_PARAM_KEY", b + 1, d,
                          Stored(r, "URL_PARAM_VALUE", msg, b, a, d))
    BY <1>8, <1>10, <1>15, <2>1, <2>2, PassesWord
  <2>4. msg[b + 1] # SP
    BY <1>18 DEF SP
  <2>5. QED
    BY <1>8, <1>16, <2>3, <2>4 DEF Following, ReadTo
<1>19. QED
  BY <1>17, <1>18

\* The line end at b has been read.
LineEnd(R, b, colon, r) == R[b + 2] = Cursor("CR_LF", b + 2, colon, r)

\* From the space behind the URL to the end of the request line.
LEMMA VersionIsRead ==
  ASSUME NEW msg \in Texts, NEW r, NEW R, NEW c, Parses(R, c, msg),
         NEW a \in Nat, NEW colon, R[a] = Cursor("BEFORE_PROTOCOL", a, colon, r),
         NEW w \in Seq(Digit \cup {"."}), w # << >>, w[1] \in Digit,
         msg[a + 1] = "H", msg[a + 2] = "/", At(msg, a + 2, w),
         NEW b \in Nat, b = a + 2 + Len(w), b + 2 <= Len(msg),
         msg[b + 1] = CR, msg[b + 2] = LF
  PROVE  LineEnd(R, b, colon, WithVersion(r, w))
<1>1. /\ w \in Texts /\ Len(w) \in Nat /\ Len(w) >= 1
      /\ \A i \in 1 .. Len(w) : w[i] \in Digit \cup {"."}
  <2>1. Digit \cup {"."} \subseteq Sent
    BY DEF Digit, Sent, Char
  <2>2. w \in Texts
    BY <2>1, SeqMonotonic DEF Texts
  <2>3. \A i \in 1 .. Len(w) : w[i] \in Digit \cup {"."}
    BY ElementOfSeq
  <2>4. QED
    BY <2>2, <2>3, EmptySeq, TextLen DEF Texts
<1>2. /\ b \in Nat /\ b >= a + 3 /\ Len(msg) \in Nat
      /\ \A k \in a + 2 + 1 .. b : msg[k] \in Digit \cup {"."}
      /\ msg[a + 3] \in Digit
  <2>1. b \in Nat /\ b >= a + 3 /\ Len(msg) \in Nat
    BY <1>1, TextLen
  <2>2. ASSUME NEW k \in a + 2 + 1 .. b
        PROVE  msg[k] \in Digit \cup {"."}
    <3>1. k - (a + 2) \in 1 .. Len(w) /\ a + 2 + (k - (a + 2)) = k
      BY <1>1, <2>1
    <3>2. msg[a + 2 + (k - (a + 2))] = w[k - (a + 2)]
      BY <3>1 DEF At
    <3>3. QED
      BY <1>1, <3>1, <3>2
  <2>3. msg[a + 2 + 1] = w[1] /\ a + 2 + 1 = a + 3
    BY <1>1 DEF At
  <2>4. QED
    BY <2>1, <2>2, <2>3
<1>3. /\ "BEFORE_PROTOCOL" \notin Over \cup {"BODY"} /\ "PROTOCOL" \notin Over \cup {"BODY"}
      /\ "BEFORE_VERSION" \notin Over \cup {"BODY"} /\ "VERSION" \notin Over \cup {"BODY"}
      /\ "WHEN_CR" \notin Over \cup {"BODY"}
  BY DEF Over
<1>4. R[a + 1] = Cursor("PROTOCOL", a, colon, r)
  <2>1. "PROTOCOL" = StateAfter("BEFORE_PROTOCOL", msg[a + 1], r)
    BY VersionTransitions
  <2>2. ~ EndsWord("BEFORE_PROTOCOL", "PROTOCOL") /\ "BEFORE_PROTOCOL" \notin Colons
    BY DEF EndsWord, Colons
  <2>3. a < Len(msg)
    BY <1>2
  <2>4. R[a + 1] = Cursor("PROTOCOL", a,
                          IF "BEFORE_PROTOCOL" \in Colons THEN a ELSE colon, r)
    BY <1>3, <2>1, <2>2, <2>3, Passes, SMTT(60)
  <2>5. QED
    BY <2>2, <2>4
<1> DEFINE p == [r EXCEPT !.protocol = <<"H">>]
<1>5. R[a + 2] = Cursor("BEFORE_VERSION", a + 2, colon, p)
  <2>1. "BEFORE_VERSION" = StateAfter("PROTOCOL", msg[(a + 1) + 1], r)
    <3>1. (a + 1) + 1 = a + 2
      OBVIOUS
    <3>2. QED
      BY <3>1, VersionTransitions
  <2>2. EndsWord("PROTOCOL", "BEFORE_VERSION")
    BY DEF EndsWord
  <2>3. a + 1 < Len(msg) /\ a + 1 \in Nat
    BY <1>2
  <2>4. R[(a + 1) + 1] = Cursor("BEFORE_VERSION", (a + 1) + 1, colon,
                                Stored(r, "PROTOCOL", msg, a + 1, a, colon))
    BY <1>3, <1>4, <2>1, <2>2, <2>3, PassesWord
  <2>5. SubSeq(msg, a + 1, a + 1) = <<"H">>
    <3>1. At(msg, a, <<"H">>)
      <4>1. Len(<<"H">>) = 1 /\ <<"H">>[1] = "H" /\ a + 1 <= Len(msg)
        BY <2>3
      <4>2. QED
        BY <4>1 DEF At
    <3>2. <<"H">> \in Texts
      BY DEF Texts, Sent, Char, Upper
    <3>3. SubSeq(msg, a + 1, a + Len(<<"H">>)) = <<"H">>
      BY <3>1, <3>2, AtIsWord
    <3>4. QED
      BY <3>3
  <2>6. Stored(r, "PROTOCOL", msg, a + 1, a, colon) = p
    <3>1. Stored(r, "PROTOCOL", msg, a + 1, a, colon)
            = [r EXCEPT !.protocol = SubSeq(msg, a + 1, a + 1)]
      BY DEF Stored, Store
    <3>2. QED
      BY <2>5, <3>1
  <2>7. (a + 1) + 1 = a + 2
    OBVIOUS
  <2> HIDE DEF p
  <2>8. QED
    BY <2>4, <2>6, <2>7
<1> HIDE DEF p
<1>6. R[a + 3] = Cursor("VERSION", a + 2, colon, p)
  <2>1. "VERSION" = StateAfter("BEFORE_VERSION", msg[(a + 2) + 1], p)
    <3>1. (a + 2) + 1 = a + 3
      OBVIOUS
    <3>2. QED
      BY <1>2, <3>1, VersionTransitions
  <2>2. ~ EndsWord("BEFORE_VERSION", "VERSION") /\ "BEFORE_VERSION" \notin Colons
    BY DEF EndsWord, Colons
  <2>3. a + 2 < Len(msg) /\ a + 2 \in Nat /\ (a + 2) + 1 = a + 3
    BY <1>2
  <2>4. R[(a + 2) + 1] = Cursor("VERSION", a + 2,
                          IF "BEFORE_VERSION" \in Colons THEN a + 2 ELSE colon, p)
    BY <1>3, <1>5, <2>1, <2>2, <2>3, Passes, SMTT(60)
  <2>5. QED
    BY <2>2, <2>3, <2>4
<1>7. R[b] = Cursor("VERSION", a + 2, colon, p)
  <2>1. \A k \in (a + 3) + 1 .. b : StateAfter("VERSION", msg[k], p) = "VERSION"
    <3>1. \A k \in (a + 3) + 1 .. b : msg[k] \in Digit \cup {"."}
      BY <1>2
    <3>2. QED
      BY <3>1, VersionTransitions
  <2>2. a + 3 \in Nat /\ a + 3 <= b /\ b <= Len(msg)
    BY <1>2
  <2>3. QED
    BY <1>2, <1>3, <1>6, <2>1, <2>2, Scans, SMTT(60)
<1> DEFINE v == [p EXCEPT !.version = w]
<1>8. R[b + 1] = Cursor("WHEN_CR", b + 1, colon, v)
  <2>1. "WHEN_CR" = StateAfter("VERSION", msg[b + 1], p)
    BY VersionTransitions
  <2>2. EndsWord("VERSION", "WHEN_CR")
    BY DEF EndsWord
  <2>3. b < Len(msg)
    BY <1>2
  <2>4. R[b + 1] = Cursor("WHEN_CR", b + 1, colon, Stored(p, "VERSION", msg, b, a + 2, colon))
    <3>1. PICK e : e = a + 2
      OBVIOUS
    <3>2. R[b] = Cursor("VERSION", e, colon, p)
      BY <1>7, <3>1
    <3>3. R[b + 1] = Cursor("WHEN_CR", b + 1, colon, Stored(p, "VERSION", msg, b, e, colon))
      <4>1. b \in Nat /\ "VERSION" \notin Over \cup {"BODY"}
        BY <1>2, <1>3
      <4> HIDE DEF v
      <4>2. QED
        BY <2>1, <2>2, <2>3, <3>2, <4>1, PassesWord
    <3>4. QED
      BY <3>1, <3>3
  <2>5. SubSeq(msg, (a + 2) + 1, b) = w
    <3>1. a + 2 \in Nat
      OBVIOUS
    <3>2. SubSeq(msg, (a + 2) + 1, (a + 2) + Len(w)) = w
      BY <1>1, <3>1, AtIsWord
    <3>3. QED
      BY <3>2
  <2>6. Stored(p, "VERSION", msg, b, a + 2, colon) = v
    <3>1. Stored(p, "VERSION", msg, b, a + 2, colon)
            = [p EXCEPT !.version = SubSeq(msg, (a + 2) + 1, b)]
      BY DEF Stored, Store
    <3>2. QED
      BY <2>5, <3>1
  <2> HIDE DEF v
  <2>7. QED
    BY <2>4, <2>6
<1> HIDE DEF v
<1>9. R[b + 2] = Cursor("CR_LF", b + 2, colon, v)
  <2>1. "CR_LF" = StateAfter("WHEN_CR", msg[(b + 1) + 1], v)
    <3>1. (b + 1) + 1 = b + 2
      BY <1>2
    <3>2. QED
      BY <3>1, VersionTransitions
  <2>2. EndsWord("WHEN_CR", "CR_LF")
    BY DEF EndsWord
  <2>3. b + 1 < Len(msg) /\ b + 1 \in Nat /\ (b + 1) + 1 = b + 2
    BY <1>2
  <2>4. R[(b + 1) + 1] = Cursor("CR_LF", (b + 1) + 1, colon,
                                Stored(v, "WHEN_CR", msg, b + 1, b + 1, colon))
    BY <1>3, <1>8, <2>1, <2>2, <2>3, PassesWord
  <2>5. Stored(v, "WHEN_CR", msg, b + 1, b + 1, colon) = v
    BY StoredIs
  <2>6. QED
    BY <2>3, <2>4, <2>5
<1>10. QED
  BY <1>2, <1>9 DEF v, p, WithVersion, LineEnd

------------------------------------------------------------------------------
(* Headers and body. *)

\* From the start of a header to the end of its line.
LEMMA HeaderIsRead ==
  ASSUME NEW msg \in Texts, NEW r, NEW R, NEW c, Parses(R, c, msg),
         NEW a \in Nat, NEW colon, R[a] = Cursor("CR_LF", a, colon, r),
         NEW key \in Word(Separators \cup {":"}), NEW value \in Text({CR}),
         At(msg, a, key), NEW d \in Nat, d = a + Len(key),
         msg[d + 1] = ":", msg[d + 2] = SP, At(msg, d + 2, value),
         NEW b \in Nat, b = d + 2 + Len(value), b + 2 <= Len(msg),
         msg[b + 1] = CR, msg[b + 2] = LF
  PROVE  LineEnd(R, b, d, WithHeader(r, key, value))
<1>1. key \in Text(Separators \cup {":"}) /\ key # << >>
  BY DEF Word
<1>2. /\ key \in Texts /\ Len(key) \in Nat /\ a + Len(key) <= Len(msg)
      /\ \A k \in a + 1 .. d : msg[k] \in Sent \ (Separators \cup {":"})
  BY <1>1, TextIsAt
<1>3. Len(key) >= 1
  BY <1>1, <1>2, EmptySeq DEF Texts
<1>4. d + 2 \in Nat /\ Len(msg) \in Nat
  BY TextLen
<1>5. /\ value \in Texts /\ Len(value) \in Nat
      /\ \A k \in d + 2 + 1 .. d + 2 + Len(value) : msg[k] \in Sent \ {CR}
  BY <1>4, TextIsAt
<1>6. b \in Nat /\ b >= d + 2 /\ d >= a + 1
  BY <1>2, <1>3, <1>5
<1>7. /\ "CR_LF" \notin Over \cup {"BODY"} /\ "HEADER_KEY" \notin Over \cup {"BODY"}
      /\ "HEADER_VALUE" \notin Over \cup {"BODY"} /\ "WHEN_CR" \notin Over \cup {"BODY"}
  BY DEF Over
<1>8. /\ SubSeq(msg, a + 1, d) = key /\ SubSeq(msg, d + 3, b) = value
  <2>1. SubSeq(msg, (d + 2) + 1, (d + 2) + Len(value)) = value
    BY <1>4, <1>5, AtIsWord
  <2>2. (d + 2) + 1 = d + 3
    OBVIOUS
  <2>3. SubSeq(msg, a + 1, a + Len(key)) = key
    BY <1>2, AtIsWord
  <2>4. QED
    BY <2>1, <2>2, <2>3
<1>9. R[a + 1] = Cursor("HEADER_KEY", a, colon, r)
  <2>1. "HEADER_KEY" = StateAfter("CR_LF", msg[a + 1], r)
    <3>1. msg[a + 1] \notin Separators
      BY <1>2, <1>6
    <3>2. QED
      BY <3>1, HeaderTransitions
  <2>2. ~ EndsWord("CR_LF", "HEADER_KEY") /\ "CR_LF" \notin Colons
    BY DEF EndsWord, Colons
  <2>3. a < Len(msg)
    BY <1>2, <1>3, <1>4
  <2>4. R[a + 1] = Cursor("HEADER_KEY", a, IF "CR_LF" \in Colons THEN a ELSE colon, r)
    BY <1>7, <2>1, <2>2, <2>3, Passes, SMTT(60)
  <2>5. QED
    BY <2>2, <2>4
<1>10. R[d] = Cursor("HEADER_KEY", a, colon, r)
  <2>1. \A k \in (a + 1) + 1 .. d : StateAfter("HEADER_KEY", msg[k], r) = "HEADER_KEY"
    <3>1. \A k \in (a + 1) + 1 .. d : msg[k] # ":"
      BY <1>2
    <3>2. QED
      BY <3>1, HeaderTransitions
  <2>2. a + 1 \in Nat /\ a + 1 <= d /\ d <= Len(msg)
    BY <1>2, <1>4, <1>6
  <2>3. QED
    BY <1>7, <1>9, <2>1, <2>2, Scans, SMTT(60)
<1>11. R[d + 1] = Cursor("HEADER_VALUE", a, d, r)
  <2>1. "HEADER_VALUE" = StateAfter("HEADER_KEY", msg[d + 1], r)
    BY HeaderTransitions
  <2>2. ~ EndsWord("HEADER_KEY", "HEADER_VALUE") /\ "HEADER_KEY" \in Colons
    BY DEF EndsWord, Colons
  <2>3. d < Len(msg)
    BY <1>4, <1>6
  <2>4. R[d + 1] = Cursor("HEADER_VALUE", a, IF "HEADER_KEY" \in Colons THEN d ELSE colon, r)
    BY <1>7, <1>10, <2>1, <2>2, <2>3, Passes, SMTT(60)
  <2>5. QED
    BY <2>2, <2>4
<1>12. R[b] = Cursor("HEADER_VALUE", a, d, r)
  <2>1. \A k \in (d + 1) + 1 .. b : StateAfter("HEADER_VALUE", msg[k], r) = "HEADER_VALUE"
    <3>1. SP # CR
      BY DEF SP, CR
    <3>2. ASSUME NEW k \in (d + 1) + 1 .. b
          PROVE  msg[k] # CR
      <4>1. k = d + 2 \/ k \in d + 2 + 1 .. d + 2 + Len(value)
        BY <1>5, <1>6
      <4>2. QED
        BY <1>5, <3>1, <4>1
    <3>3. QED
      BY <3>2, HeaderTransitions
  <2>2. PICK e \in Nat : e = d + 1
    OBVIOUS
  <2>3. e <= b /\ b <= Len(msg) /\ b \in Nat
    BY <1>4, <1>6, <2>2
  <2>4. R[e] = Cursor("HEADER_VALUE", a, d, r)
    BY <1>11, <2>2
  <2>5. \A k \in e + 1 .. b : StateAfter("HEADER_VALUE", msg[k], r) = "HEADER_VALUE"
    BY <2>1, <2>2
  <2>6. QED
    BY <1>7, <2>3, <2>4, <2>5, Scans
<1> DEFINE q == WithHeader(r, key, value)
<1>13. Stored(r, "HEADER_VALUE", msg, b, a, d) = q
  <2>1. Stored(r, "HEADER_VALUE", msg, b, a, d)
         = [r EXCEPT !.headers = Put(@, SubSeq(msg, a + 1, d), SubSeq(msg, d + 3, b))]
    BY DEF Stored, Store
  <2>2. QED
    BY <1>8, <2>1 DEF WithHeader
<1> HIDE DEF q
<1>14. R[b + 1] = Cursor("WHEN_CR", b + 1, d, q)
  <2>1. "WHEN_CR" = StateAfter("HEADER_VALUE", msg[b + 1], r)
    BY HeaderTransitions
  <2>2. EndsWord("HEADER_VALUE", "WHEN_CR")
    BY DEF EndsWord
  <2>3. b < Len(msg)
    BY <1>4, <1>6
  <2>4. R[b + 1] = Cursor("WHEN_CR", b + 1, d, Stored(r, "HEADER_VALUE", msg, b, a, d))
    <3>1. ~(b < d + 2)
      BY <1>5, <1>6, TextLen
    <3>2. QED
      BY <1>6, <1>7, <1>12, <2>1, <2>2, <2>3, <3>1, PassesWord, SMTT(60)
  <2>5. QED
    BY <1>13, <2>4
<1>15. R[b + 2] = Cursor("CR_LF", b + 2, d, q)
  <2>1. "CR_LF" = StateAfter("WHEN_CR", msg[(b + 1) + 1], q)
    <3>1. (b + 1) + 1 = b + 2
      BY <1>6
    <3>2. QED
      BY <3>1, VersionTransitions, SMTT(60)
  <2>2. EndsWord("WHEN_CR", "CR_LF")
    BY DEF EndsWord
  <2>3. b + 1 < Len(msg) /\ b + 1 \in Nat /\ (b + 1) + 1 = b + 2
    BY <1>4, <1>6
  <2>4. R[(b + 1) + 1] = Cursor("CR_LF", (b + 1) + 1, d,
                                Stored(q, "WHEN_CR", msg, b + 1, b + 1, d))
    BY <1>7, <1>14, <2>1, <2>2, <2>3, PassesWord
  <2>5. Stored(q, "WHEN_CR", msg, b + 1, b + 1, d) = q
    BY StoredIs
  <2>6. QED
    BY <2>3, <2>4, <2>5
<1>16. QED
  BY <1>6, <1>15 DEF q, LineEnd

\* The iterations end with r.
ReadsAll(R, msg, r) ==
  LET c == R[Len(msg) + 1]
  IN  c.state_ = "COMPLETE" /\ c.request_ = r

\* From the empty line to the end of the message: the rest of it is the body.
LEMMA BodyIsRead ==
  ASSUME NEW msg \in Texts, NEW r, NEW R, NEW c, Parses(R, c, msg),
         NEW a \in Nat, NEW colon, R[a] = Cursor("CR_LF", a, colon, r),
         <<"L">> \notin DOMAIN r.headers,
         msg[a + 1] = CR, msg[a + 2] = LF,
         NEW w \in Texts, NEW e \in Nat, e = a + 2, At(msg, e, w), e + Len(w) = Len(msg)
  PROVE  ReadsAll(R, msg, WithBody(r, w))
<1>1. Len(w) \in Nat /\ Len(msg) \in Nat /\ a + 2 <= Len(msg) /\ a + 1 \in Nat /\ a + 2 \in Nat
  BY TextLen
<1>2. /\ "CR_LF" \notin Over \cup {"BODY"} /\ "CR_LF_CR" \notin Over \cup {"BODY"}
      /\ "BODY" \notin Over
  BY DEF Over
<1>3. R[a + 1] = Cursor("CR_LF_CR", a, colon, r)
  <2>1. "CR_LF_CR" = StateAfter("CR_LF", msg[a + 1], r)
    BY HeaderTransitions
  <2>2. ~ EndsWord("CR_LF", "CR_LF_CR") /\ "CR_LF" \notin Colons
    BY DEF EndsWord, Colons
  <2>3. a < Len(msg)
    BY <1>1
  <2>4. R[a + 1] = Cursor("CR_LF_CR", a, IF "CR_LF" \in Colons THEN a ELSE colon, r)
    BY <1>2, <2>1, <2>2, <2>3, Passes
  <2>5. QED
    BY <2>2, <2>4
<1>5. R[e] = Cursor("BODY", e, colon, r)
  <2>1. "BODY" = StateAfter("CR_LF_CR", msg[(a + 1) + 1], r)
    <3>1. (a + 1) + 1 = a + 2
      OBVIOUS
    <3>2. QED
      BY <3>1, HeaderTransitions
  <2>2. EndsWord("CR_LF_CR", "BODY")
    BY DEF EndsWord
  <2>3. a + 1 < Len(msg) /\ (a + 1) + 1 = e
    BY <1>1
  <2>4. R[(a + 1) + 1] = Cursor("BODY", (a + 1) + 1, colon,
                                Stored(r, "CR_LF_CR", msg, a + 1, a, colon))
    BY <1>1, <1>2, <1>3, <2>1, <2>2, <2>3, PassesWord
  <2>5. Stored(r, "CR_LF_CR", msg, a + 1, a, colon) = r
    BY StoredIs
  <2>6. QED
    BY <2>3, <2>4, <2>5
<1> DEFINE q == WithBody(r, w)
<1>6. Stored(r, "BODY", msg, e, e, colon) = q
  <2>1. Stored(r, "BODY", msg, e, e, colon)
          = [r EXCEPT !.body = SubSeq(msg, e + 1, e + Len(msg) - e)]
    BY DEF Stored, Store
  <2>2. e + Len(msg) - e = e + Len(w)
    BY <1>1
  <2>3. SubSeq(msg, e + 1, e + Len(w)) = w
    BY AtIsWord
  <2>4. QED
    BY <2>1, <2>2, <2>3 DEF WithBody
<1> HIDE DEF q
<1>7. R[e + 1] = Cursor("COMPLETE", e, colon, q)
  <2>1. "COMPLETE" = NextState("BODY", CharAt(msg, e), r, e < Len(msg))
    BY DEF NextState, HeaderState, LineStates
  <2>2. ~ EndsWord("BODY", "COMPLETE") /\ "BODY" \notin Colons
    BY DEF EndsWord, Colons
  <2>3. Iterate(Cursor("BODY", e, colon, r), msg, e)
           = Cursor("COMPLETE", e, colon, Stored(r, "BODY", msg, e, e, colon))
    BY <1>2, <2>1, <2>2, IterateIs
  <2>4. R[e + 1] = Iterate(R[e], msg, e)
    BY <1>1 DEF Parses
  <2>5. QED
    BY <1>5, <1>6, <2>3, <2>4
<1>8. R[Len(msg) + 1] = R[e + 1]
  <2>1. \A k \in e + 1 .. (Len(msg) + 1) - 1 : Iterate(R[e + 1], msg, k) = R[e + 1]
    BY <1>7 DEF Iterate, Cursor, Over
  <2>2. /\ e + 1 \in Nat /\ Len(msg) + 1 \in Nat /\ e + 1 <= Len(msg) + 1
        /\ Len(msg) + 1 <= Len(msg) + 1
    BY <1>1
  <2>3. QED
    BY <1>1, <2>1, <2>2, Stutters
<1>9. QED
  BY <1>7, <1>8 DEF q, ReadsAll, Cursor

------------------------------------------------------------------------------
(* The parts of a request as the client writes it. *)

\* Two texts joined are a text.
LEMMA TextsJoined ==
  ASSUME NEW u \in Texts, NEW w \in Texts
  PROVE  /\ u \o w \in Texts /\ Len(u \o w) = Len(u) + Len(w)
         /\ Len(u) \in Nat /\ Len(w) \in Nat
BY ConcatProperties, TextLen DEF Texts

\* One character that is found.
LEMMA OneAt ==
  ASSUME NEW msg, NEW a \in Nat, NEW x, At(msg, a, <<x>>)
  PROVE  msg[a + 1] = x
<1>1. Len(<<x>>) = 1 /\ <<x>>[1] = x
  OBVIOUS
<1>2. QED
  BY <1>1 DEF At

\* Two characters that are found.
LEMMA TwoAt ==
  ASSUME NEW msg, NEW a \in Nat, NEW x, NEW y, At(msg, a, <<x, y>>)
  PROVE  msg[a + 1] = x /\ msg[a + 2] = y /\ Len(<<x, y>>) = 2
<1>1. Len(<<x, y>>) = 2 /\ <<x, y>>[1] = x /\ <<x, y>>[2] = y
  OBVIOUS
<1>2. QED
  BY <1>1 DEF At

\* The separators are texts.
LEMMA Marks ==
  /\ <<SP>> \in Texts /\ <<"?">> \in Texts /\ <<"&">> \in Texts /\ <<"=">> \in Texts
  /\ <<SP, "H", "/">> \in Texts /\ <<":", SP>> \in Texts /\ <<CR, LF>> \in Texts
  /\ <<":">> \in Texts
<1>1. {SP, "?", "&", "=", "H", "/", ":", CR, LF} \subseteq Sent
  BY DEF Sent, Char, Blank, Upper, Digit, SP, CR, LF
<1>2. QED
  BY <1>1 DEF Texts

ParameterMark(i) == IF i = 1 THEN "?" ELSE "&"
ParameterText(i, pair) == (IF i = 1 THEN <<"?">> ELSE <<"&">>) \o pair[1] \o <<"=">> \o pair[2]
HeaderText(pair) == pair[1] \o <<":", SP>> \o pair[2] \o <<CR, LF>>
Polite(t) == t.sep = <<":", SP>>

ParameterAt(msg, a, i, pair) ==
  /\ msg[a + 1] = ParameterMark(i)
  /\ At(msg, a + 1, pair[1])
  /\ msg[a + 1 + Len(pair[1]) + 1] = "="
  /\ At(msg, a + 1 + Len(pair[1]) + 1, pair[2])
  /\ a + Len(ParameterText(i, pair)) = a + 1 + Len(pair[1]) + 1 + Len(pair[2])
HeaderAt(msg, a, pair) ==
  /\ At(msg, a, pair[1])
  /\ msg[a + Len(pair[1]) + 1] = ":" /\ msg[a + Len(pair[1]) + 2] = SP
  /\ At(msg, a + Len(pair[1]) + 2, pair[2])
  /\ msg[a + Len(pair[1]) + 2 + Len(pair[2]) + 1] = CR
  /\ msg[a + Len(pair[1]) + 2 + Len(pair[2]) + 2] = LF
  /\ a + Len(HeaderText(pair)) = a + Len(pair[1]) + 2 + Len(pair[2]) + 2

\* A parameter that is found, part by part.
LEMMA ParameterParts ==
  ASSUME NEW msg \in Texts, NEW a \in Nat, NEW i, NEW pair, pair[1] \in Texts, pair[2] \in Texts,
         At(msg, a, ParameterText(i, pair))
  PROVE  ParameterAt(msg, a, i, pair)
<1> DEFINE x == IF i = 1 THEN <<"?">> ELSE <<"&">>
           y == ParameterMark(i)
<1>1. x = <<y>> /\ x \in Texts /\ Len(x) = 1
  BY Marks DEF ParameterMark
<1> HIDE DEF x, y
<1>2. PICK key \in Texts, value \in Texts : pair[1] = key /\ pair[2] = value
  OBVIOUS
<1>3. ParameterText(i, pair) = ((x \o key) \o <<"=">>) \o value
  BY <1>2 DEF ParameterText, x
<1>4. /\ x \o key \in Texts /\ Len(x \o key) = 1 + Len(key) /\ <<"=">> \in Texts
      /\ (x \o key) \o <<"=">> \in Texts
      /\ Len((x \o key) \o <<"=">>) = 1 + Len(key) + 1
      /\ Len(((x \o key) \o <<"=">>) \o value) = 1 + Len(key) + 1 + Len(value)
      /\ Len(key) \in Nat /\ Len(value) \in Nat
  <2>1. x \o key \in Texts /\ Len(x \o key) = 1 + Len(key)
    BY <1>1, TextsJoined
  <2>2. <<"=">> \in Texts /\ Len(<<"=">>) = 1
    BY Marks
  <2>3. (x \o key) \o <<"=">> \in Texts /\ Len((x \o key) \o <<"=">>) = 1 + Len(key) + 1
    BY <2>1, <2>2, TextsJoined
  <2>4. Len(((x \o key) \o <<"=">>) \o value) = 1 + Len(key) + 1 + Len(value)
    BY <2>3, TextsJoined
  <2>5. QED
    BY <2>1, <2>2, <2>3, <2>4, TextLen
<1>5. At(msg, a, (x \o key) \o <<"=">>) /\ At(msg, a + Len((x \o key) \o <<"=">>), value)
  BY <1>3, <1>4, AtParts, ZenonT(60)
<1>6. At(msg, a, x \o key) /\ At(msg, a + Len(x \o key), <<"=">>)
  BY <1>4, <1>5, AtParts
<1>7. At(msg, a, x) /\ At(msg, a + Len(x), key)
  BY <1>1, <1>6, AtParts
<1>8. msg[a + 1] = y
  BY <1>1, <1>7, OneAt
<1>9. msg[a + 1 + Len(key) + 1] = "="
  <2>1. a + Len(x \o key) = a + 1 + Len(key) /\ a + 1 + Len(key) \in Nat
    BY <1>4
  <2>2. QED
    BY <1>6, <2>1, OneAt
<1>10. a + Len((x \o key) \o <<"=">>) = a + 1 + Len(key) + 1
  BY <1>4
<1>11. a + Len(ParameterText(i, pair)) = a + 1 + Len(key) + 1 + Len(value)
  <2>1. \A k, v \in Nat : a + (1 + k + 1 + v) = a + 1 + k + 1 + v
    OBVIOUS
  <2>2. /\ Len(ParameterText(i, pair)) = 1 + Len(key) + 1 + Len(value)
        /\ Len(key) \in Nat /\ Len(value) \in Nat
    BY <1>3, <1>4
  <2>3. a + (1 + Len(key) + 1 + Len(value)) = a + 1 + Len(key) + 1 + Len(value)
    BY <2>1, <2>2
  <2>4. QED
    BY <2>2, <2>3
<1>12. QED
  BY <1>1, <1>2, <1>5, <1>7, <1>8, <1>9, <1>10, <1>11 DEF y, ParameterAt

\* A header that is found, part by part.
LEMMA HeaderParts ==
  ASSUME NEW msg \in Texts, NEW a \in Nat, NEW pair, pair[1] \in Texts, pair[2] \in Texts,
         At(msg, a, HeaderText(pair))
  PROVE  HeaderAt(msg, a, pair)
<1>1. PICK key \in Texts, value \in Texts : pair[1] = key /\ pair[2] = value
  OBVIOUS
<1> DEFINE x == <<":", SP>>
           y == <<CR, LF>>
<1>2. x \in Texts /\ y \in Texts /\ Len(x) = 2 /\ Len(y) = 2
  BY Marks
<1>3. HeaderText(pair) = ((key \o x) \o value) \o y
  BY <1>1 DEF HeaderText
<1> HIDE DEF x, y
<1>4. /\ key \o x \in Texts /\ Len(key \o x) = Len(key) + 2
      /\ (key \o x) \o value \in Texts /\ Len((key \o x) \o value) = Len(key) + 2 + Len(value)
      /\ Len(((key \o x) \o value) \o y) = Len(key) + 2 + Len(value) + 2
      /\ Len(key) \in Nat /\ Len(value) \in Nat
  <2>1. key \o x \in Texts /\ Len(key \o x) = Len(key) + 2
    BY <1>2, TextsJoined, ZenonT(60)
  <2>2. /\ (key \o x) \o value \in Texts
        /\ Len((key \o x) \o value) = Len(key) + 2 + Len(value)
    BY <2>1, TextsJoined
  <2>3. Len(((key \o x) \o value) \o y) = Len(key) + 2 + Len(value) + 2
    BY <1>2, <2>2, TextsJoined, ZenonT(60)
  <2>4. QED
    BY <2>1, <2>2, <2>3, TextLen
<1>5. At(msg, a, (key \o x) \o value) /\ At(msg, a + Len((key \o x) \o value), y)
  BY <1>2, <1>3, <1>4, AtParts, ZenonT(60)
<1>6. At(msg, a, key \o x) /\ At(msg, a + Len(key \o x), value)
  BY <1>4, <1>5, AtParts
<1>7. At(msg, a, key) /\ At(msg, a + Len(key), x)
  BY <1>2, <1>6, AtParts
<1>8. msg[a + Len(key) + 1] = ":" /\ msg[a + Len(key) + 2] = SP
  <2>1. a + Len(key) \in Nat
    BY <1>4
  <2>2. QED
    BY <1>7, <2>1, TwoAt DEF x
<1>9. /\ msg[a + Len(key) + 2 + Len(value) + 1] = CR
      /\ msg[a + Len(key) + 2 + Len(value) + 2] = LF
  <2>1. /\ a + Len((key \o x) \o value) = a + Len(key) + 2 + Len(value)
        /\ a + Len(key) + 2 + Len(value) \in Nat
    BY <1>4
  <2>2. At(msg, a + Len(key) + 2 + Len(value), y)
    BY <1>5, <2>1
  <2>3. QED
    BY <2>1, <2>2, TwoAt DEF y
<1>10. /\ a + Len(key \o x) = a + Len(key) + 2
       /\ a + Len(HeaderText(pair)) = a + Len(key) + 2 + Len(value) + 2
  BY <1>3, <1>4
<1>11. QED
  BY <1>1, <1>6, <1>7, <1>8, <1>9, <1>10 DEF HeaderAt

\* Three characters that are found.
LEMMA ThreeAt ==
  ASSUME NEW msg, NEW a \in Nat, NEW x, NEW y, NEW z, At(msg, a, <<x, y, z>>)
  PROVE  /\ msg[a + 1] = x /\ msg[a + 2] = y /\ msg[a + 3] = z
         /\ Len(<<x, y, z>>) = 3
<1>1. Len(<<x, y, z>>) = 3 /\ <<x, y, z>>[1] = x /\ <<x, y, z>>[2] = y /\ <<x, y, z>>[3] = z
  OBVIOUS
<1>2. QED
  BY <1>1 DEF At

\* The types of the parts of a request.
LEMMA PartsTyped ==
  ASSUME NEW t \in Syntax
  PROVE  /\ t.method \in Seq(Upper \ {"L"}) /\ t.method # << >>
         /\ t.url \in Text({SP, "?"})
         /\ t.version \in Seq(Digit \cup {"."}) /\ t.version # << >>
         /\ Len(t.params) \in Nat /\ DOMAIN t.params = 1 .. Len(t.params)
         /\ \A i \in 1 .. Len(t.params) :
              /\ t.params[i][1] \in Word(Separators \cup {"="})
              /\ t.params[i][2] \in Word(Separators \cup {"&"})
              /\ t.params[i][1] \in Texts /\ t.params[i][2] \in Texts
         /\ Len(t.headers) \in Nat /\ DOMAIN t.headers = 1 .. Len(t.headers)
         /\ \A i \in 1 .. Len(t.headers) :
              /\ t.headers[i][1] \in Word(Separators \cup {":"})
              /\ t.headers[i][2] \in Text({CR})
              /\ t.headers[i][1] \in Texts /\ t.headers[i][2] \in Texts
         /\ t.method \in Texts /\ t.url \in Texts /\ t.version \in Texts /\ t.body \in Texts
<1>1. /\ t.method \in Seq(Upper \ {"L"}) /\ t.method # << >>
      /\ t.url \in Text({SP, "?"})
      /\ t.version \in Seq(Digit \cup {"."}) /\ t.version # << >>
      /\ t.params \in Seq(Word(Separators \cup {"="}) \X Word(Separators \cup {"&"}))
      /\ t.headers \in Seq(Word(Separators \cup {":"}) \X Text({CR}))
      /\ t.body \in Text({})
  BY DEF Syntax
<1>2. \A X : Text(X) \subseteq Texts
  <2>1. TAKE X
  <2>2. \A w \in Seq(Sent \ X) : w \in Seq(Sent)
    BY SeqMonotonic
  <2>3. QED
    BY <2>2 DEF Text, Texts
<1>3. \A X : Word(X) \subseteq Texts
  BY <1>2 DEF Word
<1>4. t.method \in Texts
  <2>1. Upper \ {"L"} \subseteq Sent
    BY DEF Upper, Sent, Char
  <2>2. QED
    BY <1>1, <2>1, SeqMonotonic DEF Texts
<1>5. t.version \in Texts
  <2>1. Digit \cup {"."} \subseteq Sent
    BY DEF Digit, Sent, Char
  <2>2. QED
    BY <1>1, <2>1, SeqMonotonic DEF Texts
<1>6. /\ Len(t.params) \in Nat /\ DOMAIN t.params = 1 .. Len(t.params)
      /\ \A i \in 1 .. Len(t.params) :
           t.params[i] \in Word(Separators \cup {"="}) \X Word(Separators \cup {"&"})
  BY <1>1, LenProperties, ElementOfSeq
<1>7. /\ Len(t.headers) \in Nat /\ DOMAIN t.headers = 1 .. Len(t.headers)
      /\ \A i \in 1 .. Len(t.headers) :
           t.headers[i] \in Word(Separators \cup {":"}) \X Text({CR})
  BY <1>1, LenProperties, ElementOfSeq
<1>8. \A i \in 1 .. Len(t.params) :
         /\ t.params[i][1] \in Word(Separators \cup {"="})
         /\ t.params[i][2] \in Word(Separators \cup {"&"})
         /\ t.params[i][1] \in Texts /\ t.params[i][2] \in Texts
  BY <1>3, <1>6
<1>9. \A i \in 1 .. Len(t.headers) :
         /\ t.headers[i][1] \in Word(Separators \cup {":"})
         /\ t.headers[i][2] \in Text({CR})
         /\ t.headers[i][1] \in Texts /\ t.headers[i][2] \in Texts
  BY <1>2, <1>3, <1>7
<1>10. QED
  BY <1>1, <1>2, <1>4, <1>5, <1>6, <1>7, <1>8, <1>9

ParameterTexts(t) == [i \in DOMAIN t.params |-> ParameterText(i, t.params[i])]
HeaderTexts(t) ==
  [i \in DOMAIN t.headers |-> t.headers[i][1] \o t.sep \o t.headers[i][2] \o <<CR, LF>>]

\* The texts of all parameters and of all headers.
LEMMA PairsTyped ==
  ASSUME NEW t \in Syntax
  PROVE  /\ ParameterTexts(t) \in Seq(Texts) /\ HeaderTexts(t) \in Seq(Texts)
         /\ Len(ParameterTexts(t)) = Len(t.params) /\ Len(HeaderTexts(t)) = Len(t.headers)
         /\ \A i \in 1 .. Len(t.params) : ParameterTexts(t)[i] = ParameterText(i, t.params[i])
         /\ Polite(t) => \A i \in 1 .. Len(t.headers) : HeaderTexts(t)[i] = HeaderText(t.headers[i])
         /\ FlattenSeq(ParameterTexts(t)) \in Texts /\ FlattenSeq(HeaderTexts(t)) \in Texts
<1> DEFINE ps == ParameterTexts(t)
           hs == HeaderTexts(t)
<1>1. \A i \in 1 .. Len(t.params) : ParameterText(i, t.params[i]) \in Texts
  <2>1. TAKE i \in 1 .. Len(t.params)
  <2>2. PICK x \in Texts : x = IF i = 1 THEN <<"?">> ELSE <<"&">>
    BY Marks
  <2>3. t.params[i][1] \in Texts /\ t.params[i][2] \in Texts
    BY PartsTyped
  <2>4. x \o t.params[i][1] \in Texts /\ <<"=">> \in Texts
    BY <2>3, TextsJoined, Marks
  <2>5. (x \o t.params[i][1]) \o <<"=">> \in Texts
    BY <2>4, TextsJoined
  <2>6. ((x \o t.params[i][1]) \o <<"=">>) \o t.params[i][2] \in Texts
    BY <2>3, <2>5, TextsJoined
  <2>7. QED
    BY <2>2, <2>6 DEF ParameterText
<1>2. \A i \in 1 .. Len(t.headers) :
        t.headers[i][1] \o t.sep \o t.headers[i][2] \o <<CR, LF>> \in Texts
  <2>1. TAKE i \in 1 .. Len(t.headers)
  <2>2. t.headers[i][1] \in Texts /\ t.headers[i][2] \in Texts
    BY PartsTyped
  <2>3. t.sep \in Texts
    BY Marks DEF Syntax
  <2>4. t.headers[i][1] \o t.sep \in Texts /\ <<CR, LF>> \in Texts
    BY <2>2, <2>3, TextsJoined, Marks
  <2>5. (t.headers[i][1] \o t.sep) \o t.headers[i][2] \in Texts
    BY <2>2, <2>4, TextsJoined
  <2>6. ((t.headers[i][1] \o t.sep) \o t.headers[i][2]) \o <<CR, LF>> \in Texts
    BY <2>4, <2>5, TextsJoined
  <2>7. QED
    BY <2>6
<1>3. /\ DOMAIN t.params = 1 .. Len(t.params) /\ Len(t.params) \in Nat
      /\ DOMAIN t.headers = 1 .. Len(t.headers) /\ Len(t.headers) \in Nat
  BY PartsTyped
<1>4. ps \in [1 .. Len(t.params) -> Texts] /\ hs \in [1 .. Len(t.headers) -> Texts]
  BY <1>1, <1>2, <1>3 DEF ParameterTexts, HeaderTexts
<1>5. /\ \A i \in 1 .. Len(t.params) : ps[i] = ParameterText(i, t.params[i])
      /\ Polite(t) => \A i \in 1 .. Len(t.headers) : hs[i] = HeaderText(t.headers[i])
  BY <1>3 DEF ParameterTexts, HeaderTexts, HeaderText, Polite
<1> HIDE DEF ps, hs
<1>6. ps \in Seq(Texts) /\ hs \in Seq(Texts)
  BY <1>3, <1>4, SeqDef
<1>7. Len(ps) = Len(t.params) /\ Len(hs) = Len(t.headers)
  <2>1. /\ DOMAIN ps = 1 .. Len(ps) /\ Len(ps) \in Nat
        /\ DOMAIN hs = 1 .. Len(hs) /\ Len(hs) \in Nat
    BY <1>6, LenProperties
  <2>2. DOMAIN ps = 1 .. Len(t.params) /\ DOMAIN hs = 1 .. Len(t.headers)
    BY <1>4
  <2>3. \A m, n \in Nat : 1 .. m = 1 .. n => m = n
    OBVIOUS
  <2>4. QED
    BY <1>3, <2>1, <2>2, <2>3
<1>8. FlattenSeq(ps) \in Texts /\ FlattenSeq(hs) \in Texts
  BY <1>6, FlattenAppend, EmptySeq DEF Texts
<1>9. QED
  BY <1>5, <1>6, <1>7, <1>8 DEF ps, hs

\* Where the parts stand: o[i] is where the i-th parameter ends, v the version, and
\* h[i] the i-th header.
PartsAt(msg, t, o, v, h) ==
  LET n == Len(t.params)
      k == Len(t.headers)
  IN  /\ At(msg, 0, t.method \o <<SP>>)
      /\ At(msg, Len(t.method) + 1, t.url)
      /\ o[0] = Len(t.method) + 1 + Len(t.url)
      /\ \A i \in 1 .. n : /\ o[i] = o[i - 1] + Len(ParameterText(i, t.params[i]))
                           /\ At(msg, o[i - 1], ParameterText(i, t.params[i]))
      /\ msg[o[n] + 1] = SP /\ msg[o[n] + 2] = "H" /\ msg[o[n] + 3] = "/"
      /\ At(msg, o[n] + 3, t.version)
      /\ v = o[n] + 3 + Len(t.version)
      /\ msg[v + 1] = CR /\ msg[v + 2] = LF
      /\ h[0] = v + 2
      /\ \A i \in 1 .. k : /\ h[i] = h[i - 1] + Len(HeaderText(t.headers[i]))
                           /\ At(msg, h[i - 1], HeaderText(t.headers[i]))
      /\ msg[h[k] + 1] = CR /\ msg[h[k] + 2] = LF
      /\ At(msg, h[k] + 2, t.body)
      /\ h[k] + 2 + Len(t.body) = Len(msg)

\* The text of a request contains its parts, each at its place.
LEMMA RequestParts ==
  ASSUME NEW t \in Syntax
  PROVE  /\ Render(t) \in Texts
         /\ Polite(t) =>
              \E o \in [0 .. Len(t.params) -> Nat], v \in Nat, h \in [0 .. Len(t.headers) -> Nat] :
                PartsAt(Render(t), t, o, v, h)
<1>1. /\ t.method \in Texts /\ t.url \in Texts /\ t.version \in Texts /\ t.body \in Texts
      /\ Len(t.params) \in Nat /\ Len(t.headers) \in Nat
  BY PartsTyped
<1>2. PICK ps \in Texts, hs \in Texts :
        ps = FlattenSeq(ParameterTexts(t)) /\ hs = FlattenSeq(HeaderTexts(t))
  BY PairsTyped
<1>3. PICK a1 \in Texts : a1 = t.method \o <<SP>> /\ Len(a1) = Len(t.method) + 1
  <2>1. Len(<<SP>>) = 1
    OBVIOUS
  <2>2. t.method \o <<SP>> \in Texts /\ Len(t.method \o <<SP>>) = Len(t.method) + Len(<<SP>>)
    BY <1>1, Marks, TextsJoined
  <2>3. QED
    BY <2>1, <2>2
<1>4. PICK a2 \in Texts : a2 = a1 \o t.url /\ Len(a2) = Len(a1) + Len(t.url)
  BY <1>1, TextsJoined
<1>5. PICK a3 \in Texts : a3 = a2 \o ps /\ Len(a3) = Len(a2) + Len(ps)
  BY TextsJoined
<1>6. PICK a4 \in Texts : a4 = a3 \o <<SP, "H", "/">> /\ Len(a4) = Len(a3) + 3
  <2>1. Len(<<SP, "H", "/">>) = 3
    OBVIOUS
  <2>2. a3 \o <<SP, "H", "/">> \in Texts
        /\ Len(a3 \o <<SP, "H", "/">>) = Len(a3) + Len(<<SP, "H", "/">>)
    BY Marks, TextsJoined
  <2>3. QED
    BY <2>1, <2>2
<1>7. PICK a5 \in Texts : a5 = a4 \o t.version /\ Len(a5) = Len(a4) + Len(t.version)
  BY <1>1, TextsJoined
<1>8. PICK a6 \in Texts : a6 = a5 \o <<CR, LF>> /\ Len(a6) = Len(a5) + 2
  <2>1. Len(<<CR, LF>>) = 2
    OBVIOUS
  <2>2. a5 \o <<CR, LF>> \in Texts /\ Len(a5 \o <<CR, LF>>) = Len(a5) + Len(<<CR, LF>>)
    BY Marks, TextsJoined
  <2>3. QED
    BY <2>1, <2>2
<1>9. PICK a7 \in Texts : a7 = a6 \o hs /\ Len(a7) = Len(a6) + Len(hs)
  BY TextsJoined
<1>10. PICK a8 \in Texts : a8 = a7 \o <<CR, LF>> /\ Len(a8) = Len(a7) + 2
  <2>1. Len(<<CR, LF>>) = 2
    OBVIOUS
  <2>2. a7 \o <<CR, LF>> \in Texts /\ Len(a7 \o <<CR, LF>>) = Len(a7) + Len(<<CR, LF>>)
    BY Marks, TextsJoined
  <2>3. QED
    BY <2>1, <2>2
<1>11. PICK msg \in Texts : msg = a8 \o t.body /\ Len(msg) = Len(a8) + Len(t.body)
  BY <1>1, TextsJoined
<1>12. msg = Render(t)
  <2>1. ps = FlattenSeq([i \in DOMAIN t.params |->
                     (IF i = 1 THEN <<"?">> ELSE <<"&">>) \o t.params[i][1] \o <<"=">> \o t.params[i][2]])
    BY <1>2 DEF ParameterTexts, ParameterText
  <2>2. a6 = Line(t)
    BY <1>3, <1>4, <1>5, <1>6, <1>7, <1>8, <2>1 DEF Line
  <2>3. hs = FlattenSeq([i \in DOMAIN t.headers |->
                           t.headers[i][1] \o t.sep \o t.headers[i][2] \o <<CR, LF>>])
    BY <1>2 DEF HeaderTexts
  <2>4. a8 = HeadOf(t)
    BY <1>9, <1>10, <2>2, <2>3 DEF HeadOf
  <2>5. QED
    BY <1>11, <2>4 DEF Render
<1>13. /\ Len(a1) \in Nat /\ Len(a2) \in Nat /\ Len(a3) \in Nat /\ Len(a4) \in Nat
       /\ Len(a5) \in Nat /\ Len(a6) \in Nat /\ Len(a7) \in Nat /\ Len(a8) \in Nat
       /\ Len(t.method) \in Nat /\ Len(t.url) \in Nat /\ Len(t.version) \in Nat
       /\ Len(t.body) \in Nat
  BY <1>1, TextLen
<1>14. At(msg, 0, a8) /\ At(msg, Len(a8), t.body)
  <2>1. At(msg, 0, a8 \o t.body)
    BY <1>11, AtWhole
  <2>2. At(msg, 0, a8) /\ At(msg, 0 + Len(a8), t.body)
    BY <1>1, <2>1, AtParts
  <2>3. QED
    BY <1>13, <2>2
<1>15. \A u, w \in Texts : At(msg, 0, u \o w) => At(msg, 0, u) /\ At(msg, Len(u), w)
  <2>1. TAKE u, w \in Texts
  <2>2. HAVE At(msg, 0, u \o w)
  <2>3. At(msg, 0, u) /\ At(msg, 0 + Len(u), w)
    BY <2>2, AtParts
  <2>4. QED
    BY <2>3, TextLen
<1>16. At(msg, 0, a7) /\ At(msg, Len(a7), <<CR, LF>>)
  BY <1>10, <1>14, <1>15, Marks
<1>17. At(msg, 0, a6) /\ At(msg, Len(a6), hs)
  BY <1>9, <1>15, <1>16
<1>18. At(msg, 0, a5) /\ At(msg, Len(a5), <<CR, LF>>)
  BY <1>8, <1>15, <1>17, Marks
<1>19. At(msg, 0, a4) /\ At(msg, Len(a4), t.version)
  BY <1>1, <1>7, <1>15, <1>18
<1>20. At(msg, 0, a3) /\ At(msg, Len(a3), <<SP, "H", "/">>)
  BY <1>6, <1>15, <1>19, Marks
<1>21. At(msg, 0, a2) /\ At(msg, Len(a2), ps)
  BY <1>5, <1>15, <1>20
<1>22. At(msg, 0, a1) /\ At(msg, Len(a1), t.url)
  BY <1>1, <1>4, <1>15, <1>21
<1>23. PICK o \in [0 .. Len(t.params) -> Nat] :
         /\ o[0] = Len(a2) /\ o[Len(t.params)] = Len(a3)
         /\ \A i \in 1 .. Len(t.params) :
              /\ o[i] = o[i - 1] + Len(ParameterText(i, t.params[i]))
              /\ At(msg, o[i - 1], ParameterText(i, t.params[i]))
  <2>1. PICK s \in Seq(Texts) : s = ParameterTexts(t)
    BY PairsTyped
  <2>2. /\ Len(s) = Len(t.params)
        /\ \A i \in 1 .. Len(t.params) : s[i] = ParameterText(i, t.params[i])
    BY <2>1, PairsTyped
  <2>3. At(msg, Len(a2), FlattenSeq(s)) /\ Len(a3) = Len(a2) + Len(FlattenSeq(s))
    BY <1>2, <1>5, <1>21, <2>1
  <2>4. PICK g \in [0 .. Len(s) -> Nat] :
          /\ g[0] = Len(a2) /\ g[Len(s)] = Len(a2) + Len(FlattenSeq(s))
          /\ \A i \in 1 .. Len(s) : g[i] = g[i - 1] + Len(s[i]) /\ At(msg, g[i - 1], s[i])
    BY <1>13, <2>3, AtFlattened
  <2>5. QED
    BY <2>2, <2>3, <2>4
<1>24. PICK h \in [0 .. Len(t.headers) -> Nat] :
         /\ h[0] = Len(a6) /\ h[Len(t.headers)] = Len(a7)
         /\ Polite(t) => \A i \in 1 .. Len(t.headers) :
              /\ h[i] = h[i - 1] + Len(HeaderText(t.headers[i]))
              /\ At(msg, h[i - 1], HeaderText(t.headers[i]))
  <2>1. PICK s \in Seq(Texts) : s = HeaderTexts(t)
    BY PairsTyped
  <2>2. /\ Len(s) = Len(t.headers)
        /\ Polite(t) => \A i \in 1 .. Len(t.headers) : s[i] = HeaderText(t.headers[i])
    BY <2>1, PairsTyped
  <2>3. At(msg, Len(a6), FlattenSeq(s)) /\ Len(a7) = Len(a6) + Len(FlattenSeq(s))
    BY <1>2, <1>9, <1>17, <2>1
  <2>4. PICK g \in [0 .. Len(s) -> Nat] :
          /\ g[0] = Len(a6) /\ g[Len(s)] = Len(a6) + Len(FlattenSeq(s))
          /\ \A i \in 1 .. Len(s) : g[i] = g[i - 1] + Len(s[i]) /\ At(msg, g[i - 1], s[i])
    BY <1>13, <2>3, AtFlattened, ZenonT(60)
  <2>5. QED
    BY <2>2, <2>3, <2>4
<1>25. /\ msg[Len(a3) + 1] = SP /\ msg[Len(a3) + 2] = "H" /\ msg[Len(a3) + 3] = "/"
       /\ msg[Len(a5) + 1] = CR /\ msg[Len(a5) + 2] = LF
       /\ msg[Len(a7) + 1] = CR /\ msg[Len(a7) + 2] = LF
  <2>1. msg[Len(a3) + 1] = SP /\ msg[Len(a3) + 2] = "H" /\ msg[Len(a3) + 3] = "/"
    <3>1. PICK e \in Nat : e = Len(a3)
      BY <1>13
    <3>2. At(msg, e, <<SP, "H", "/">>)
      BY <1>20, <3>1
    <3>3. msg[e + 1] = SP /\ msg[e + 2] = "H" /\ msg[e + 3] = "/"
      BY <3>2, ThreeAt
    <3>4. QED
      BY <3>1, <3>3
  <2>2. msg[Len(a5) + 1] = CR /\ msg[Len(a5) + 2] = LF
    <3>1. PICK e \in Nat : e = Len(a5)
      BY <1>13
    <3>2. At(msg, e, <<CR, LF>>)
      BY <1>18, <3>1
    <3>3. msg[e + 1] = CR /\ msg[e + 2] = LF
      BY <3>2, TwoAt
    <3>4. QED
      BY <3>1, <3>3
  <2>3. msg[Len(a7) + 1] = CR /\ msg[Len(a7) + 2] = LF
    <3>1. PICK e \in Nat : e = Len(a7)
      BY <1>13
    <3>2. At(msg, e, <<CR, LF>>)
      BY <1>16, <3>1
    <3>3. msg[e + 1] = CR /\ msg[e + 2] = LF
      BY <3>2, TwoAt
    <3>4. QED
      BY <3>1, <3>3
  <2>4. QED
    BY <2>1, <2>2, <2>3
<1>26. Polite(t) => PartsAt(msg, t, o, Len(a5), h)
  <2> SUFFICES ASSUME Polite(t)
               PROVE  PartsAt(msg, t, o, Len(a5), h)
    OBVIOUS
  <2>1. At(msg, 0, t.method \o <<SP>>) /\ At(msg, Len(t.method) + 1, t.url)
    BY <1>3, <1>22
  <2>2. o[0] = Len(t.method) + 1 + Len(t.url)
    BY <1>3, <1>4, <1>23
  <2>3. At(msg, o[Len(t.params)] + 3, t.version)
    BY <1>6, <1>19, <1>23
  <2>4. Len(a5) = o[Len(t.params)] + 3 + Len(t.version)
    BY <1>6, <1>7, <1>23
  <2>5. h[0] = Len(a5) + 2
    BY <1>8, <1>24
  <2>6. /\ At(msg, h[Len(t.headers)] + 2, t.body)
        /\ h[Len(t.headers)] + 2 + Len(t.body) = Len(msg)
    BY <1>10, <1>11, <1>14, <1>24
  <2>7. QED
    BY <1>23, <1>24, <1>25, <2>1, <2>2, <2>3, <2>4, <2>5, <2>6 DEF PartsAt
<1>27. QED
  BY <1>12, <1>13, <1>26

------------------------------------------------------------------------------
(* A whole request. *)

\* new is map with the first n of the pairs in it, and nothing else.
Overlay(new, map, pairs, n) ==
  /\ DOMAIN new = DOMAIN map \cup {pairs[i][1] : i \in 1 .. n}
  /\ \A i \in 1 .. n : new[pairs[i][1]] = pairs[i][2]
  /\ \A k \in DOMAIN map \ {pairs[i][1] : i \in 1 .. n} : new[k] = map[k]

\* Before the first pair nothing is changed.
LEMMA OverlayNothing ==
  ASSUME NEW map, NEW pairs
  PROVE  Overlay(map, map, pairs, 0)
BY DEF Overlay

\* One pair more, of a name that none of them has: no other name loses its value.
LEMMA OverlayNext ==
  ASSUME NEW new, NEW map, NEW pairs, NEW n \in Nat, Overlay(new, map, pairs, n),
         \A i \in 1 .. n : pairs[i][1] # pairs[n + 1][1]
  PROVE  Overlay(Put(new, pairs[n + 1][1], pairs[n + 1][2]), map, pairs, n + 1)
<1> DEFINE key == pairs[n + 1][1]
           put == Put(new, key, pairs[n + 1][2])
<1>1. /\ DOMAIN put = DOMAIN new \cup {key} /\ put[key] = pairs[n + 1][2]
      /\ \A k \in DOMAIN new : k # key => put[k] = new[k]
  BY DEF Put
<1>2. /\ DOMAIN new = DOMAIN map \cup {pairs[i][1] : i \in 1 .. n}
      /\ \A i \in 1 .. n : new[pairs[i][1]] = pairs[i][2]
      /\ \A k \in DOMAIN map \ {pairs[i][1] : i \in 1 .. n} : new[k] = map[k]
  BY DEF Overlay
<1>3. {pairs[i][1] : i \in 1 .. n + 1} = {pairs[i][1] : i \in 1 .. n} \cup {key}
  <2>1. \A i : i \in 1 .. n + 1 <=> i \in 1 .. n \/ i = n + 1
    OBVIOUS
  <2>2. QED
    BY <2>1
<1>4. \A i \in 1 .. n : pairs[i][1] # key
  OBVIOUS
<1> HIDE DEF put, key
<1>5. DOMAIN put = DOMAIN map \cup {pairs[i][1] : i \in 1 .. n + 1}
  BY <1>1, <1>2, <1>3
<1>6. \A i \in 1 .. n + 1 : put[pairs[i][1]] = pairs[i][2]
  <2>1. ASSUME NEW i \in 1 .. n + 1
        PROVE  put[pairs[i][1]] = pairs[i][2]
    <3>1. CASE i = n + 1
      BY <1>1, <3>1 DEF key
    <3>2. CASE i # n + 1
      <4>1. i \in 1 .. n
        BY <3>2
      <4>2. QED
        BY <1>1, <1>2, <1>4, <4>1
    <3>3. QED
      BY <3>1, <3>2
  <2>2. QED
    BY <2>1
<1>7. \A k \in DOMAIN map \ {pairs[i][1] : i \in 1 .. n + 1} : put[k] = map[k]
  BY <1>1, <1>2, <1>3
<1>8. Overlay(put, map, pairs, n + 1)
  BY <1>5, <1>6, <1>7 DEF Overlay
<1>9. QED
  BY <1>8 DEF put, key

\* The parser R reads the request t, behind whatever r was.
Reading(t, msg, r, R, o, v, h) ==
  /\ WellFormed(t) /\ t \in Syntax /\ Polite(t)
  /\ msg \in Texts
  /\ r \in HttpRequest
  /\ Parses(R, Cursor("START", 0, 0, r), msg)
  /\ o \in [0 .. Len(t.params) -> Nat] /\ v \in Nat /\ h \in [0 .. Len(t.headers) -> Nat]
  /\ PartsAt(msg, t, o, v, h)

LineHas(q, t, r, i) ==
  /\ q.method = t.method /\ q.url = t.url /\ q.headers = r.headers
  /\ Overlay(q.request_params, r.request_params, t.params, i)

\* The character behind the i-th parameter has been read.
ParameterRead(t, msg, r, R, o, i) ==
  \E colon, q :
    /\ ReadTo(R, msg, o[i], colon, q)
    /\ LineHas(q, t, r, i)

\* The request that a cursor holds is an HttpRequest.
LEMMA CursorsTyped ==
  ASSUME NEW t, NEW msg, NEW r, NEW R, NEW o, NEW v, NEW h, Reading(t, msg, r, R, o, v, h)
  PROVE  \A n \in 0 .. Len(msg) + 1 : \A s, start, colon, q :
           R[n] = Cursor(s, start, colon, q) => q \in HttpRequest
<1>1. /\ msg \in Texts /\ r \in HttpRequest
      /\ Parses(R, Cursor("START", 0, 0, r), msg)
  BY DEF Reading
<1>2. CursorInv(Cursor("START", 0, 0, r), 0)
  BY <1>1 DEF CursorInv, Cursor
<1>3. \A n \in 0 .. Len(msg) + 1 : CursorInv(R[n], n)
  BY <1>1, <1>2, ParseTyped
<1>4. \A s, start, colon, q : Cursor(s, start, colon, q).request_ = q
  BY DEF Cursor
<1>5. QED
  BY <1>3, <1>4 DEF CursorInv

\* What follows a parameter: the next one, or the space before the protocol.
LEMMA BehindParameter ==
  ASSUME NEW t, NEW msg, NEW r, NEW R, NEW o, NEW v, NEW h, Reading(t, msg, r, R, o, v, h),
         NEW i \in 0 .. Len(t.params)
  PROVE  /\ o[i] \in Nat /\ o[i] + 1 <= Len(msg)
         /\ i = 0 => msg[o[i] + 1] \in {SP, "?"}
         /\ i # 0 => msg[o[i] + 1] \in {SP, "&"}
         /\ msg[o[i] + 1] = SP <=> i = Len(t.params)
<1>1. /\ o[i] \in Nat /\ Len(t.params) \in Nat /\ msg \in Texts /\ Len(msg) \in Nat
      /\ o[Len(t.params)] \in Nat
      /\ t \in Syntax /\ PartsAt(msg, t, o, v, h)
  <2>1. /\ msg \in Texts /\ t \in Syntax /\ PartsAt(msg, t, o, v, h)
        /\ o \in [0 .. Len(t.params) -> Nat]
    BY DEF Reading
  <2>2. Len(t.params) \in Nat /\ Len(msg) \in Nat
    BY <2>1, PartsTyped, TextLen
  <2>3. QED
    BY <2>1, <2>2
<1>2. SP # "?" /\ SP # "&"
  BY DEF SP
<1>3. CASE i = Len(t.params)
  <2>1. msg[o[i] + 1] = SP /\ At(msg, o[i] + 3, t.version)
    BY <1>1, <1>3 DEF PartsAt
  <2>2. o[i] + 3 + Len(t.version) <= Len(msg) /\ Len(t.version) \in Nat
    BY <1>1, <2>1, PartsTyped, TextLen DEF At
  <2>3. o[i] + 1 <= Len(msg)
    BY <1>1, <2>2
  <2>4. QED
    BY <1>1, <1>3, <2>1, <2>3
<1>4. CASE i # Len(t.params)
  <2>1. i + 1 \in 1 .. Len(t.params) /\ (i + 1) - 1 = i /\ (i + 1 = 1 <=> i = 0)
    BY <1>1, <1>4
  <2>2. PICK pair : pair = t.params[i + 1] /\ pair[1] \in Texts /\ pair[2] \in Texts
    BY <1>1, <2>1, PartsTyped
  <2>3. At(msg, o[i], ParameterText(i + 1, pair))
    BY <1>1, <2>1, <2>2 DEF PartsAt
  <2>4. /\ msg[o[i] + 1] = ParameterMark(i + 1)
        /\ o[i] + Len(ParameterText(i + 1, pair)) = o[i] + 1 + Len(pair[1]) + 1 + Len(pair[2])
    <3>1. ParameterAt(msg, o[i], i + 1, pair)
      BY <1>1, <2>2, <2>3, ParameterParts
    <3>2. QED
      BY <3>1 DEF ParameterAt
  <2>5. o[i] + Len(ParameterText(i + 1, pair)) <= Len(msg)
    BY <2>3 DEF At
  <2>6. Len(pair[1]) \in Nat /\ Len(pair[2]) \in Nat
    BY TextLen
  <2>7. o[i] + 1 <= Len(msg)
    <3>1. \A e, k, l \in Nat : e + 1 + k + 1 + l >= e + 1
      OBVIOUS
    <3>2. o[i] + 1 + Len(pair[1]) + 1 + Len(pair[2]) >= o[i] + 1
      BY <1>1, <2>6, <3>1
    <3>3. QED
      BY <1>1, <2>4, <2>5, <3>2
  <2>8. QED
    BY <1>1, <1>2, <1>4, <2>1, <2>4, <2>7 DEF ParameterMark
<1>5. QED
  BY <1>3, <1>4

\* From behind a parameter to behind the next one.
LEMMA NextParameter ==
  ASSUME NEW t, NEW msg, NEW r, NEW R, NEW o, NEW v, NEW h, Reading(t, msg, r, R, o, v, h),
         NEW i \in Nat, i + 1 <= Len(t.params), ParameterRead(t, msg, r, R, o, i)
  PROVE  ParameterRead(t, msg, r, R, o, i + 1)
<1>1. /\ t \in Syntax /\ WellFormed(t) /\ msg \in Texts /\ Len(t.params) \in Nat
      /\ Parses(R, Cursor("START", 0, 0, r), msg) /\ PartsAt(msg, t, o, v, h)
      /\ o \in [0 .. Len(t.params) -> Nat] /\ Len(msg) \in Nat
  BY PartsTyped, TextLen DEF Reading
<1>2. /\ i \in 0 .. Len(t.params) /\ i + 1 \in 0 .. Len(t.params) /\ i # Len(t.params)
      /\ i + 1 \in 1 .. Len(t.params) /\ (i + 1) - 1 = i /\ i + 1 # 0
  BY <1>1
<1>3. PICK colon, q :
        /\ ReadTo(R, msg, o[i], colon, q)
        /\ LineHas(q, t, r, i)
  BY DEF ParameterRead
<1>4. PICK a \in Nat : a = o[i] + 1 /\ a <= Len(msg) /\ o[i] \in Nat
  BY <1>2, BehindParameter
<1>5. R[a] = Cursor("BEFORE_URL_PARAM_KEY", a, colon, q)
  <2>1. msg[o[i] + 1] # SP
    BY <1>2, BehindParameter
  <2>2. QED
    BY <1>3, <1>4, <2>1 DEF Following, ReadTo
<1>6. q \in HttpRequest
  <2>1. a \in 0 .. Len(msg) + 1
    BY <1>1, <1>4
  <2>2. QED
    BY <1>5, <2>1, CursorsTyped
<1>7. PICK pair :
        /\ pair = t.params[i + 1] /\ pair[1] \in Texts /\ pair[2] \in Texts
        /\ pair[1] \in Word(Separators \cup {"="}) /\ pair[2] \in Word(Separators \cup {"&"})
  BY <1>1, <1>2, PartsTyped
<1>8. PICK b : b = o[i + 1]
  OBVIOUS
<1>9. /\ At(msg, a, pair[1]) /\ msg[a + Len(pair[1]) + 1] = "="
      /\ At(msg, a + Len(pair[1]) + 1, pair[2])
      /\ b = a + Len(pair[1]) + 1 + Len(pair[2])
  <2>1. At(msg, o[i], ParameterText(i + 1, pair))
        /\ o[i + 1] = o[i] + Len(ParameterText(i + 1, pair))
    BY <1>1, <1>2, <1>7 DEF PartsAt
  <2>2. /\ At(msg, o[i] + 1, pair[1]) /\ msg[o[i] + 1 + Len(pair[1]) + 1] = "="
        /\ At(msg, o[i] + 1 + Len(pair[1]) + 1, pair[2])
        /\ o[i] + Len(ParameterText(i + 1, pair)) = o[i] + 1 + Len(pair[1]) + 1 + Len(pair[2])
    <3>1. ParameterAt(msg, o[i], i + 1, pair)
      BY <1>1, <1>4, <1>7, <2>1, ParameterParts
    <3>2. QED
      BY <3>1 DEF ParameterAt
  <2>3. QED
    BY <1>4, <1>8, <2>1, <2>2
<1>10. b \in Nat /\ b < Len(msg) /\ msg[b + 1] \in {SP, "&"}
  <2>1. o[i + 1] \in Nat /\ o[i + 1] + 1 <= Len(msg) /\ msg[o[i + 1] + 1] \in {SP, "&"}
    BY <1>2, BehindParameter
  <2>2. QED
    BY <1>1, <1>8, <2>1
<1> DEFINE p == WithParameter(q, pair[1], pair[2])
<1>11. ReadTo(R, msg, b, a + Len(pair[1]), p)
  <2>1. PICK key, value : key = pair[1] /\ value = pair[2]
    OBVIOUS
  <2>2. /\ key \in Word(Separators \cup {"="}) /\ value \in Word(Separators \cup {"&"})
        /\ At(msg, a, key) /\ msg[a + Len(key) + 1] = "=" /\ At(msg, a + Len(key) + 1, value)
        /\ b = a + Len(key) + 1 + Len(value)
    BY <1>7, <1>9, <2>1
  <2>3. PICK d \in Nat : d = a + Len(key)
    BY <1>7, <2>1, TextLen
  <2>4. /\ msg[d + 1] = "=" /\ At(msg, d + 1, value) /\ b = d + 1 + Len(value)
        /\ b \in Nat
    BY <1>10, <2>2, <2>3
  <2>5. ReadTo(R, msg, b, d, WithParameter(q, key, value))
    BY <1>1, <1>5, <1>10, <2>2, <2>3, <2>4, ParameterIsRead
  <2>6. QED
    BY <2>1, <2>3, <2>5
<1>12. LineHas(p, t, r, i + 1)
  <2>1. /\ p.method = q.method /\ p.url = q.url /\ p.headers = q.headers
        /\ p.request_params = Put(q.request_params, pair[1], pair[2])
    BY <1>6, WithKeeps
  <2> HIDE DEF p
  <2>2. \A j \in 1 .. i : t.params[j][1] # t.params[i + 1][1]
    <3>1. DOMAIN t.params = 1 .. Len(t.params)
      BY <1>1, PartsTyped
    <3>2. ASSUME NEW j \in 1 .. i
          PROVE  t.params[j][1] # t.params[i + 1][1]
      <4>1. j \in DOMAIN t.params /\ i + 1 \in DOMAIN t.params /\ j # i + 1
        BY <1>1, <1>2, <3>1
      <4>2. QED
        BY <1>1, <4>1 DEF WellFormed
    <3>3. QED
      BY <3>2
  <2>3. Overlay(q.request_params, r.request_params, t.params, i)
    BY <1>3 DEF LineHas
  <2>4. Overlay(p.request_params, r.request_params, t.params, i + 1)
    BY <1>7, <2>1, <2>2, <2>3, OverlayNext
  <2>5. QED
    BY <1>3, <2>1, <2>4 DEF LineHas
<1> HIDE DEF p
<1>13. QED
  BY <1>8, <1>11, <1>12 DEF ParameterRead

\* The method and the URL have been read.
LEMMA UrlRead ==
  ASSUME NEW t, NEW msg, NEW r, NEW R, NEW o, NEW v, NEW h, Reading(t, msg, r, R, o, v, h)
  PROVE  ParameterRead(t, msg, r, R, o, 0)
<1>1. /\ t \in Syntax /\ msg \in Texts /\ r \in HttpRequest
      /\ Parses(R, Cursor("START", 0, 0, r), msg) /\ PartsAt(msg, t, o, v, h)
  BY DEF Reading
<1>2. /\ t.method \in Seq(Upper \ {"L"}) /\ t.method # << >> /\ Len(t.method) \in Nat
      /\ t.url \in Text({SP, "?"}) /\ Len(t.url) \in Nat
      /\ Len(t.params) \in Nat /\ Len(msg) \in Nat
  BY <1>1, PartsTyped, TextLen
<1>3. /\ At(msg, 0, t.method \o <<SP>>) /\ At(msg, Len(t.method) + 1, t.url)
      /\ o[0] = Len(t.method) + 1 + Len(t.url)
  BY <1>1 DEF PartsAt
<1>4. PICK a \in Nat : a = Len(t.method) + 1
  BY <1>2
<1>5. R[a] = Cursor("IN_URL", a, 0, WithMethod(r, t.method))
  BY <1>1, <1>2, <1>3, <1>4, MethodIsRead
<1> DEFINE p == WithMethod(r, t.method)
           q == WithUrl(p, t.url)
<1>6. /\ p.method = t.method /\ p.headers = r.headers
      /\ p.request_params = r.request_params
  BY <1>1, WithKeeps
<1>7. p \in HttpRequest
  <2> HIDE DEF p
  <2>1. At(msg, a, t.url) /\ a \in 0 .. Len(msg) + 1
    <3>1. At(msg, a, t.url)
      BY <1>3, <1>4
    <3>2. a + Len(t.url) <= Len(msg)
      BY <3>1 DEF At
    <3>3. QED
      BY <1>2, <3>1, <3>2
  <2>2. QED
    BY <1>5, <2>1, CursorsTyped DEF p
<1> HIDE DEF p
<1>8. /\ q.method = t.method /\ q.url = t.url /\ q.headers = r.headers
      /\ q.request_params = r.request_params
  BY <1>6, <1>7, WithKeeps
<1>9. /\ o[0] + 1 <= Len(msg) /\ msg[o[0] + 1] \in {SP, "?"} /\ o[0] \in Nat
  <2>1. 0 \in 0 .. Len(t.params)
    BY <1>2
  <2>2. QED
    BY <2>1, BehindParameter
<1>10. PICK b \in Nat : b = o[0] /\ b = a + Len(t.url)
  BY <1>3, <1>4, <1>9
<1>11. ReadTo(R, msg, b, 0, q)
  <2>1. At(msg, a, t.url) /\ a + Len(t.url) < Len(msg)
        /\ msg[a + Len(t.url) + 1] \in {SP, "?"}
    <3>1. b < Len(msg) /\ msg[b + 1] \in {SP, "?"}
      BY <1>2, <1>9, <1>10
    <3>2. QED
      BY <1>3, <1>4, <1>10, <3>1
  <2>2. R[a] = Cursor("IN_URL", a, 0, p)
    BY <1>5 DEF p
  <2>3. ReadTo(R, msg, a + Len(t.url), 0, q)
    BY <1>1, <1>2, <2>1, <2>2, UrlIsRead
  <2>4. QED
    BY <1>10, <2>3
<1> HIDE DEF q
<1>12. LineHas(q, t, r, 0)
  BY <1>8, OverlayNothing DEF LineHas
<1>13. QED
  BY <1>10, <1>11, <1>12 DEF ParameterRead

\* The characters up to the one behind the last parameter have been read.
LEMMA ParametersRead ==
  ASSUME NEW t, NEW msg, NEW r, NEW R, NEW o, NEW v, NEW h, Reading(t, msg, r, R, o, v, h)
  PROVE  ParameterRead(t, msg, r, R, o, Len(t.params))
<1> DEFINE T == {i \in Nat : i <= Len(t.params) => ParameterRead(t, msg, r, R, o, i)}
<1>1. Len(t.params) \in Nat
  BY PartsTyped DEF Reading
<1>2. 0 \in T
  BY UrlRead
<1>3. ASSUME NEW i \in T
      PROVE  i + 1 \in T
  <2>1. SUFFICES ASSUME i + 1 <= Len(t.params)
                 PROVE  ParameterRead(t, msg, r, R, o, i + 1)
    OBVIOUS
  <2>2. i \in Nat /\ i <= Len(t.params)
    BY <1>1, <2>1
  <2>3. ParameterRead(t, msg, r, R, o, i)
    BY <2>2
  <2>4. QED
    BY <2>1, <2>2, <2>3, NextParameter
<1>4. T = Nat
  <2>1. T \in SUBSET Nat
    OBVIOUS
  <2> HIDE DEF T
  <2>2. QED
    BY <1>2, <1>3, <2>1, AllNumbers
<1>5. QED
  BY <1>1, <1>4

\* The protocol and the version have been read, and the line end behind them.
\* What the i-th header adds.
HeadHas(q, t, r, i) ==
  /\ q.method = t.method /\ q.url = t.url /\ q.version = t.version /\ q.protocol = <<"H">>
  /\ Overlay(q.request_params, r.request_params, t.params, Len(t.params))
  /\ Overlay(q.headers, r.headers, t.headers, i)

HeaderRead(t, r, R, h, i) ==
  \E colon, q : R[h[i]] = Cursor("CR_LF", h[i], colon, q) /\ HeadHas(q, t, r, i)

\* There is a line end at least behind a header.
LEMMA BehindHeader ==
  ASSUME NEW t, NEW msg, NEW r, NEW R, NEW o, NEW v, NEW h, Reading(t, msg, r, R, o, v, h),
         NEW i \in 0 .. Len(t.headers)
  PROVE  h[i] \in Nat /\ h[i] + 2 <= Len(msg)
<1>1. /\ Len(t.headers) \in Nat /\ msg \in Texts /\ Len(msg) \in Nat /\ t \in Syntax
      /\ PartsAt(msg, t, o, v, h) /\ h[i] \in Nat
  <2>1. /\ msg \in Texts /\ t \in Syntax /\ PartsAt(msg, t, o, v, h)
        /\ h \in [0 .. Len(t.headers) -> Nat]
    BY DEF Reading
  <2>2. QED
    BY <2>1, PartsTyped, TextLen
<1>2. CASE i = Len(t.headers)
  <2>1. h[i] + 2 + Len(t.body) = Len(msg) /\ Len(t.body) \in Nat
    BY <1>1, <1>2, PartsTyped, TextLen DEF PartsAt
  <2>2. QED
    BY <1>1, <2>1
<1>3. CASE i # Len(t.headers)
  <2>1. i + 1 \in 1 .. Len(t.headers) /\ (i + 1) - 1 = i
    BY <1>1, <1>3
  <2>2. PICK pair : pair = t.headers[i + 1] /\ pair[1] \in Texts /\ pair[2] \in Texts
    BY <1>1, <2>1, PartsTyped
  <2>3. At(msg, h[i], HeaderText(pair))
    BY <1>1, <2>1, <2>2 DEF PartsAt
  <2>4. h[i] + Len(HeaderText(pair)) = h[i] + Len(pair[1]) + 2 + Len(pair[2]) + 2
    <3>1. HeaderAt(msg, h[i], pair)
      BY <1>1, <2>2, <2>3, HeaderParts
    <3>2. QED
      BY <3>1 DEF HeaderAt
  <2>5. h[i] + Len(HeaderText(pair)) <= Len(msg)
    BY <2>3 DEF At
  <2>6. \A e, k, l \in Nat : e + k + 2 + l + 2 >= e + 2
    OBVIOUS
  <2>7. h[i] + Len(pair[1]) + 2 + Len(pair[2]) + 2 >= h[i] + 2
    BY <1>1, <2>2, <2>6, TextLen
  <2>8. QED
    BY <1>1, <2>4, <2>5, <2>7
<1>4. QED
  BY <1>2, <1>3

\* The request line has been read.
LEMMA VersionRead ==
  ASSUME NEW t, NEW msg, NEW r, NEW R, NEW o, NEW v, NEW h, Reading(t, msg, r, R, o, v, h)
  PROVE  HeaderRead(t, r, R, h, 0)
<1> DEFINE n == Len(t.params)
<1>1. /\ t \in Syntax /\ msg \in Texts /\ WellFormed(t)
      /\ Parses(R, Cursor("START", 0, 0, r), msg) /\ PartsAt(msg, t, o, v, h)
      /\ v \in Nat
  BY DEF Reading
<1>2. /\ t.version \in Seq(Digit \cup {"."}) /\ t.version # << >> /\ Len(t.version) \in Nat
      /\ t.version[1] \in Digit /\ n \in Nat /\ Len(msg) \in Nat /\ Len(t.headers) \in Nat
  BY <1>1, PartsTyped, TextLen DEF WellFormed
<1>3. PICK colon, q : ReadTo(R, msg, o[n], colon, q) /\ LineHas(q, t, r, n)
  BY ParametersRead DEF ParameterRead
<1>4. o[n] \in Nat
  <2>1. n \in 0 .. Len(t.params)
    BY <1>2
  <2>2. QED
    BY <2>1 DEF Reading
<1>5. /\ msg[o[n] + 1] = SP /\ msg[o[n] + 2] = "H" /\ msg[o[n] + 3] = "/"
      /\ At(msg, o[n] + 3, t.version) /\ v = o[n] + 3 + Len(t.version)
      /\ msg[v + 1] = CR /\ msg[v + 2] = LF /\ h[0] = v + 2
  BY <1>1 DEF PartsAt
<1>6. PICK a \in Nat : a = o[n] + 1
  BY <1>4
<1>7. R[a] = Cursor("BEFORE_PROTOCOL", a, colon, q)
  BY <1>3, <1>5, <1>6 DEF ReadTo, Following
<1>8. v + 2 <= Len(msg)
  <2>1. 0 \in 0 .. Len(t.headers)
    BY <1>2
  <2>2. QED
    BY <1>5, <2>1, BehindHeader
<1>9. /\ msg[a + 1] = "H" /\ msg[a + 2] = "/" /\ At(msg, a + 2, t.version)
      /\ v = a + 2 + Len(t.version)
  <2>1. /\ o[n] + 2 = a + 1 /\ o[n] + 3 = a + 2
    BY <1>4, <1>6
  <2>2. QED
    BY <1>5, <2>1
<1>10. LineEnd(R, v, colon, WithVersion(q, t.version))
  BY <1>1, <1>2, <1>5, <1>7, <1>8, <1>9, VersionIsRead
<1>11. q \in HttpRequest
  <2>1. a \in 0 .. Len(msg) + 1
    BY <1>1, <1>2, <1>8, <1>9
  <2>2. QED
    BY <1>7, <2>1, CursorsTyped
<1> DEFINE p == WithVersion(q, t.version)
<1>12. /\ p.version = t.version /\ p.method = q.method /\ p.url = q.url
       /\ p.request_params = q.request_params /\ p.headers = q.headers
       /\ p.protocol = <<"H">>
  BY <1>11, WithKeeps
<1> HIDE DEF p
<1>13. HeadHas(p, t, r, 0)
  BY <1>3, <1>12, OverlayNothing DEF HeadHas, LineHas
<1>14. QED
  BY <1>5, <1>10, <1>13 DEF HeaderRead, LineEnd, p

\* From the start of a header to the start of the next one.
LEMMA NextHeader ==
  ASSUME NEW t, NEW msg, NEW r, NEW R, NEW o, NEW v, NEW h, Reading(t, msg, r, R, o, v, h),
         NEW i \in Nat, i + 1 <= Len(t.headers), HeaderRead(t, r, R, h, i)
  PROVE  HeaderRead(t, r, R, h, i + 1)
<1>1. /\ t \in Syntax /\ WellFormed(t) /\ msg \in Texts /\ Len(t.headers) \in Nat
      /\ Parses(R, Cursor("START", 0, 0, r), msg) /\ PartsAt(msg, t, o, v, h)
      /\ h \in [0 .. Len(t.headers) -> Nat] /\ Len(msg) \in Nat
  BY PartsTyped, TextLen DEF Reading
<1>2. /\ i \in 0 .. Len(t.headers) /\ i + 1 \in 0 .. Len(t.headers)
      /\ i + 1 \in 1 .. Len(t.headers) /\ (i + 1) - 1 = i
  BY <1>1
<1>3. PICK colon, q : R[h[i]] = Cursor("CR_LF", h[i], colon, q) /\ HeadHas(q, t, r, i)
  BY DEF HeaderRead
<1>4. PICK a \in Nat : a = h[i] /\ a + 2 <= Len(msg)
  BY <1>2, BehindHeader
<1>5. R[a] = Cursor("CR_LF", a, colon, q)
  BY <1>3, <1>4
<1>6. q \in HttpRequest
  <2>1. a \in 0 .. Len(msg) + 1
    BY <1>1, <1>4
  <2>2. QED
    BY <1>5, <2>1, CursorsTyped
<1>7. PICK key, value, pair :
        /\ key = pair[1] /\ value = pair[2] /\ pair = t.headers[i + 1]
        /\ key \in Texts /\ value \in Texts
        /\ key \in Word(Separators \cup {":"}) /\ value \in Text({CR})
  BY <1>1, <1>2, PartsTyped
<1>8. PICK d \in Nat : d = a + Len(key)
  BY <1>7, TextLen
<1>9. PICK b \in Nat : b = d + 2 + Len(value)
  <2>1. Len(value) \in Nat
    BY <1>7, TextLen
  <2>2. QED
    BY <2>1
<1>10. /\ At(msg, a, key) /\ msg[d + 1] = ":" /\ msg[d + 2] = SP
       /\ At(msg, d + 2, value) /\ msg[b + 1] = CR /\ msg[b + 2] = LF
       /\ h[i + 1] = b + 2
  <2>1. /\ At(msg, a, HeaderText(pair))
        /\ h[i + 1] = a + Len(HeaderText(pair))
    BY <1>1, <1>2, <1>4, <1>7 DEF PartsAt
  <2>2. HeaderAt(msg, a, pair)
    BY <1>1, <1>7, <2>1, HeaderParts
  <2>3. QED
    BY <1>7, <1>8, <1>9, <2>1, <2>2 DEF HeaderAt
<1>11. b + 2 <= Len(msg)
  <2>1. h[i + 1] \in Nat /\ h[i + 1] + 2 <= Len(msg)
    BY <1>2, BehindHeader
  <2>2. QED
    BY <1>1, <1>10, <2>1
<1> DEFINE p == WithHeader(q, key, value)
<1>12. LineEnd(R, b, d, p)
  <2>1. /\ Parses(R, Cursor("START", 0, 0, r), msg) /\ msg \in Texts
        /\ key \in Word(Separators \cup {":"}) /\ value \in Text({CR})
    BY <1>1, <1>7
  <2>2. LineEnd(R, b, d, WithHeader(q, key, value))
    BY <1>5, <1>8, <1>9, <1>10, <1>11, <2>1, HeaderIsRead
  <2>3. QED
    BY <2>2
<1>13. HeadHas(p, t, r, i + 1)
  <2>1. /\ p.method = q.method /\ p.url = q.url /\ p.version = q.version
        /\ p.protocol = q.protocol /\ p.request_params = q.request_params
        /\ p.headers = Put(q.headers, key, value)
    BY <1>6, WithHeaderKeeps
  <2> HIDE DEF p
  <2>2. \A j \in 1 .. i : t.headers[j][1] # t.headers[i + 1][1]
    <3>1. DOMAIN t.headers = 1 .. Len(t.headers)
      BY <1>1, PartsTyped
    <3>2. ASSUME NEW j \in 1 .. i
          PROVE  t.headers[j][1] # t.headers[i + 1][1]
      <4>1. j \in DOMAIN t.headers /\ i + 1 \in DOMAIN t.headers /\ j # i + 1
        BY <1>1, <1>2, <3>1
      <4>2. QED
        BY <1>1, <4>1 DEF WellFormed
    <3>3. QED
      BY <3>2
  <2>3. Overlay(q.headers, r.headers, t.headers, i)
    BY <1>3 DEF HeadHas
  <2>4. Overlay(p.headers, r.headers, t.headers, i + 1)
    BY <1>7, <2>1, <2>2, <2>3, OverlayNext
  <2>5. QED
    BY <1>3, <2>1, <2>4 DEF HeadHas
<1> HIDE DEF p
<1>14. QED
  BY <1>10, <1>12, <1>13 DEF HeaderRead, LineEnd

\* The headers have been read.
LEMMA HeadersRead ==
  ASSUME NEW t, NEW msg, NEW r, NEW R, NEW o, NEW v, NEW h, Reading(t, msg, r, R, o, v, h)
  PROVE  HeaderRead(t, r, R, h, Len(t.headers))
<1> DEFINE T == {i \in Nat : i <= Len(t.headers) => HeaderRead(t, r, R, h, i)}
<1>1. Len(t.headers) \in Nat
  BY PartsTyped DEF Reading
<1>2. 0 \in T
  BY VersionRead
<1>3. ASSUME NEW i \in T
      PROVE  i + 1 \in T
  <2>1. SUFFICES ASSUME i + 1 <= Len(t.headers)
                 PROVE  HeaderRead(t, r, R, h, i + 1)
    OBVIOUS
  <2>2. i \in Nat /\ i <= Len(t.headers)
    BY <1>1, <2>1
  <2>3. HeaderRead(t, r, R, h, i)
    BY <2>2
  <2>4. QED
    BY <2>1, <2>2, <2>3, NextHeader
<1>4. T = Nat
  <2>1. T \in SUBSET Nat
    OBVIOUS
  <2> HIDE DEF T
  <2>2. QED
    BY <1>2, <1>3, <2>1, AllNumbers
<1>5. QED
  BY <1>1, <1>4

\* No client sends the key that the code takes for the length of the body.
LEMMA NoLength ==
  ASSUME NEW r \in HttpRequest
  PROVE  <<"L">> \notin DOMAIN r.headers
<1>1. PICK D \in SUBSET Texts : r.headers \in [D -> Texts]
  BY DEF HttpRequest, Maps
<1>2. ASSUME <<"L">> \in Texts
      PROVE  FALSE
  <2>1. Len(<<"L">>) = 1 /\ <<"L">>[1] = "L"
    OBVIOUS
  <2>2. "L" \in Sent
    BY <1>2, <2>1, TextLen
  <2>3. QED
    BY <2>2 DEF Sent
<1>3. QED
  BY <1>1, <1>2

\* ParaseRequest, at the start of a request, takes out of the text of t what t is,
\* and puts its parameters and headers over those that request_ has.
LEMMA RequestIsRead ==
  ASSUME NEW t, WellFormed(t), Polite(t), NEW r \in HttpRequest
  PROVE  LET c == ParaseRequest("START", r, Render(t))
         IN  c.state_ = "COMPLETE" /\ Agrees(r, c.request_, t)
<1> DEFINE msg == Render(t)
           k == Len(t.headers)
<1>1. t \in Syntax
  BY DEF WellFormed
<1>2. msg \in Texts
  BY <1>1, RequestParts
<1>3. PICK o \in [0 .. Len(t.params) -> Nat], v \in Nat, h \in [0 .. k -> Nat] :
        PartsAt(msg, t, o, v, h)
  BY <1>1, RequestParts
<1>4. Len(msg) \in Nat
  BY <1>2, TextLen
<1> HIDE DEF msg
<1>5. PICK R : /\ Parses(R, Cursor("START", 0, 0, r), msg)
               /\ ParaseRequest("START", r, msg) = R[Len(msg) + 1]
  BY <1>4, ParseIs
<1>6. Reading(t, msg, r, R, o, v, h)
  BY <1>1, <1>2, <1>3, <1>5 DEF Reading
<1>7. k \in Nat /\ k \in 0 .. k /\ t.body \in Texts /\ DOMAIN t.headers = 1 .. k
      /\ DOMAIN t.params = 1 .. Len(t.params)
  BY <1>1, PartsTyped
<1>8. PICK a \in Nat : a = h[k] /\ a + 2 <= Len(msg)
  BY <1>6, <1>7, BehindHeader
<1>9. PICK colon, q : R[a] = Cursor("CR_LF", a, colon, q) /\ HeadHas(q, t, r, k)
  BY <1>6, <1>8, HeadersRead DEF HeaderRead
<1>10. q \in HttpRequest
  <2>1. a \in 0 .. Len(msg) + 1
    BY <1>4, <1>8
  <2>2. QED
    BY <1>6, <1>9, <2>1, CursorsTyped
<1>11. PICK e \in Nat :
         /\ msg[a + 1] = CR /\ msg[a + 2] = LF
         /\ e = a + 2 /\ At(msg, e, t.body) /\ e + Len(t.body) = Len(msg)
  <2>1. PICK e \in Nat : e = a + 2
    OBVIOUS
  <2>2. /\ msg[a + 1] = CR /\ msg[a + 2] = LF
        /\ At(msg, e, t.body) /\ e + Len(t.body) = Len(msg)
    BY <1>3, <1>8, <2>1 DEF PartsAt
  <2>3. QED
    BY <2>1, <2>2
<1> DEFINE p == WithBody(q, t.body)
<1>12. ReadsAll(R, msg, p)
  <2>1. <<"L">> \notin DOMAIN q.headers
    BY <1>10, NoLength
  <2>2. QED
    BY <1>2, <1>5, <1>7, <1>9, <1>11, <2>1, BodyIsRead
<1>13. /\ p.body = t.body /\ p.headers = q.headers /\ p.request_params = q.request_params
       /\ p.method = q.method /\ p.url = q.url /\ p.version = q.version
       /\ p.protocol = q.protocol
  BY <1>10, WithKeeps
<1> HIDE DEF p
<1>14. Agrees(r, p, t)
  <2>1. /\ Overlays(p.request_params, r.request_params, t.params)
        /\ Overlays(p.headers, r.headers, t.headers)
    BY <1>7, <1>9, <1>13 DEF HeadHas, Overlay, Overlays
  <2>2. QED
    BY <1>9, <1>13, <2>1 DEF HeadHas, Agrees
<1>15. R[Len(msg) + 1].state_ = "COMPLETE" /\ R[Len(msg) + 1].request_ = p
  BY <1>12 DEF ReadsAll
<1>16. QED
  BY <1>5, <1>14, <1>15 DEF msg
------------------------------------------------------------------------------
(* The connection. *)

Answers == [piece : Texts, request : HttpRequest, close : BOOLEAN]

\* Whatever was read in one piece was read right, for every request a client may send.
PiecesReadRight ==
  \A i \in DOMAIN answers : \A t \in Requests :
    Polite(t) /\ answers[i].piece = Render(t) => Agrees(Left(i), answers[i].request, t)

\* An open connection's request_ is what the callback has seen last.
LeftInContext ==
  state_ = "Connected" => context.request_ = Left(Len(answers) + 1)

HttpInv ==
  /\ asked \in Seq(Requests) /\ stream \in Texts
  /\ context = [state_ |-> context.state_, request_ |-> context.request_]
  /\ context.request_ \in HttpRequest
  /\ answers \in Seq(Answers)
  /\ NothingCarriedOver
  /\ LeftInContext
  /\ PiecesReadRight

\* ParaseRequest leaves an HttpRequest.
LEMMA ParaseRequestTyped ==
  ASSUME NEW msg \in Texts, NEW s, NEW r \in HttpRequest
  PROVE  ParaseRequest(s, r, msg).request_ \in HttpRequest
<1>1. Len(msg) \in Nat
  BY TextLen
<1>2. PICK R : /\ Parses(R, Cursor(s, 0, 0, r), msg)
               /\ ParaseRequest(s, r, msg) = R[Len(msg) + 1]
  BY <1>1, ParseIs
<1>3. CursorInv(Cursor(s, 0, 0, r), 0)
  BY DEF CursorInv, Cursor
<1>4. CursorInv(R[Len(msg) + 1], Len(msg) + 1)
  <2>1. \A n \in 0 .. Len(msg) + 1 : CursorInv(R[n], n)
    BY <1>2, <1>3, ParseTyped
  <2>2. QED
    BY <1>1, <2>1
<1>5. QED
  BY <1>2, <1>4 DEF CursorInv

\* The requests of the clients are well formed, and their texts are texts.
LEMMA RequestsAreTexts ==
  ASSUME NEW t \in Requests
  PROVE  WellFormed(t) /\ Render(t) \in Texts
<1>1. WellFormed(t)
  BY HttpAssumption
<1>2. t \in Syntax
  BY <1>1 DEF WellFormed
<1>3. QED
  BY <1>1, <1>2, RequestParts

\* A new connection satisfies the invariant.
LEMMA InitHttp == HttpInit => HttpInv
<1> SUFFICES ASSUME HttpInit
             PROVE  HttpInv
  OBVIOUS
<1>1. NoRequest \in HttpRequest
  <2>1. << >> \in Texts
    BY DEF Texts
  <2>2. [k \in {} |-> << >>] \in Maps
    BY DEF Maps
  <2>3. QED
    BY <2>1, <2>2 DEF NoRequest, HttpRequest
<1>2. /\ asked = << >> /\ stream = << >> /\ answers = << >>
      /\ context = [state_ |-> "START", request_ |-> NoRequest]
  BY DEF HttpInit
<1>3. asked \in Seq(Requests) /\ stream \in Texts /\ answers \in Seq(Answers)
  BY <1>2 DEF Texts
<1>4. NothingCarriedOver
  BY <1>2 DEF NothingCarriedOver
<1>5. PiecesReadRight
  BY <1>2 DEF PiecesReadRight
<1>6. /\ context = [state_ |-> context.state_, request_ |-> context.request_]
      /\ context.request_ \in HttpRequest
  BY <1>1, <1>2
<1>7. LeftInContext
  BY <1>2 DEF LeftInContext, Left
<1>8. QED
  BY <1>3, <1>4, <1>5, <1>6, <1>7 DEF HttpInv

\* A request is asked for.
LEMMA AskKeeps ==
  ASSUME HttpInv, Ask
  PROVE  HttpInv'
<1>1. PICK t \in Requests : asked' = Append(asked, t) /\ stream' = stream \o Render(t)
  BY DEF Ask
<1>2. asked' \in Seq(Requests)
  BY <1>1, AppendProperties DEF HttpInv
<1>3. stream' \in Texts
  <2>1. stream \in Texts /\ Render(t) \in Texts
    BY RequestsAreTexts DEF HttpInv
  <2>2. QED
    BY <1>1, <2>1, TextsJoined
<1>4. UNCHANGED <<state_, context, answers>>
  BY DEF Ask
<1>5. QED
  BY <1>2, <1>3, <1>4 DEF HttpInv, NothingCarriedOver, PiecesReadRight, LeftInContext, Left

\* The end of the stream.
LEMMA EndKeeps ==
  ASSUME HttpInv, HandleMessageAtEnd
  PROVE  HttpInv'
<1>1. stream' \in Texts
  BY DEF HandleMessageAtEnd, Texts
<1>2. QED
  BY <1>1 DEF HandleMessageAtEnd, HttpInv, NothingCarriedOver, PiecesReadRight, LeftInContext, Left

\* onMessage keeps the invariant: a piece that is the text of a request is read right,
\* because the parser is at the start of a request.
LEMMA MessageKeeps ==
  ASSUME HttpInv, NEW n \in 1 .. Len(stream), HandleMessage(n)
  PROVE  HttpInv'
<1> DEFINE piece == SubSeq(stream, 1, n)
           c == ParaseRequest(context.state_, context.request_, piece)
<1>1. /\ asked \in Seq(Requests) /\ stream \in Texts /\ context.request_ \in HttpRequest
      /\ answers \in Seq(Answers) /\ NothingCarriedOver /\ PiecesReadRight
      /\ LeftInContext
  BY DEF HttpInv
<1>2. Len(stream) \in Nat /\ n \in Nat /\ n <= Len(stream)
  BY <1>1, TextLen
<1>3. piece \in Texts
  <2>1. 0 \in Nat /\ n \in Int /\ 0 + 1 = 1
    BY <1>2
  <2>2. SubSeq(stream, 0 + 1, n) \in Texts
    BY <1>1, <1>2, <2>1, WordIsText
  <2>3. QED
    BY <2>1, <2>2
<1>4. stream' \in Texts
  <2>1. SubSeq(stream, n + 1, Len(stream)) \in Texts
    BY <1>1, <1>2, WordIsText
  <2>2. QED
    BY <2>1 DEF HandleMessage
<1>5. context.state_ = "START" /\ context.request_ = Left(Len(answers) + 1)
  BY <1>1 DEF HandleMessage, NothingCarriedOver, LeftInContext
<1>6. asked' \in Seq(Requests)
  BY <1>1 DEF HandleMessage
<1> HIDE DEF piece
<1>7. c.request_ \in HttpRequest
  BY <1>1, <1>3, ParaseRequestTyped
<1>8. ASSUME NEW t \in Requests, Polite(t), piece = Render(t)
      PROVE  c.state_ = "COMPLETE" /\ Agrees(Left(Len(answers) + 1), c.request_, t)
  BY <1>1, <1>5, <1>8, RequestsAreTexts, RequestIsRead
<1>9. Answer(piece, c) \/ Refuse(piece, c) \/ Terminate(piece, c)
  BY DEF HandleMessage, onMessage, piece
<1> HIDE DEF c
<1>10. CASE Answer(piece, c)
  <2>1. PICK close : /\ close \in BOOLEAN
                     /\ answers' = Append(answers, [piece |-> piece, request |-> c.request_,
                                                    close |-> close])
    BY <1>10 DEF Answer, Close
  <2>2. context' = [state_ |-> "START", request_ |-> c.request_]
    BY <1>10 DEF Answer
  <2> DEFINE x == [piece |-> piece, request |-> c.request_, close |-> close]
  <2>3. x \in Answers /\ x.piece = piece /\ x.request = c.request_
    BY <1>3, <1>7, <2>1 DEF Answers
  <2> HIDE DEF x
  <2>4. /\ answers' \in Seq(Answers) /\ DOMAIN answers' = 1 .. Len(answers) + 1
        /\ \A i \in 1 .. Len(answers) : answers'[i] = answers[i]
        /\ answers'[Len(answers) + 1] = x
        /\ DOMAIN answers = 1 .. Len(answers) /\ Len(answers) \in Nat
    <3>1. answers' = Append(answers, x)
      BY <2>1 DEF x
    <3>2. /\ Append(answers, x) \in Seq(Answers)
          /\ Len(Append(answers, x)) = Len(answers) + 1
          /\ \A i \in 1 .. Len(answers) : Append(answers, x)[i] = answers[i]
          /\ Append(answers, x)[Len(answers) + 1] = x
      BY <1>1, <2>3, AppendProperties
    <3>3. /\ DOMAIN answers = 1 .. Len(answers) /\ Len(answers) \in Nat
          /\ DOMAIN Append(answers, x) = 1 .. Len(Append(answers, x))
      BY <1>1, <3>2, LenProperties
    <3>4. QED
      BY <3>1, <3>2, <3>3
  <2>5. PiecesReadRight'
    <3>1. ASSUME NEW i \in DOMAIN answers', NEW t \in Requests, Polite(t),
                 answers'[i].piece = Render(t)
          PROVE  Agrees(Left(i)', answers'[i].request, t)
      <4>1. i \in 1 .. Len(answers) + 1
        BY <2>4
      <4>2. Left(i)' = Left(i)
        <5>1. CASE i = 1
          BY <5>1 DEF Left
        <5>2. CASE i # 1
          <6>1. i - 1 \in 1 .. Len(answers)
            BY <2>4, <4>1, <5>2
          <6>2. QED
            BY <2>4, <5>2, <6>1 DEF Left
        <5>3. QED
          BY <5>1, <5>2
      <4>3. CASE i = Len(answers) + 1
        BY <1>8, <2>3, <2>4, <3>1, <4>2, <4>3
      <4>4. CASE i # Len(answers) + 1
        <5>1. i \in DOMAIN answers /\ answers'[i] = answers[i]
          BY <2>4, <4>4
        <5>2. QED
          BY <1>1, <3>1, <4>2, <5>1 DEF PiecesReadRight
      <4>5. QED
        BY <4>3, <4>4
    <3>2. QED
      BY <3>1 DEF PiecesReadRight
  <2>6. NothingCarriedOver'
    BY <2>2 DEF NothingCarriedOver
  <2>7. LeftInContext'
    <3>1. Len(answers') = Len(answers) + 1 /\ Len(answers) \in Nat
      <4>1. answers' = Append(answers, x)
        BY <2>1 DEF x
      <4>2. QED
        BY <1>1, <2>3, <2>4, <4>1, AppendProperties
    <3>2. context'.request_ = answers'[Len(answers) + 1].request
      BY <2>2, <2>3, <2>4
    <3>3. PICK m \in Nat : m = Len(answers) + 2 /\ m # 1 /\ m - 1 = Len(answers) + 1
      BY <3>1
    <3>4. (IF m = 1 THEN NoRequest ELSE answers'[m - 1].request)
            = answers'[Len(answers) + 1].request
      BY <3>3
    <3>5. Len(answers') + 1 = m
      BY <3>1, <3>3
    <3>6. QED
      BY <3>2, <3>4, <3>5 DEF LeftInContext, Left
  <2>8. QED
    BY <1>4, <1>6, <1>7, <2>2, <2>4, <2>5, <2>6, <2>7 DEF HttpInv
<1>11. CASE Refuse(piece, c) \/ Terminate(piece, c)
  <2>1. /\ state_' \in {"Disconected", "Terminated"} /\ answers' = answers
        /\ context' = [state_ |-> c.state_, request_ |-> c.request_]
    BY <1>11 DEF Refuse, Terminate
  <2>2. NothingCarriedOver' /\ PiecesReadRight' /\ LeftInContext'
    BY <1>1, <2>1 DEF NothingCarriedOver, PiecesReadRight, LeftInContext, Left
  <2>3. QED
    BY <1>1, <1>4, <1>6, <1>7, <2>1, <2>2 DEF HttpInv
<1>12. QED
  BY <1>9, <1>10, <1>11

\* Every step of the connection and of its client keeps the invariant.
LEMMA NextHttp == HttpInv /\ [HttpNext]_httpVars => HttpInv'
<1> SUFFICES ASSUME HttpInv, [HttpNext]_httpVars
             PROVE  HttpInv'
  OBVIOUS
<1>1. CASE Ask
  BY <1>1, AskKeeps
<1>2. CASE HandleMessageAtEnd
  BY <1>2, EndKeeps
<1>3. CASE \E n \in 1 .. Len(stream) : HandleMessage(n)
  BY <1>3, MessageKeeps
<1>4. CASE UNCHANGED httpVars
  BY <1>4 DEF httpVars, HttpInv, NothingCarriedOver, PiecesReadRight, LeftInContext, Left
<1>5. QED
  BY <1>1, <1>2, <1>3, <1>4 DEF HttpNext

\* The invariant of the connection holds in every reachable state.
LEMMA HttpInvariance == HttpSpec => []HttpInv
BY InitHttp, NextHttp, PTL DEF HttpSpec

\* A request that is read in one piece reaches the callback with exactly what the
\* client wrote, put over exactly the parameters and headers that the callback saw for
\* the answer before: the parser takes every part out of the text it was put into, and
\* what it takes for another part is nothing else (HttpContext.cpp:20-22, 31-275).
THEOREM RequestsAreReadRight == HttpSpec => []ReadsRight
<1>1. HttpInv => ReadsRight
  <2> SUFFICES ASSUME HttpInv, NEW i \in DOMAIN answers, NEW j \in DOMAIN asked,
                      Polite(asked[j]), answers[i].piece = Render(asked[j])
               PROVE  Agrees(Left(i), answers[i].request, asked[j])
    BY DEF ReadsRight, Polite
  <2>1. asked[j] \in Requests
    <3>1. asked \in Seq(Requests)
      BY DEF HttpInv
    <3>2. QED
      BY <3>1, ElementOfSeq, LenProperties
  <2>2. QED
    BY <2>1 DEF HttpInv, PiecesReadRight
<1>2. QED
  BY <1>1, HttpInvariance, PTL

\* The parser of an open connection is at the start of a request (HttpServer.cpp:65-76).
THEOREM NoHalfRequestIsKept == HttpSpec => []NothingCarriedOver
<1>1. HttpInv => NothingCarriedOver
  BY DEF HttpInv
<1>2. QED
  BY <1>1, HttpInvariance, PTL
=================================================================================
