----------------------------- MODULE CpplintProofs -----------------------------
(***************************************************************************)
(* Proofs about what cpplint.py reports, for any command line, any tree of *)
(* files and any texts: every error of the text that the settings let      *)
(* through and no comment or mark silences, once and in order, and every   *)
(* #include judged as the text has it.                                     *)
(***************************************************************************)
EXTENDS BuildSupportProofs

------------------------------------------------------------------------------
(* What Only does to a choice, and to a sequence that grows. *)

OnlyRuns(f, U, s, S, n) ==
  /\ f[0] = << >> /\ f[n] = Only(s, S)
  /\ \A k \in 0 .. n : f[k] \in Seq(U)
  /\ \A k \in 0 .. n - 1 : f[k + 1] = OnlyStep(f[k], s[k + 1], S)

\* One step of it.
LEMMA OneStep ==
  ASSUME NEW f, NEW U, NEW s, NEW S, NEW n, OnlyRuns(f, U, s, S, n)
  PROVE  \A k \in 0 .. n - 1 : f[k + 1] = OnlyStep(f[k], s[k + 1], S)
BY Zenon DEF OnlyRuns

\* Only goes through the sequence and takes what is in the set.
LEMMA OnlyIsRun ==
  ASSUME NEW U, NEW s \in Seq(U), NEW S, NEW n \in Nat, n = Len(s)
  PROVE  \E f : OnlyRuns(f, U, s, S, n)
<1>1. PICK f : OnlyUpto(f, s, S, n) /\ Only(s, S) = f[n]
  BY OnlyDef
<1>2. \A k \in 0 .. n : f[k] = IF k = 0 THEN << >> ELSE OnlyStep(f[k - 1], s[k], S)
  BY <1>1, Zenon DEF OnlyUpto
<1>3. f[0] = << >> /\ << >> \in Seq(U)
  BY <1>2
<1>4. \A k \in 0 .. n - 1 : f[k + 1] = OnlyStep(f[k], s[k + 1], S)
  <2>1. SUFFICES ASSUME NEW k \in 0 .. n - 1
                 PROVE  f[k + 1] = OnlyStep(f[k], s[k + 1], S)
    OBVIOUS
  <2>2. k + 1 \in 0 .. n /\ k + 1 # 0 /\ k + 1 - 1 = k
    OBVIOUS
  <2>3. QED
    BY <1>2, <2>2
<1> DEFINE T == {k \in Nat : k <= n => f[k] \in Seq(U)}
<1>5. 0 \in T
  BY <1>3, Zenon
<1>6. ASSUME NEW k \in T
      PROVE  k + 1 \in T
  <2>1. SUFFICES ASSUME k + 1 <= n
                 PROVE  f[k + 1] \in Seq(U)
    OBVIOUS
  <2>2. k \in 0 .. n - 1 /\ f[k] \in Seq(U) /\ s[k + 1] \in U
    BY <2>1
  <2>3. PICK a \in Seq(U), e \in U : a = f[k] /\ e = s[k + 1]
    BY <2>2
  <2>4. f[k + 1] = OnlyStep(a, e, S)
    BY <1>4, <2>2, <2>3
  <2>5. Append(a, e) \in Seq(U)
    OBVIOUS
  <2>6. QED
    BY <2>3, <2>4, <2>5 DEF OnlyStep
<1>7. \A k \in 0 .. n : f[k] \in Seq(U)
  <2>1. T = Nat
    BY <1>5, <1>6, AllNumbers
  <2>2. QED
    BY <2>1
<1>8. QED
  BY <1>1, <1>3, <1>4, <1>7 DEF OnlyRuns

\* Sets that agree on the elements choose the same.
LEMMA OnlySame ==
  ASSUME NEW U, NEW s \in Seq(U), NEW S, NEW R, \A k \in 1 .. Len(s) : s[k] \in S <=> s[k] \in R
  PROVE  Only(s, S) = Only(s, R)
<1>1. PICK n \in Nat : n = Len(s)
  OBVIOUS
<1>2. PICK f : OnlyRuns(f, U, s, S, n)
  BY <1>1, OnlyIsRun
<1>3. PICK g : OnlyRuns(g, U, s, R, n)
  BY <1>1, OnlyIsRun
<1> DEFINE T == {k \in Nat : k <= n => f[k] = g[k]}
<1>4. 0 \in T
  BY <1>2, <1>3 DEF OnlyRuns
<1>5. ASSUME NEW k \in T
      PROVE  k + 1 \in T
  <2>1. SUFFICES ASSUME k + 1 <= n
                 PROVE  f[k + 1] = g[k + 1]
    OBVIOUS
  <2>2. k \in 0 .. n - 1 /\ f[k] = g[k] /\ k + 1 \in 1 .. Len(s)
    BY <1>1, <2>1
  <2>3. f[k + 1] = OnlyStep(f[k], s[k + 1], S) /\ g[k + 1] = OnlyStep(g[k], s[k + 1], R)
    BY <1>2, <1>3, <2>2 DEF OnlyRuns
  <2>4. QED
    BY <2>2, <2>3 DEF OnlyStep
<1>6. n \in T
  BY <1>4, <1>5, AllNumbers
<1>7. QED
  BY <1>2, <1>3, <1>6 DEF OnlyRuns

\* One element is a sequence.
LEMMA OneElement ==
  ASSUME NEW U, NEW e \in U
  PROVE  <<e>> \in Seq(U)
OBVIOUS

\* Of two sequences one after the other, what is chosen from the one and then from the other.
LEMMA OnlyOfBoth ==
  ASSUME NEW U, NEW s \in Seq(U), NEW t \in Seq(U), NEW S
  PROVE  Only(s \o t, S) = Only(s, S) \o Only(t, S)
<1>1. PICK n \in Nat, m \in Nat : n = Len(s) /\ m = Len(t)
  OBVIOUS
<1>0. PICK w : w = s \o t
  OBVIOUS
<1>2. /\ w \in Seq(U) /\ Len(w) = n + m /\ n + m \in Nat
      /\ \A u \in 1 .. n + m : w[u] = IF u <= n THEN s[u] ELSE t[u - n]
  BY <1>0, <1>1, ConcatProperties
<1>3. PICK f : OnlyRuns(f, U, s, S, n)
  BY <1>1, OnlyIsRun
<1>4. PICK g : OnlyRuns(g, U, t, S, m)
  BY <1>1, OnlyIsRun
<1>5. PICK h : OnlyRuns(h, U, w, S, n + m)
  BY <1>2, OnlyIsRun
<1>6. \A k \in 0 .. n + m - 1 : h[k + 1] = OnlyStep(h[k], w[k + 1], S)
  BY <1>5, OneStep
<1>7. h[n] = f[n]
  <2> DEFINE T == {k \in Nat : k <= n => h[k] = f[k]}
  <2>1. 0 \in T
    BY <1>3, <1>5 DEF OnlyRuns
  <2>2. ASSUME NEW k \in T
        PROVE  k + 1 \in T
    <3>1. SUFFICES ASSUME k + 1 <= n
                   PROVE  h[k + 1] = f[k + 1]
      OBVIOUS
    <3>2. k \in 0 .. n - 1 /\ k \in 0 .. n + m - 1 /\ h[k] = f[k] /\ k + 1 \in 1 .. n + m
      BY <3>1
    <3>3. w[k + 1] = s[k + 1]
      BY <1>2, <3>1, <3>2
    <3>4. f[k + 1] = OnlyStep(f[k], s[k + 1], S)
      BY <1>3, <3>2 DEF OnlyRuns
    <3>5. QED
      BY <1>6, <3>2, <3>3, <3>4
  <2>3. n \in T
    BY <2>1, <2>2, AllNumbers
  <2>4. QED
    BY <2>3
<1>8. h[n + m] = f[n] \o g[m]
  <2> DEFINE P(k) == k <= m => h[n + k] = f[n] \o g[k]
  <2>1. P(0)
    <3>1. f[n] \in Seq(U) /\ g[0] = << >> /\ n + 0 = n
      BY <1>3, <1>4 DEF OnlyRuns
    <3>2. f[n] \o g[0] = f[n]
      BY <3>1, ConcatEmptySeq
    <3>3. QED
      BY <1>7, <3>1, <3>2
  <2>2. ASSUME NEW k \in Nat, P(k)
        PROVE  P(k + 1)
    <3>1. SUFFICES ASSUME k + 1 <= m
                   PROVE  h[n + (k + 1)] = f[n] \o g[k + 1]
      OBVIOUS
    <3>2. /\ k \in 0 .. m - 1 /\ k \in 0 .. m /\ n + k \in 0 .. n + m - 1 /\ h[n + k] = f[n] \o g[k]
          /\ n + (k + 1) = n + k + 1 /\ n + k + 1 \in 1 .. n + m /\ ~(n + k + 1 <= n) /\ n + k + 1 - n = k + 1
      <4>1. k <= m
        BY <3>1
      <4>2. h[n + k] = f[n] \o g[k]
        BY <2>2, <4>1
      <4> HIDE DEF P
      <4>3. QED
        BY <3>1, <4>1, <4>2
    <3>3. PICK e \in U : e = t[k + 1]
      <4>1. t[k + 1] \in U
        BY <1>1, <3>1
      <4>2. QED
        BY <4>1
    <3>4. w[n + k + 1] = e
      BY <1>2, <3>2, <3>3
    <3>6. PICK a \in Seq(U), b \in Seq(U) : a = f[n] /\ b = g[k]
      <4>1. n \in 0 .. n
        OBVIOUS
      <4>2. f[n] \in Seq(U) /\ g[k] \in Seq(U)
        BY <1>3, <1>4, <3>2, <4>1, Zenon DEF OnlyRuns
      <4>3. QED
        BY <4>2
    <3>7. g[k + 1] = OnlyStep(b, e, S)
      BY <1>4, <3>2, <3>3, <3>6 DEF OnlyRuns
    <3>8. h[n + (k + 1)] = OnlyStep(a \o b, e, S)
      BY <1>6, <3>2, <3>4, <3>6
    <3>9. PICK l \in Seq(U) : l = <<e>>
      BY OneElement
    <3>10. (a \o b) \o l = a \o (b \o l)
      BY ConcatAssociative, SMTT(60)
    <3>11. PICK c \in Seq(U) : c = a \o b
      <4>1. a \o b \in Seq(U)
        BY ConcatProperties
      <4>2. QED
        BY <4>1
    <3>12. Append(c, e) = c \o l /\ Append(b, e) = b \o l
      BY <3>9, AppendIsConcat
    <3>13. a \o OnlyStep(b, e, S) = OnlyStep(c, e, S)
      BY <3>10, <3>11, <3>12 DEF OnlyStep
    <3>14. QED
      BY <3>6, <3>7, <3>8, <3>11, <3>13
  <2> HIDE DEF P
  <2>3. P(m)
    <3> DEFINE T == {k \in Nat : P(k)}
    <3>1. 0 \in T
      BY <2>1
    <3>2. ASSUME NEW k \in T
          PROVE  k + 1 \in T
      BY <2>2
    <3>3. T = Nat
      BY <3>1, <3>2, AllNumbers
    <3>4. QED
      BY <3>3
  <2>4. m <= m
    OBVIOUS
  <2>5. QED
    BY <2>3, <2>4 DEF P
<1>9. QED
  BY <1>0, <1>3, <1>4, <1>5, <1>8 DEF OnlyRuns

\* The same of all pairs of sequences.
LEMMA OnlyOfAll ==
  ASSUME NEW U, NEW S
  PROVE  \A s, t \in Seq(U) : Only(s \o t, S) = Only(s, S) \o Only(t, S)
<1>1. SUFFICES ASSUME NEW s \in Seq(U), NEW t \in Seq(U)
               PROVE  Only(s \o t, S) = Only(s, S) \o Only(t, S)
  OBVIOUS
<1>2. QED
  BY OnlyOfBoth, SMTT(30)

\* Of one element.
LEMMA OnlyOfOne ==
  ASSUME NEW U, NEW e \in U, NEW S
  PROVE  Only(<<e>>, S) = IF e \in S THEN <<e>> ELSE << >>
<1>1. PICK s : s = <<e>> /\ s \in Seq(U) /\ Len(s) = 1 /\ s[1] = e
  <2>1. <<e>> \in Seq(U) /\ Len(<<e>>) = 1 /\ <<e>>[1] = e
    OBVIOUS
  <2>2. QED
    BY <2>1
<1>2. PICK f : OnlyRuns(f, U, s, S, 1)
  BY <1>1, OnlyIsRun
<1>3. 0 \in 0 .. 1 - 1 /\ 0 + 1 = 1
  OBVIOUS
<1>4. f[1] = OnlyStep(f[0], e, S) /\ f[0] = << >> /\ f[1] = Only(s, S)
  BY <1>1, <1>2, <1>3 DEF OnlyRuns
<1>5. Append(<< >>, e) = <<e>>
  OBVIOUS
<1>6. QED
  BY <1>1, <1>4, <1>5 DEF OnlyStep

\* A choice among what was chosen is one choice.
LEMMA OnlyOfOnly ==
  ASSUME NEW U, NEW s \in Seq(U), NEW P, NEW Q, NEW R, \A k \in 1 .. Len(s) : s[k] \in R <=> s[k] \in P /\ s[k] \in Q
  PROVE  Only(Only(s, P), Q) = Only(s, R)
<1>1. PICK n \in Nat : n = Len(s)
  OBVIOUS
<1>2. PICK f : OnlyRuns(f, U, s, P, n)
  BY <1>1, OnlyIsRun
<1>3. PICK g : OnlyRuns(g, U, s, R, n)
  BY <1>1, OnlyIsRun
<1> DEFINE T == {k \in Nat : k <= n => Only(f[k], Q) = g[k]}
<1>4. 0 \in T
  <2>1. f[0] = << >> /\ g[0] = << >>
    BY <1>2, <1>3 DEF OnlyRuns
  <2>2. << >> \in Seq(U) /\ Len(<< >>) = 0
    OBVIOUS
  <2>3. PICK h : OnlyRuns(h, U, << >>, Q, 0)
    BY <2>2, OnlyIsRun
  <2>4. Only(<< >>, Q) = << >>
    BY <2>3 DEF OnlyRuns
  <2>5. QED
    BY <2>1, <2>4
<1>5. ASSUME NEW k \in T
      PROVE  k + 1 \in T
  <2>1. SUFFICES ASSUME k + 1 <= n
                 PROVE  Only(f[k + 1], Q) = g[k + 1]
    OBVIOUS
  <2>2. k \in 0 .. n - 1 /\ k \in 0 .. n /\ Only(f[k], Q) = g[k] /\ k + 1 \in 1 .. Len(s)
    BY <1>1, <2>1
  <2>3. PICK e \in U : e = s[k + 1]
    BY <2>2
  <2>4. f[k + 1] = OnlyStep(f[k], e, P) /\ g[k + 1] = OnlyStep(g[k], e, R)
    BY <1>2, <1>3, <2>2, <2>3 DEF OnlyRuns
  <2>5. PICK a \in Seq(U), b \in Seq(U) : a = f[k] /\ b = g[k]
    BY <1>2, <1>3, <2>2 DEF OnlyRuns
  <2>6. e \in R <=> e \in P /\ e \in Q
    BY <2>2, <2>3
  <2>7. CASE e \in P
    <3>1. f[k + 1] = a \o <<e>>
      BY <2>4, <2>5, <2>7 DEF OnlyStep
    <3>2. <<e>> \in Seq(U)
      OBVIOUS
    <3>3. Only(a \o <<e>>, Q) = Only(a, Q) \o Only(<<e>>, Q)
      <4>1. PICK l \in Seq(U) : l = <<e>>
        BY <3>2
      <4>2. Only(a \o l, Q) = Only(a, Q) \o Only(l, Q)
        BY OnlyOfAll, ZenonT(30)
      <4>3. QED
        BY <4>1, <4>2
    <3>4. Only(<<e>>, Q) = IF e \in Q THEN <<e>> ELSE << >>
      BY OnlyOfOne
    <3>5. Only(a, Q) = b
      BY <2>2, <2>5
    <3>6. CASE e \in Q
      <4>1. g[k + 1] = b \o <<e>>
        BY <2>4, <2>5, <2>6, <2>7, <3>6 DEF OnlyStep
      <4>2. QED
        BY <3>1, <3>3, <3>4, <3>5, <3>6, <4>1
    <3>7. CASE e \notin Q
      <4>1. g[k + 1] = b
        BY <2>4, <2>5, <2>6, <3>7 DEF OnlyStep
      <4>2. b \o << >> = b
        BY ConcatEmptySeq
      <4>3. QED
        BY <3>1, <3>3, <3>4, <3>5, <3>7, <4>1, <4>2
    <3>8. QED
      BY <3>6, <3>7
  <2>8. CASE e \notin P
    <3>1. f[k + 1] = f[k] /\ g[k + 1] = g[k]
      BY <2>4, <2>6, <2>8 DEF OnlyStep
    <3>2. QED
      BY <2>2, <3>1
  <2>9. QED
    BY <2>7, <2>8
<1>6. n \in T
  BY <1>4, <1>5, AllNumbers
<1>7. QED
  BY <1>2, <1>3, <1>6 DEF OnlyRuns

------------------------------------------------------------------------------
(* What is due of a file, whose text and settings are v: [doc, cppvar,       *)
(* guarded (whether its header guard is checked), global, filters, verbose]. *)

GuardReads(v, k, j) == k = j \/ (k = IfndefAt(v.doc.elided) /\ v.doc.elided[k].macro # v.cppvar)
FoundAtIn(v, e) == {h \in DOMAIN v.doc.elided : e \in ToSet(CheckEmptyBlockBody(v.doc, h))}
ReadIn(v, e, k) ==
  /\ e[2] = "build/header_guard" => GuardReads(v, k, e[1])
  /\ e[2] \in EmptyBodies => \A h \in FoundAtIn(v, e) : k <= h
SilencedIn(v, e) ==
  \/ e[2] \in v.global
  \/ \E k \in DOMAIN v.doc.raw_lines : /\ Speaks(v.doc.raw_lines[k], k, e[1])
                                       /\ v.doc.raw_lines[k].nolint[2] \in {"*"} \cup ({e[2]} \cap DOMAIN Group)
                                       /\ ReadIn(v, e, k)
GuardLineIn(v, k) == v.guarded /\ k \in DOMAIN v.doc.elided /\ v.doc.elided[k].dir \in {"ifndef", "endif"}
ReadAheadIn(v, k) == GuardLineIn(v, k) \/ \E h \in 1 .. k - 1 : TrailingSemicolon(v.doc, h) \in {k, k + 1}
JudgedIn(v, e) ==
  /\ e[2] # "readability/multiline_comment"
  /\ ~(e[2] = "readability/nolint" /\ ReadAheadIn(v, e[1]))
  /\ e[2] \in EmptyBodies =>
       \A k \in DOMAIN v.doc.raw_lines : \A h \in FoundAtIn(v, e) :
         Speaks(v.doc.raw_lines[k], k, e[1]) /\ k > h => ~ReadAheadIn(v, k) /\ \A u \in FoundAtIn(v, e) : k > u
DueIn(v, e) == JudgedIn(v, e) /\ e[3] >= v.verbose /\ LetThrough(v.filters, e[2]) /\ ~SilencedIn(v, e)
ReportedIn(v, F, R) == Only(R, {e \in ToSet(R) : JudgedIn(v, e)}) = Only(F, {e \in ToSet(F) : DueIn(v, e)})

\* A nonempty set of line numbers has a greatest one.
LEMMA GreatestIn ==
  ASSUME NEW N \in Nat, NEW S, S \subseteq 1 .. N, S # {}
  PROVE  \E k \in S : \A j \in S : j <= k
<1> DEFINE T == {n \in Nat : \E k \in S : n = N - k}
<1>1. T # {} /\ T \in SUBSET Nat
  <2>1. PICK k \in S : TRUE
    OBVIOUS
  <2>2. N - k \in Nat
    OBVIOUS
  <2>3. N - k \in T
    BY <2>2
  <2>4. QED
    BY <2>3
<1>2. PICK m \in T : \A n \in T : m <= n
  BY <1>1, LeastNumber
<1>3. PICK k \in S : m = N - k
  OBVIOUS
<1>4. \A j \in S : N - j \in T
  OBVIOUS
<1> HIDE DEF T
<1>5. \A j \in S : j <= k
  BY <1>2, <1>3, <1>4
<1>6. QED
  BY <1>5

\* The last filter that matches decides as LetThrough says.
LEMMA LastFilterDecides ==
  ASSUME NEW filters, \E U : filters \in Seq(U), ~BadFilter(filters), NEW category
  PROVE  IsFiltered(filters, category) <=> ~LetThrough(filters, category)
<1>0. PICK U : filters \in Seq(U)
  OBVIOUS
<1>1. PICK N \in Nat : N = Len(filters) /\ DOMAIN filters = 1 .. N
  BY <1>0
<1>2. PICK M : M = {u \in 1 .. N : Matches(filters[u], category)}
  OBVIOUS
<1>3. \A u \in 1 .. N : filters[u].sign = "+" \/ filters[u].sign = "-"
  BY <1>1 DEF BadFilter
<1>4. IsFiltered(filters, category) <=> M # {} /\ filters[CHOOSE u \in M : \A j \in M : j <= u].sign = "-"
  BY <1>1, <1>2, Zenon DEF IsFiltered
<1>5. LetThrough(filters, category) <=>
        \A u \in M : filters[u].sign = "-" => \E j \in M : j > u /\ filters[j].sign = "+"
  <2>1. ASSUME NEW u \in 1 .. N
        PROVE  \A j : j \in u + 1 .. N <=> j \in 1 .. N /\ j > u
    OBVIOUS
  <2>2. QED
    BY <1>1, <1>2, <2>1 DEF LetThrough
<1>6. CASE M = {}
  BY <1>4, <1>5, <1>6
<1>7. CASE M # {}
  <2>1. PICK last : last = CHOOSE u \in M : \A j \in M : j <= u
    OBVIOUS
  <2>2. M \subseteq 1 .. N
    BY <1>2
  <2>4. \E u \in M : \A j \in M : j <= u
    BY <1>7, <2>2, GreatestIn
  <2>5. last \in M /\ \A j \in M : j <= last
    BY <2>1, <2>4, Zenon
  <2>6. filters[last].sign = "-" => ~LetThrough(filters, category)
    <3>1. \A j \in M : ~(j > last)
      BY <2>2, <2>5
    <3>2. QED
      BY <1>5, <2>5, <3>1
  <2>7. filters[last].sign = "+" => LetThrough(filters, category)
    <3>1. ASSUME NEW u \in M, filters[u].sign = "-", filters[last].sign = "+"
          PROVE  last > u
      <4>1. u # last /\ u <= last /\ u \in Nat /\ last \in Nat
        BY <2>2, <2>5, <3>1
      <4>2. QED
        BY <4>1
    <3>2. QED
      BY <1>5, <2>5, <3>1
  <2>8. filters[last].sign = "+" \/ filters[last].sign = "-"
    BY <1>3, <2>2, <2>5
  <2>9. QED
    BY <1>4, <1>7, <2>1, <2>6, <2>7, <2>8
<1>8. QED
  BY <1>6, <1>7

\* What was reported until now is right, and the elements belong to U.
LogOf(v, U, log) == log.found \in Seq(U) /\ log.reported \in Seq(U) /\ ReportedIn(v, log.found, log.reported)

\* In terms of all elements.
LEMMA ReportedAll ==
  ASSUME NEW v, NEW U, NEW F \in Seq(U), NEW R \in Seq(U)
  PROVE  ReportedIn(v, F, R) <=> Only(R, {e \in U : JudgedIn(v, e)}) = Only(F, {e \in U : DueIn(v, e)})
<1>1. Only(R, {e \in ToSet(R) : JudgedIn(v, e)}) = Only(R, {e \in U : JudgedIn(v, e)})
  <2>1. PICK S, T : S = {e \in ToSet(R) : JudgedIn(v, e)} /\ T = {e \in U : JudgedIn(v, e)}
    OBVIOUS
  <2>2. \A k \in 1 .. Len(R) : R[k] \in ToSet(R) /\ R[k] \in U
    BY DEF ToSet
  <2>3. \A k \in 1 .. Len(R) : R[k] \in S <=> R[k] \in T
    BY <2>1, <2>2
  <2>4. Only(R, S) = Only(R, T)
    BY <2>3, OnlySame
  <2>5. QED
    BY <2>1, <2>4
<1>2. Only(F, {e \in ToSet(F) : DueIn(v, e)}) = Only(F, {e \in U : DueIn(v, e)})
  <2>1. PICK S, T : S = {e \in ToSet(F) : DueIn(v, e)} /\ T = {e \in U : DueIn(v, e)}
    OBVIOUS
  <2>2. \A k \in 1 .. Len(F) : F[k] \in ToSet(F) /\ F[k] \in U
    BY DEF ToSet
  <2>3. \A k \in 1 .. Len(F) : F[k] \in S <=> F[k] \in T
    BY <2>1, <2>2
  <2>4. Only(F, S) = Only(F, T)
    BY <2>3, OnlySame
  <2>5. QED
    BY <2>1, <2>4
<1>3. QED
  BY <1>1, <1>2 DEF ReportedIn

\* The settings that errors are judged by.
SettingsOf(v, st) ==
  st.filters = v.filters /\ st.verbose_level = v.verbose /\ (\E U : v.filters \in Seq(U)) /\ ~BadFilter(v.filters)

\* An error that is judged is silenced now exactly if the text as a whole silences it.
JudgedRight(v, sup, e) == JudgedIn(v, e) => (IsErrorSuppressedByNolint(sup, e[2], e[1]) <=> SilencedIn(v, e))

\* Errors that are judged right are reported right.
LEMMA ReportedMore ==
  ASSUME NEW v, NEW U, NEW log, LogOf(v, U, log), SettingsOf(v, log.state), NEW sup,
         NEW E \in Seq(U), \A k \in 1 .. Len(E) : JudgedRight(v, sup, E[k])
  PROVE  LogOf(v, U, Error(log, sup, E))
<1>1. PICK J, D : J = {e \in U : JudgedIn(v, e)} /\ D = {e \in U : DueIn(v, e)}
  OBVIOUS
<1>2. PICK F \in Seq(U), R \in Seq(U) : F = log.found /\ R = log.reported
  BY DEF LogOf
<1>3. PICK S : S = {e \in ToSet(E) : _ShouldPrintError(log.state, sup, e)}
  OBVIOUS
<1>4. PICK printed \in Seq(U) : printed = Only(E, S)
  <2>1. Only(E, S) \in Seq(U)
    BY OnlyIn
  <2>2. QED
    BY <2>1
<1>5. Error(log, sup, E).found = F \o E /\ Error(log, sup, E).reported = R \o printed
  BY <1>2, <1>3, <1>4 DEF Error
<1>6. \A k \in 1 .. Len(E) : E[k] \in D <=> E[k] \in S /\ E[k] \in J
  <2>1. SUFFICES ASSUME NEW k \in 1 .. Len(E)
                 PROVE  E[k] \in D <=> E[k] \in S /\ E[k] \in J
    OBVIOUS
  <2>2. PICK e : e = E[k]
    OBVIOUS
  <2>3. e \in U /\ e \in ToSet(E)
    BY <2>2 DEF ToSet
  <2>4. e \in J <=> JudgedIn(v, e)
    BY <1>1, <2>3
  <2>5. e \in D <=> DueIn(v, e)
    BY <1>1, <2>3
  <2>6. e \in S <=> _ShouldPrintError(log.state, sup, e)
    BY <1>3, <2>3
  <2>7. JudgedRight(v, sup, e)
    BY <2>2
  <2>8. IsFiltered(v.filters, e[2]) <=> ~LetThrough(v.filters, e[2])
    BY LastFilterDecides DEF SettingsOf
  <2>9. JudgedIn(v, e) => (_ShouldPrintError(log.state, sup, e) <=> DueIn(v, e))
    BY <2>7, <2>8, Zenon DEF JudgedRight, SettingsOf, _ShouldPrintError, DueIn
  <2>10. DueIn(v, e) => JudgedIn(v, e)
    BY DEF DueIn
  <2>11. QED
    BY <2>2, <2>4, <2>5, <2>6, <2>9, <2>10, Zenon
<1>7. Only(printed, J) = Only(E, D)
  BY <1>4, <1>6, OnlyOfOnly
<1>8. Only(R, J) = Only(F, D)
  BY <1>1, <1>2, ReportedAll DEF LogOf
<1>9. PICK F1 \in Seq(U), R1 \in Seq(U) : F1 = F \o E /\ R1 = R \o printed
  <2>1. F \o E \in Seq(U) /\ R \o printed \in Seq(U)
    BY ConcatProperties
  <2>2. QED
    BY <2>1
<1>10. Only(R1, J) = Only(F1, D)
  <2>1. Only(F \o E, D) = Only(F, D) \o Only(E, D)
    <3>1. \A s, t \in Seq(U) : Only(s \o t, D) = Only(s, D) \o Only(t, D)
      BY OnlyOfAll, ZenonT(30)
    <3>2. QED
      BY ONLY <3>1, F \in Seq(U), E \in Seq(U)
  <2>2. Only(R \o printed, J) = Only(R, J) \o Only(printed, J)
    <3>1. \A s, t \in Seq(U) : Only(s \o t, J) = Only(s, J) \o Only(t, J)
      BY OnlyOfAll, ZenonT(30)
    <3>2. QED
      BY ONLY <3>1, R \in Seq(U), printed \in Seq(U)
  <2>3. QED
    BY <1>7, <1>8, <1>9, <2>1, <2>2
<1>11. ReportedIn(v, F1, R1)
  BY <1>1, <1>10, ReportedAll
<1>12. QED
  BY <1>5, <1>9, <1>11 DEF LogOf

\* The same, whatever the elements.
Right(v, log) == \E U : LogOf(v, U, log)

\* The set of all errors may be taken larger.
LEMMA MoreElements ==
  ASSUME NEW v, NEW U, NEW log, LogOf(v, U, log), NEW W
  PROVE  LogOf(v, U \cup W, log)
<1>1. \A s \in Seq(U) : s \in Seq(U \cup W)
  OBVIOUS
<1>2. QED
  BY <1>1 DEF LogOf

\* Errors that are judged right keep the report right.
LEMMA RightMore ==
  ASSUME NEW v, NEW log, Right(v, log), SettingsOf(v, log.state), NEW sup,
         NEW U, NEW E \in Seq(U), \A e \in U : JudgedRight(v, sup, e)
  PROVE  Right(v, Error(log, sup, E))
<1>1. PICK W : LogOf(v, W, log)
  BY DEF Right
<1>2. LogOf(v, W \cup U, log)
  BY <1>1, MoreElements
<1>3. E \in Seq(W \cup U)
  OBVIOUS
<1>4. \A k \in 1 .. Len(E) : JudgedRight(v, sup, E[k])
  OBVIOUS
<1>5. PICK V : V = W \cup U
  OBVIOUS
<1>6. LogOf(v, V, log) /\ E \in Seq(V)
  BY <1>2, <1>3, <1>5
<1>7. LogOf(v, V, Error(log, sup, E))
  BY <1>4, <1>6, ReportedMore
<1>8. QED
  BY <1>7 DEF Right

------------------------------------------------------------------------------
(* What is silenced now, and what is silenced by the text as a whole. *)

\* If the suppressions are the comments that count and that speak of the error's line.
LEMMA SilenceIs ==
  ASSUME NEW v, NEW sup, NEW e, sup.global = v.global, NEW raw, raw = v.doc.raw_lines,
         \A s \in sup.lines : s[2] = e[1] => /\ s[1] \in Categories
                                             /\ \E k \in DOMAIN raw : /\ Speaks(raw[k], k, e[1]) /\ raw[k].nolint[2] = s[1]
                                                                      /\ ReadIn(v, e, k),
         \A k \in DOMAIN raw : Speaks(raw[k], k, e[1]) /\ raw[k].nolint[2] \in Categories /\ ReadIn(v, e, k)
                                 => <<raw[k].nolint[2], e[1]>> \in sup.lines
  PROVE  IsErrorSuppressedByNolint(sup, e[2], e[1]) <=> SilencedIn(v, e)
<1>1. PICK c, j : c = e[2] /\ j = e[1]
  OBVIOUS
<1>2. ASSUME NEW n, <<n, j>> \in sup.lines
      PROVE  /\ n \in Categories
             /\ \E k \in DOMAIN raw : Speaks(raw[k], k, j) /\ raw[k].nolint[2] = n /\ ReadIn(v, e, k)
  <2>1. PICK s : s = <<n, j>>
    OBVIOUS
  <2>2. s \in sup.lines /\ s[2] = e[1] /\ s[1] = n
    BY <1>1, <1>2, <2>1
  <2>3. QED
    BY <1>1, <2>2
<1>3. SilencedIn(v, e) <=>
        \/ c \in v.global
        \/ \E k \in DOMAIN raw : /\ Speaks(raw[k], k, j) /\ ReadIn(v, e, k)
                                 /\ raw[k].nolint[2] = "*" \/ (raw[k].nolint[2] = c /\ c \in DOMAIN Group)
  BY <1>1 DEF SilencedIn
<1>4. IsErrorSuppressedByNolint(sup, c, j) <=> c \in v.global \/ <<c, j>> \in sup.lines \/ <<"*", j>> \in sup.lines
  BY DEF IsErrorSuppressedByNolint
<1>5. \A n : n \in Categories <=> n = "*" \/ n \in DOMAIN Group
  BY DEF Categories
<1>6. ASSUME <<c, j>> \in sup.lines \/ <<"*", j>> \in sup.lines
      PROVE  SilencedIn(v, e)
  <2>1. CASE <<c, j>> \in sup.lines
    BY <1>2, <1>3, <1>5, <2>1
  <2>2. CASE <<"*", j>> \in sup.lines
    BY <1>2, <1>3, <1>5, <2>2
  <2>3. QED
    BY <1>6, <2>1, <2>2
<1>7. ASSUME NEW k \in DOMAIN raw, Speaks(raw[k], k, j), ReadIn(v, e, k),
             raw[k].nolint[2] = "*" \/ (raw[k].nolint[2] = c /\ c \in DOMAIN Group)
      PROVE  <<c, j>> \in sup.lines \/ <<"*", j>> \in sup.lines
  BY <1>1, <1>5, <1>7
<1>8. QED
  BY <1>1, <1>3, <1>4, <1>6, <1>7

\* What reading the comment of line k, l, makes of the suppressions.
LEMMA ParseIs ==
  ASSUME NEW sup, NEW l, NEW k, NEW now, now = ParseNolintSuppressions(sup, l, k)
  PROVE  \/ /\ l.nolint # << >> /\ l.nolint[2] \in Categories /\ now.errors = << >>
            /\ now.state = [sup EXCEPT !.lines = @ \cup {<<l.nolint[2], SuppressedLine(l.nolint, k)>>}]
         \/ /\ l.nolint = << >> \/ l.nolint[2] \notin Categories
            /\ now.state = sup
            /\ now.errors = << >> \/ (l.nolint # << >> /\ now.errors = <<<<k, "readability/nolint", 5>>>>)
<1>1. CASE l.nolint = << >>
  BY <1>1 DEF ParseNolintSuppressions
<1>2. CASE l.nolint # << >> /\ l.nolint[2] \in Categories
  <2>1. l.nolint[2] = "*" \/ l.nolint[2] \in DOMAIN Group
    BY <1>2 DEF Categories
  <2>2. QED
    BY <1>2, <2>1 DEF ParseNolintSuppressions
<1>3. CASE l.nolint # << >> /\ l.nolint[2] \notin Categories
  <2>1. ~(l.nolint[2] = "*" \/ l.nolint[2] \in DOMAIN Group)
    BY <1>3 DEF Categories
  <2>2. QED
    BY <1>3, <2>1 DEF ParseNolintSuppressions
<1>4. QED
  BY <1>1, <1>2, <1>3

\* The suppressions are the comments of the lines in K that count.
Said(v, sup, K) ==
  /\ sup = [lines |-> sup.lines, global |-> v.global]
  /\ \A s \in sup.lines : \E k \in DOMAIN v.doc.raw_lines :
       k \in K /\ Heeded(v.doc.raw_lines[k]) /\ s = By(v.doc.raw_lines[k], k)
  /\ \A k \in DOMAIN v.doc.raw_lines : k \in K /\ Heeded(v.doc.raw_lines[k]) => By(v.doc.raw_lines[k], k) \in sup.lines

\* The comment of another line is read.
LEMMA SaidMore ==
  ASSUME NEW v, NEW sup, NEW K, Said(v, sup, K), NEW j, NEW l,
         (j \in DOMAIN v.doc.raw_lines /\ l.nolint = v.doc.raw_lines[j].nolint)
           \/ (j \notin DOMAIN v.doc.raw_lines /\ l.nolint = << >>),
         NEW now, now = ParseNolintSuppressions(sup, l, j)
  PROVE  Said(v, now.state, K \cup {j})
<1>1. PICK raw, global, L : raw = v.doc.raw_lines /\ global = v.global /\ L = sup.lines
  OBVIOUS
<1>2. PICK st : st = now.state
  OBVIOUS
<1>3. /\ sup = [lines |-> L, global |-> global]
      /\ \A s \in L : \E k \in DOMAIN raw : k \in K /\ Heeded(raw[k]) /\ s = By(raw[k], k)
      /\ \A k \in DOMAIN raw : k \in K /\ Heeded(raw[k]) => By(raw[k], k) \in L
  BY <1>1 DEF Said
<1>4. \/ l.nolint # << >> /\ l.nolint[2] \in Categories
         /\ st = [sup EXCEPT !.lines = @ \cup {<<l.nolint[2], SuppressedLine(l.nolint, j)>>}]
      \/ (l.nolint = << >> \/ l.nolint[2] \notin Categories) /\ st = sup
  BY <1>2, ParseIs
<1>5. CASE /\ l.nolint # << >> /\ l.nolint[2] \in Categories
           /\ st = [sup EXCEPT !.lines = @ \cup {<<l.nolint[2], SuppressedLine(l.nolint, j)>>}]
  <2>1. j \in DOMAIN raw /\ l.nolint = raw[j].nolint
    BY <1>1, <1>5
  <2>2. PICK e : e = By(raw[j], j)
    OBVIOUS
  <2>3. st = [lines |-> L \cup {e}, global |-> global]
    BY <1>3, <1>5, <2>1, <2>2 DEF By
  <2>4. st.lines = L \cup {e} /\ st = [lines |-> st.lines, global |-> global]
    BY <2>3
  <2>5. Heeded(raw[j])
    BY <1>5, <2>1 DEF Heeded
  <2>6. \A s \in st.lines : \E k \in DOMAIN raw : k \in K \cup {j} /\ Heeded(raw[k]) /\ s = By(raw[k], k)
    BY <1>3, <2>1, <2>2, <2>4, <2>5
  <2>7. \A k \in DOMAIN raw : k \in K \cup {j} /\ Heeded(raw[k]) => By(raw[k], k) \in st.lines
    BY <1>3, <2>2, <2>4
  <2>8. QED
    BY <1>1, <1>2, <2>4, <2>6, <2>7 DEF Said
<1>6. CASE (l.nolint = << >> \/ l.nolint[2] \notin Categories) /\ st = sup
  <2>1. j \in DOMAIN raw => ~Heeded(raw[j])
    BY <1>1, <1>6 DEF Heeded
  <2>2. \A k \in DOMAIN raw : Heeded(raw[k]) => (k \in K \cup {j} <=> k \in K)
    BY <2>1
  <2>3. \A s \in L : \E k \in DOMAIN raw : k \in K \cup {j} /\ Heeded(raw[k]) /\ s = By(raw[k], k)
    BY <1>3
  <2>4. \A k \in DOMAIN raw : k \in K \cup {j} /\ Heeded(raw[k]) => By(raw[k], k) \in L
    BY <1>3, <2>2
  <2>5. st.lines = L /\ st = [lines |-> L, global |-> global]
    BY <1>3, <1>6
  <2>6. QED
    BY <1>1, <1>2, <2>3, <2>4, <2>5 DEF Said
<1>7. QED
  BY <1>4, <1>5, <1>6

\* An error is judged right by the comments that ReadIn lets count.
LEMMA RightAhead ==
  ASSUME NEW v, NEW sup, NEW K, Said(v, sup, K), NEW e,
         \A k \in DOMAIN v.doc.raw_lines : Speaks(v.doc.raw_lines[k], k, e[1]) => (k \in K <=> ReadIn(v, e, k))
  PROVE  JudgedRight(v, sup, e)
<1>1. PICK raw, global, L : raw = v.doc.raw_lines /\ global = v.global /\ L = sup.lines
  OBVIOUS
<1>2. /\ sup = [lines |-> L, global |-> global]
      /\ \A s \in L : \E k \in DOMAIN raw : k \in K /\ Heeded(raw[k]) /\ s = By(raw[k], k)
      /\ \A k \in DOMAIN raw : k \in K /\ Heeded(raw[k]) => By(raw[k], k) \in L
  BY <1>1 DEF Said
<1>3. sup.global = v.global
  BY <1>1, <1>2
<1>4. ASSUME NEW s \in L, s[2] = e[1]
      PROVE  /\ s[1] \in Categories
             /\ \E k \in DOMAIN raw : Speaks(raw[k], k, e[1]) /\ raw[k].nolint[2] = s[1] /\ ReadIn(v, e, k)
  <2>1. PICK k \in DOMAIN raw : k \in K /\ Heeded(raw[k]) /\ s = By(raw[k], k)
    BY <1>2
  <2>2. s[1] = raw[k].nolint[2] /\ s[2] = SuppressedLine(raw[k].nolint, k)
    BY <2>1 DEF By
  <2>3. Speaks(raw[k], k, e[1])
    BY <1>4, <2>1, <2>2 DEF Speaks, SuppressedLine, Heeded
  <2>4. ReadIn(v, e, k)
    BY <1>1, <2>1, <2>3
  <2>5. QED
    BY <2>1, <2>2, <2>3, <2>4 DEF Heeded
<1>5. ASSUME NEW k \in DOMAIN raw, Speaks(raw[k], k, e[1]), raw[k].nolint[2] \in Categories, ReadIn(v, e, k)
      PROVE  <<raw[k].nolint[2], e[1]>> \in L
  <2>1. Heeded(raw[k]) /\ e[1] = SuppressedLine(raw[k].nolint, k)
    BY <1>5 DEF Speaks, SuppressedLine, Heeded
  <2>2. k \in K
    BY <1>1, <1>5
  <2>3. By(raw[k], k) \in L
    BY <1>2, <2>1, <2>2
  <2>4. QED
    BY <2>1, <2>3 DEF By
<1>6. IsErrorSuppressedByNolint(sup, e[2], e[1]) <=> SilencedIn(v, e)
  BY <1>1, <1>3, <1>4, <1>5, SilenceIs
<1>7. QED
  BY <1>6 DEF JudgedRight

\* What a check that looks ahead has come to.
GoodAt(v, was, a, K) == Right(v, a.log) /\ Alike(a.log.state, was) /\ Said(v, a.suppress, K)

\* A state that differs in its counts has the same settings.
LEMMA AlikeSettings ==
  ASSUME NEW v, NEW was, SettingsOf(v, was), NEW st, Alike(st, was)
  PROVE  SettingsOf(v, st)
BY DEF SettingsOf, Alike

\* One error, and one that is judged right.
LEMMA OneRight ==
  ASSUME NEW v, NEW was, SettingsOf(v, was), NEW log, Right(v, log), Alike(log.state, was), NEW sup,
         NEW e, JudgedRight(v, sup, e)
  PROVE  Right(v, Error(log, sup, <<e>>)) /\ Alike(Error(log, sup, <<e>>).state, was)
<1>1. PICK U : U = {e}
  OBVIOUS
<1>2. PICK E : E = <<e>>
  OBVIOUS
<1>3. E \in Seq(U) /\ \A x \in U : JudgedRight(v, sup, x)
  BY <1>1, <1>2
<1>4. SettingsOf(v, log.state)
  <2>1. PICK st : st = log.state
    OBVIOUS
  <2>2. SettingsOf(v, st)
    BY <2>1, AlikeSettings
  <2>3. QED
    BY <2>1, <2>2
<1>5. Right(v, Error(log, sup, E))
  BY <1>3, <1>4, RightMore
<1>6. Alike(Error(log, sup, E).state, was)
  BY ErrorKeeps
<1>7. QED
  BY <1>2, <1>5, <1>6

\* No error at all.
LEMMA NoneRight ==
  ASSUME NEW v, NEW was, SettingsOf(v, was), NEW log, Right(v, log), Alike(log.state, was), NEW sup
  PROVE  Right(v, Error(log, sup, << >>)) /\ Alike(Error(log, sup, << >>).state, was)
<1>1. PICK U, E : U = {} /\ E = << >>
  OBVIOUS
<1>2. E \in Seq(U) /\ \A x \in U : JudgedRight(v, sup, x)
  BY <1>1
<1>3. SettingsOf(v, log.state)
  <2>1. PICK st : st = log.state
    OBVIOUS
  <2>2. SettingsOf(v, st)
    BY <2>1, AlikeSettings
  <2>3. QED
    BY <2>1, <2>2
<1>4. Right(v, Error(log, sup, E))
  BY <1>2, <1>3, RightMore
<1>5. Alike(Error(log, sup, E).state, was)
  BY ErrorKeeps
<1>6. QED
  BY <1>1, <1>4, <1>5

\* A check that looks ahead reads the comment of a line: of one ahead, or of one
\* whose errors can be judged by then.
LEMMA ParseRight ==
  ASSUME NEW v, NEW N \in Nat, DOMAIN v.doc.raw_lines = 1 .. N,
         NEW was, SettingsOf(v, was), NEW a, NEW K, GoodAt(v, was, a, K), NEW lines,
         NEW j \in 0 .. N, j # 0 => lines[j].nolint = v.doc.raw_lines[j].nolint,
         j # 0 => \/ ReadAheadIn(v, j)
                  \/ \A k \in DOMAIN v.doc.raw_lines : Speaks(v.doc.raw_lines[k], k, j) => k \in K \cup {j}
  PROVE  GoodAt(v, was, AheadStep(a, <<"parse", j>>, lines), K \cup {j})
<1>1. PICK l : l = IF j = 0 THEN Plain ELSE lines[j]
  OBVIOUS
<1>2. PICK sup, log : sup = a.suppress /\ log = a.log
  OBVIOUS
<1>3. PICK now : now = ParseNolintSuppressions(sup, l, j)
  OBVIOUS
<1>4. Said(v, now.state, K \cup {j})
  <2>1. \/ j \in DOMAIN v.doc.raw_lines /\ l.nolint = v.doc.raw_lines[j].nolint
        \/ j \notin DOMAIN v.doc.raw_lines /\ l.nolint = << >>
    <3>1. CASE j = 0
      <4>1. l.nolint = << >>
        BY <1>1, <3>1 DEF Plain
      <4>2. QED
        BY <3>1, <4>1
    <3>2. CASE j # 0
      BY <1>1, <3>2
    <3>3. QED
      BY <3>1, <3>2
  <2>2. Said(v, sup, K)
    BY <1>2 DEF GoodAt
  <2>3. QED
    BY <1>3, <2>1, <2>2, SaidMore
<1>5. Right(v, log) /\ Alike(log.state, was)
  BY <1>2 DEF GoodAt
<1>6. Right(v, Error(log, now.state, now.errors)) /\ Alike(Error(log, now.state, now.errors).state, was)
  <2>1. now.errors = << >> \/ (l.nolint # << >> /\ now.errors = <<<<j, "readability/nolint", 5>>>>)
    <3>1. PICK x, y : \/ now = [state |-> x, errors |-> << >>]
                      \/ l.nolint # << >> /\ now = [state |-> y, errors |-> <<<<j, "readability/nolint", 5>>>>]
      BY <1>3, Zenon DEF ParseNolintSuppressions
    <3>2. QED
      BY <3>1
  <2>2. CASE now.errors = << >>
    BY <1>5, <2>2, NoneRight
  <2>3. CASE l.nolint # << >> /\ now.errors = <<<<j, "readability/nolint", 5>>>>
    <3>1. PICK e : e = <<j, "readability/nolint", 5>>
      OBVIOUS
    <3>2. e[1] = j /\ e[2] = "readability/nolint"
      BY <3>1
    <3>3. j # 0
      BY <1>1, <2>3 DEF Plain
    <3>4. JudgedRight(v, now.state, e)
      <4>1. CASE ReadAheadIn(v, j)
        <5>1. ~JudgedIn(v, e)
          BY <3>2, <4>1 DEF JudgedIn
        <5>2. QED
          BY <5>1 DEF JudgedRight
      <4>2. CASE \A k \in DOMAIN v.doc.raw_lines : Speaks(v.doc.raw_lines[k], k, j) => k \in K \cup {j}
        <5>1. \A k : ReadIn(v, e, k)
          BY <3>2 DEF ReadIn, EmptyBodies
        <5>2. PICK J, st : J = K \cup {j} /\ st = now.state
          OBVIOUS
        <5>3. \A k \in DOMAIN v.doc.raw_lines : Speaks(v.doc.raw_lines[k], k, e[1]) => (k \in J <=> ReadIn(v, e, k))
          BY <3>2, <4>2, <5>1, <5>2
        <5>4. JudgedRight(v, st, e)
          BY <1>4, <5>2, <5>3, RightAhead
        <5>5. QED
          BY <5>2, <5>4
      <4>3. QED
        BY <3>3, <4>1, <4>2
    <3>5. now.errors = <<e>>
      BY <2>3, <3>1
    <3>6. QED
      BY <1>5, <3>4, <3>5, OneRight
  <2>4. QED
    BY <2>1, <2>2, <2>3
<1>7. PICK s, b : s = <<"parse", j>> /\ b = AheadStep(a, s, lines)
  OBVIOUS
<1>8. s[1] = "parse" /\ s[2] = j
  BY <1>7
<1>9. b = [log |-> Error(log, now.state, now.errors), suppress |-> now.state]
  BY <1>1, <1>2, <1>3, <1>7, <1>8, Zenon DEF AheadStep
<1>10. b.log = Error(log, now.state, now.errors) /\ b.suppress = now.state
  BY <1>9
<1>11. GoodAt(v, was, b, K \cup {j})
  BY <1>4, <1>6, <1>10 DEF GoodAt
<1>12. QED
  BY <1>7, <1>11

\* It reports an error that the comments read until then silence or do not.
LEMMA BlameRight ==
  ASSUME NEW v, NEW was, SettingsOf(v, was), NEW a, NEW K, GoodAt(v, was, a, K), NEW lines, NEW e,
         \A k \in DOMAIN v.doc.raw_lines : Speaks(v.doc.raw_lines[k], k, e[1]) => (k \in K <=> ReadIn(v, e, k))
  PROVE  GoodAt(v, was, AheadStep(a, <<"error", e>>, lines), K)
<1>1. PICK sup, log : sup = a.suppress /\ log = a.log
  OBVIOUS
<1>2. Right(v, log) /\ Alike(log.state, was) /\ Said(v, sup, K)
  BY <1>1 DEF GoodAt
<1>3. JudgedRight(v, sup, e)
  BY <1>2, RightAhead
<1>4. Right(v, Error(log, sup, <<e>>)) /\ Alike(Error(log, sup, <<e>>).state, was)
  BY <1>2, <1>3, OneRight
<1>5. PICK s, b : s = <<"error", e>> /\ b = AheadStep(a, s, lines)
  OBVIOUS
<1>6. s[1] # "parse" /\ s[2] = e
  BY <1>5
<1>7. b = [log |-> Error(log, sup, <<e>>), suppress |-> sup]
  BY <1>1, <1>5, <1>6, Zenon DEF AheadStep
<1>8. b.log = Error(log, sup, <<e>>) /\ b.suppress = sup
  BY <1>7
<1>9. GoodAt(v, was, b, K)
  BY <1>2, <1>4, <1>8 DEF GoodAt
<1>10. QED
  BY <1>5, <1>9

\* The comments up to line n are in force, and of the others some that are read ahead.
Upto(v, K, n) ==
  /\ \A k \in DOMAIN v.doc.raw_lines : k <= n => k \in K
  /\ \A k \in DOMAIN v.doc.raw_lines : k \in K => k <= n \/ ReadAheadIn(v, k)
Known(v, sup, n) == \E K : Said(v, sup, K) /\ Upto(v, K, n)

\* The comment of one more line becomes known when it is read.
LEMMA OneMoreComment ==
  ASSUME NEW v, NEW N \in Nat, DOMAIN v.doc.raw_lines = 1 .. N, NEW n \in 1 .. N, NEW sup, Known(v, sup, n - 1),
         NEW now, now = ParseNolintSuppressions(sup, v.doc.raw_lines[n], n).state
  PROVE  Known(v, now, n)
<1>1. PICK l, parsed : l = v.doc.raw_lines[n] /\ parsed = ParseNolintSuppressions(sup, l, n)
  OBVIOUS
<1>2. PICK K : Said(v, sup, K) /\ Upto(v, K, n - 1)
  BY DEF Known
<1>3. n \in DOMAIN v.doc.raw_lines /\ l.nolint = v.doc.raw_lines[n].nolint
  BY <1>1
<1>4. Said(v, parsed.state, K \cup {n})
  BY <1>1, <1>2, <1>3, SaidMore
<1>5. now = parsed.state
  BY <1>1
<1>6. Upto(v, K \cup {n}, n)
  <2>1. \A k \in 1 .. N : k <= n <=> k <= n - 1 \/ k = n
    OBVIOUS
  <2>2. QED
    BY <1>2, <2>1 DEF Upto
<1>7. QED
  BY <1>4, <1>5, <1>6 DEF Known

\* The categories that only the check of the header guard and that of empty bodies
\* report, and those that only these and the checks of an #include and of the
\* includes report.
GuardsOwn ==
  {"build/header_guard", "whitespace/empty_conditional_body", "whitespace/empty_loop_body", "whitespace/empty_if_body"}
Reserved == GuardsOwn \cup {"build/include", "build/include_order"}

\* No line after the nth is j, or has j next.
Behind(j, n, N) == \A k \in n + 1 .. N : j # k /\ j # k + 1

\* Once the comments that can speak of its line are read, an error is judged right.
LEMMA RightInLines ==
  ASSUME NEW v, NEW N \in Nat, DOMAIN v.doc.raw_lines = 1 .. N, NEW n \in 0 .. N, NEW sup, Known(v, sup, n),
         NEW e, e[2] \notin GuardsOwn, Behind(e[1], n, N)
  PROVE  JudgedRight(v, sup, e)
<1>1. PICK K : Said(v, sup, K) /\ Upto(v, K, n)
  BY DEF Known
<1>2. \A k : ReadIn(v, e, k)
  BY DEF ReadIn, GuardsOwn, EmptyBodies
<1>3. ASSUME NEW k \in DOMAIN v.doc.raw_lines, Speaks(v.doc.raw_lines[k], k, e[1])
      PROVE  k \in K
  <2>1. k \in 1 .. N /\ (e[1] = k \/ e[1] = k + 1)
    BY <1>3 DEF Speaks
  <2>2. k \notin n + 1 .. N
    BY <2>1 DEF Behind
  <2>3. k <= n
    BY <2>1, <2>2
  <2>4. QED
    BY <1>1, <2>3 DEF Upto
<1>4. \A k \in DOMAIN v.doc.raw_lines : Speaks(v.doc.raw_lines[k], k, e[1]) => (k \in K <=> ReadIn(v, e, k))
  BY <1>2, <1>3
<1>5. QED
  BY <1>1, <1>4, RightAhead

------------------------------------------------------------------------------
(* Lists of errors, none of the categories C, of lines up to the nth. *)

OfLines(E, n, N, C) == \E U : E \in Seq(U) /\ \A e \in U : e[2] \notin C /\ Behind(e[1], n, N)

\* A line number up to n.
LEMMA BehindIt ==
  ASSUME NEW n \in Nat, NEW N \in Nat, NEW j \in Int, j <= n
  PROVE  Behind(j, n, N)
BY DEF Behind

\* The empty list, and a list of one error.
LEMMA NoErrors ==
  ASSUME NEW C, NEW n, NEW N
  PROVE  OfLines(<< >>, n, N, C)
<1>1. PICK U : U = {}
  OBVIOUS
<1>2. << >> \in Seq(U) /\ \A e \in U : e[2] \notin C /\ Behind(e[1], n, N)
  BY <1>1
<1>3. QED
  BY <1>2, Zenon DEF OfLines

\* A single error of one of the lines.
LEMMA OneError ==
  ASSUME NEW C, NEW n, NEW N, NEW j, NEW category, NEW c, Behind(j, n, N), category \notin C
  PROVE  OfLines(<<<<j, category, c>>>>, n, N, C)
<1>1. PICK e : e = <<j, category, c>>
  OBVIOUS
<1>2. e[1] = j /\ e[2] = category
  BY <1>1
<1>3. PICK U : U = {e}
  OBVIOUS
<1>4. <<e>> \in Seq(U) /\ \A x \in U : x[2] \notin C /\ Behind(x[1], n, N)
  BY <1>2, <1>3
<1>5. OfLines(<<e>>, n, N, C)
  BY <1>4, Zenon DEF OfLines
<1>6. QED
  BY <1>1, <1>5

\* Two lists.
LEMMA BothErrors ==
  ASSUME NEW C, NEW n, NEW N, NEW E, NEW F, OfLines(E, n, N, C), OfLines(F, n, N, C)
  PROVE  OfLines(E \o F, n, N, C)
<1>1. PICK U : E \in Seq(U) /\ \A e \in U : e[2] \notin C /\ Behind(e[1], n, N)
  BY DEF OfLines
<1>2. PICK W : F \in Seq(W) /\ \A e \in W : e[2] \notin C /\ Behind(e[1], n, N)
  BY DEF OfLines
<1>3. PICK V : V = U \cup W
  OBVIOUS
<1>4. E \in Seq(V) /\ F \in Seq(V)
  BY <1>1, <1>2, <1>3
<1>5. E \o F \in Seq(V)
  BY <1>4, ConcatProperties
<1>6. \A e \in V : e[2] \notin C /\ Behind(e[1], n, N)
  BY <1>1, <1>2, <1>3
<1>7. QED
  BY <1>5, <1>6 DEF OfLines

\* A sequence over its own elements.
LEMMA OwnElements ==
  ASSUME NEW U, NEW s \in Seq(U)
  PROVE  s \in Seq(ToSet(s)) /\ ToSet(s) \subseteq U
<1>1. PICK n \in Nat : n = Len(s) /\ DOMAIN s = 1 .. n /\ s = [k \in 1 .. n |-> s[k]]
  OBVIOUS
<1>2. \A k \in 1 .. n : s[k] \in ToSet(s) /\ s[k] \in U
  BY <1>1 DEF ToSet
<1>3. s \in [1 .. n -> ToSet(s)]
  BY <1>1, <1>2, Zenon
<1>4. s \in Seq(ToSet(s))
  BY <1>3
<1>5. ToSet(s) \subseteq U
  BY <1>1, <1>2 DEF ToSet
<1>6. QED
  BY <1>4, <1>5

\* As many lists as one likes.
LEMMA AllErrors ==
  ASSUME NEW C, NEW n, NEW N, NEW m \in Nat, NEW s, s = [k \in 1 .. m |-> s[k]], \A k \in 1 .. m : OfLines(s[k], n, N, C)
  PROVE  OfLines(FlattenSeq(s), n, N, C)
<1> DEFINE V == UNION {ToSet(s[k]) : k \in 1 .. m}
<1>1. ASSUME NEW k \in 1 .. m
      PROVE  s[k] \in Seq(V) /\ \A e \in ToSet(s[k]) : e[2] \notin C /\ Behind(e[1], n, N)
  <2>1. PICK U : s[k] \in Seq(U) /\ \A e \in U : e[2] \notin C /\ Behind(e[1], n, N)
    BY DEF OfLines
  <2>2. PICK t \in Seq(U) : t = s[k]
    BY <2>1
  <2>3. t \in Seq(ToSet(t)) /\ ToSet(t) \subseteq U
    BY OwnElements
  <2>4. ToSet(s[k]) \subseteq V
    OBVIOUS
  <2> HIDE DEF V
  <2>5. s[k] \in Seq(V)
    <3>1. PICK W : W = ToSet(t)
      OBVIOUS
    <3>2. t \in Seq(W) /\ W \subseteq V
      BY <2>2, <2>3, <2>4, <3>1
    <3>3. t \in Seq(V)
      BY <3>2
    <3>4. QED
      BY <2>2, <3>3
  <2>6. QED
    BY <2>1, <2>2, <2>3, <2>5
<1>2. \A e \in V : e[2] \notin C /\ Behind(e[1], n, N)
  <2>1. ASSUME NEW e \in V
        PROVE  \E k \in 1 .. m : e \in ToSet(s[k])
    OBVIOUS
  <2>2. QED
    BY <1>1, <2>1
<1> HIDE DEF V
<1>3. s \in [1 .. m -> Seq(V)]
  BY <1>1, Zenon
<1>4. s \in Seq(Seq(V)) /\ Len(s) = m
  BY <1>3
<1>5. PICK h : Flattens(h, V, s, m)
  BY <1>4, FlattenDef
<1>6. m \in 0 .. m
  OBVIOUS
<1>7. FlattenSeq(s) \in Seq(V)
  BY <1>5, <1>6, Zenon DEF Flattens
<1>8. QED
  BY <1>2, <1>7 DEF OfLines

\* The elements of a finite set in a row.
LEMMA InARow ==
  ASSUME NEW S, IsFiniteSet(S)
  PROVE  SetToSeq(S) \in Seq(S)
<1>1. PICK n \in Nat : n = Cardinality(S) /\ ExistsBijection(1 .. n, S)
  BY FS_CardinalityType
<1>2. PICK f : f \in Bijection(1 .. n, S)
  BY <1>1 DEF ExistsBijection
<1>3. f \in [1 .. n -> S] /\ \A a, b \in DOMAIN f : f[a] = f[b] => a = b
  BY <1>2, Zenon DEF Bijection, Injection, IsInjective
<1>4. PICK g : g = SetToSeq(S)
  OBVIOUS
<1>5. g = CHOOSE h \in [1 .. n -> S] : IsInjective(h)
  BY <1>1, <1>4, Zenon DEF SetToSeq
<1>6. IsInjective(f)
  BY <1>3, Zenon DEF IsInjective
<1>7. g \in [1 .. n -> S]
  BY <1>3, <1>5, <1>6, Zenon
<1>8. g \in Seq(S)
  BY <1>7
<1>9. QED
  BY <1>4, <1>8

\* A finite set of errors of the lines, in whatever order.
LEMMA SetOfErrors ==
  ASSUME NEW C, NEW n, NEW N, NEW S, IsFiniteSet(S), \A e \in S : e[2] \notin C /\ Behind(e[1], n, N)
  PROVE  OfLines(SetToSeq(S), n, N, C)
BY InARow DEF OfLines

\* Without more categories, without fewer.
LEMMA FewerReserved ==
  ASSUME NEW n, NEW N, NEW E, OfLines(E, n, N, Reserved)
  PROVE  OfLines(E, n, N, GuardsOwn)
<1>1. PICK U : E \in Seq(U) /\ \A e \in U : e[2] \notin Reserved /\ Behind(e[1], n, N)
  BY DEF OfLines
<1>2. \A e \in U : e[2] \notin GuardsOwn /\ Behind(e[1], n, N)
  BY <1>1 DEF Reserved, GuardsOwn
<1>3. QED
  BY <1>1, <1>2 DEF OfLines

------------------------------------------------------------------------------
(* A line of the text as the checks see it. *)

IsSeq(s) == \E U : s \in Seq(U)
LineOK(l) ==
  /\ IsSeq(l.toks) /\ IsFiniteSet(l.uses) /\ IsFiniteSet(l.found)
  /\ \A e \in l.found : e[1] \notin Reserved

\* What is left of a line when other tokens stand in it.
LEMMA OtherTokens ==
  ASSUME NEW l, DOMAIN l = DOMAIN Plain, NEW toks, IsSeq(toks), LineOK(l), NEW e, e = [l EXCEPT !.toks = toks]
  PROVE  LineOK(e) /\ e.nolint = l.nolint
<1>1. {"toks", "uses", "found", "nolint"} \subseteq DOMAIN l
  BY DEF Plain
<1>2. e.toks = toks /\ e.uses = l.uses /\ e.found = l.found /\ e.nolint = l.nolint
  BY <1>1
<1>3. QED
  BY <1>2 DEF LineOK

\* A line as CleansedLines leaves it: its tokens are sequences, and a directive keeps its comment.
LEMMA ElidedLine ==
  ASSUME NEW lines \in Seq({Line[n] : n \in DOMAIN Line}), NEW doc0,
         doc0 = CleansedLines(RemoveMultiLineComments(lines).lines), NEW k \in DOMAIN doc0.elided
  PROVE  /\ LineOK(doc0.elided[k])
         /\ doc0.elided[k].dir # "" => doc0.elided[k].nolint = doc0.raw_lines[k].nolint
<1>1. PICK raw : raw = RemoveMultiLineComments(lines).lines
  OBVIOUS
<1>2. DOMAIN raw = 1 .. Len(lines) /\ k \in 1 .. Len(lines)
  <2>1. DOMAIN raw = 1 .. Len(lines)
    <3>1. PICK comments : raw = [k2 \in DOMAIN lines |-> IF k2 \in comments THEN Comment ELSE lines[k2]]
      BY <1>1, Zenon DEF RemoveMultiLineComments
    <3>2. DOMAIN raw = DOMAIN lines
      BY <3>1
    <3>3. QED
      BY <3>2
  <2>2. NumLines(doc0) = Len(lines) /\ DOMAIN doc0.elided = 1 .. NumLines(doc0)
    BY DocFacts
  <2>3. QED
    BY <2>1, <2>2
<1>3. PICK l : l = raw[k]
  OBVIOUS
<1>4. PICK comments : raw = [j \in DOMAIN lines |-> IF j \in comments THEN Comment ELSE lines[j]]
  BY <1>1 DEF RemoveMultiLineComments
<1>5. l = Comment \/ l \in {Line[n] : n \in DOMAIN Line}
  BY <1>2, <1>3, <1>4
<1>6. DOMAIN l = DOMAIN Plain /\ LineOK(l) /\ l.toks \in Seq(STRING) /\ l.tail \in Seq(STRING)
  <2>1. CASE l = Comment
    <3>1. DOMAIN Comment = DOMAIN Plain
      BY DEF Comment, Plain
    <3>2. Comment.toks = << >> /\ Comment.tail = << >> /\ Comment.uses = {} /\ Comment.found = {}
      BY DEF Comment, Plain
    <3>3. IsFiniteSet({}) /\ << >> \in Seq(STRING)
      BY FS_EmptySet
    <3>4. QED
      BY <2>1, <3>1, <3>2, <3>3 DEF LineOK, IsSeq
  <2>2. CASE l \in {Line[n] : n \in DOMAIN Line}
    <3>1. PICK n \in DOMAIN Line : l = Line[n]
      BY <2>2
    <3>2. QED
      BY <3>1, LineAssumption, Zenon DEF LineOK, IsSeq, Reserved, GuardsOwn, EmptyBodies
  <2>3. QED
    BY <1>5, <2>1, <2>2
<1>7. PICK e : e = doc0.elided[k]
  OBVIOUS
<1>8. e = CleanseRawStrings(raw)[k] /\ l = doc0.raw_lines[k]
  BY <1>1, <1>3, <1>7 DEF CleansedLines
<1>9. \/ e = InRawString \/ e = l
      \/ e = [l EXCEPT !.toks = <<"str">> \o l.tail] \/ e = [l EXCEPT !.toks = l.toks \o <<"str">>]
  <2>1. PICK inside : CleanseRawStrings(raw) =
                        [j \in DOMAIN raw |-> IF inside[j - 1] /\ inside[j] THEN InRawString
                                              ELSE IF inside[j - 1] THEN [raw[j] EXCEPT !.toks = <<"str">> \o raw[j].tail]
                                              ELSE IF inside[j] THEN [raw[j] EXCEPT !.toks = @ \o <<"str">>]
                                              ELSE raw[j]]
    BY Zenon DEF CleanseRawStrings
  <2>2. e = IF inside[k - 1] /\ inside[k] THEN InRawString
            ELSE IF inside[k - 1] THEN [l EXCEPT !.toks = <<"str">> \o l.tail]
            ELSE IF inside[k] THEN [l EXCEPT !.toks = l.toks \o <<"str">>]
            ELSE l
    BY <1>2, <1>3, <1>8, <2>1
  <2>3. QED
    BY <2>2, Zenon
<1>10. PICK U : U = STRING \cup {"str"}
  OBVIOUS
<1>15. <<"str">> \in Seq(U)
  BY <1>10, OneElement
<1>11. CASE e = InRawString
  <2>1. e.toks = <<"str">> /\ e.uses = {} /\ e.found = {} /\ e.dir = ""
    BY <1>11 DEF InRawString, Plain
  <2>2. LineOK(e)
    BY <1>15, <2>1, FS_EmptySet DEF LineOK, IsSeq
  <2>3. QED
    BY <1>7, <2>1, <2>2
<1>12. CASE e = l
  BY <1>6, <1>7, <1>8, <1>12
<1>13. CASE e = [l EXCEPT !.toks = <<"str">> \o l.tail] \/ e = [l EXCEPT !.toks = l.toks \o <<"str">>]
  <2>1. PICK str \in Seq(U) : str = <<"str">>
    BY <1>15
  <2>2. l.toks \in Seq(U) /\ l.tail \in Seq(U)
    BY <1>6, <1>10
  <2>3. str \o l.tail \in Seq(U) /\ l.toks \o str \in Seq(U)
    BY <2>2, ConcatProperties
  <2>4. PICK toks \in Seq(U) : e = [l EXCEPT !.toks = toks]
    BY <1>13, <2>1, <2>3
  <2>6. IsSeq(toks)
    BY DEF IsSeq
  <2>7. LineOK(e) /\ e.nolint = l.nolint
    BY <1>6, <2>4, <2>6, OtherTokens
  <2>8. QED
    BY <1>7, <1>8, <2>7
<1>14. QED
  BY <1>9, <1>11, <1>12, <1>13

------------------------------------------------------------------------------
(* What the checks of a line blame it for. *)

\* One error more.
LEMMA ErrorMore ==
  ASSUME NEW C, NEW n, NEW N, NEW E, OfLines(E, n, N, C), NEW j, NEW category, NEW c, Behind(j, n, N),
         category \notin C
  PROVE  OfLines(Append(E, <<j, category, c>>), n, N, C)
<1>1. PICK e : e = <<j, category, c>>
  OBVIOUS
<1>2. e[1] = j /\ e[2] = category
  BY <1>1
<1>3. PICK U : E \in Seq(U) /\ \A x \in U : x[2] \notin C /\ Behind(x[1], n, N)
  BY DEF OfLines
<1>4. PICK W : W = U \cup {e}
  OBVIOUS
<1>5. E \in Seq(W) /\ e \in W
  BY <1>3, <1>4
<1>6. Append(E, e) \in Seq(W)
  BY <1>5
<1>7. \A x \in W : x[2] \notin C /\ Behind(x[1], n, N)
  BY <1>2, <1>3, <1>4
<1>8. OfLines(Append(E, e), n, N, C)
  BY <1>6, <1>7, Zenon DEF OfLines
<1>9. QED
  BY <1>1, <1>8

\* The errors of a line belong to it or to a line before, check by check.
LEMMA IndentationErrors ==
  ASSUME NEW N \in Nat, NEW n \in 1 .. N, NEW ns, NEW d
  PROVE  OfLines(CheckForNamespaceIndentation(ns, d, n), n, N, Reserved)
<1>1. PICK E : E = CheckForNamespaceIndentation(ns, d, n)
  OBVIOUS
<1>2. E = << >> \/ E = <<<<n, "runtime/indentation_namespace", 4>>>>
  BY <1>1, Zenon DEF CheckForNamespaceIndentation
<1>3. Behind(n, n, N)
  BY BehindIt
<1>4. OfLines(<< >>, n, N, Reserved) /\ OfLines(<<<<n, "runtime/indentation_namespace", 4>>>>, n, N, Reserved)
  BY <1>3, NoErrors, OneError DEF Reserved, GuardsOwn
<1>5. QED
  BY <1>1, <1>2, <1>4

\* Those of CheckForFunctionLengths.
LEMMA FunctionErrors ==
  ASSUME NEW N \in Nat, NEW n \in 1 .. N, NEW fn, NEW d, NEW verbose
  PROVE  OfLines(CheckForFunctionLengths(fn, d, n, verbose).errors, n, N, Reserved)
<1>1. PICK E : E = CheckForFunctionLengths(fn, d, n, verbose).errors
  OBVIOUS
<1>2. PICK F, c : F = FunctionCheck(fn, verbose, n) /\ (F = << >> \/ F = <<<<n, "readability/fn_size", c>>>>)
  <2>1. PICK F : F = FunctionCheck(fn, verbose, n)
    OBVIOUS
  <2>2. \E c : F = << >> \/ F = <<<<n, "readability/fn_size", c>>>>
    BY <2>1, Zenon DEF FunctionCheck
  <2>3. QED
    BY <2>1, <2>2
<1>3. E = << >> \/ E = <<<<n, "readability/fn_size", 5>>>> \/ E = F
  <2>1. PICK x, y, z : \/ E = [state |-> x, errors |-> << >>].errors
                       \/ E = [state |-> y, errors |-> <<<<n, "readability/fn_size", 5>>>>].errors
                       \/ E = [state |-> z, errors |-> F].errors
    <3>1. PICK r : r = CheckForFunctionLengths(fn, d, n, verbose)
      OBVIOUS
    <3>2. PICK x, y, z, body : \/ r = [state |-> x, errors |-> IF body = 0 THEN <<<<n, "readability/fn_size", 5>>>> ELSE << >>]
                               \/ r = [state |-> y, errors |-> F]
                               \/ r = [state |-> z, errors |-> << >>]
      BY <1>2, <3>1, Zenon DEF CheckForFunctionLengths
    <3>3. QED
      BY <1>1, <3>1, <3>2
  <2>2. QED
    BY <2>1
<1>4. Behind(n, n, N)
  BY BehindIt
<1>5. /\ OfLines(<< >>, n, N, Reserved) /\ OfLines(<<<<n, "readability/fn_size", 5>>>>, n, N, Reserved)
      /\ OfLines(<<<<n, "readability/fn_size", c>>>>, n, N, Reserved)
  BY <1>4, NoErrors, OneError DEF Reserved, GuardsOwn
<1>6. QED
  BY <1>1, <1>2, <1>3, <1>5, Zenon

\* Those of CheckStyle.
LEMMA StyleErrors ==
  ASSUME NEW N \in Nat, NEW n \in 1 .. N, NEW ns, NEW d, NEW length
  PROVE  OfLines(CheckStyle(ns, d, n, length), n, N, Reserved)
<1>1. PICK E, F : /\ F = CheckSectionSpacing(ns, d, n) /\ CheckStyle(ns, d, n, length) = E \o F
                  /\ E = << >> \/ E = <<<<n, "whitespace/line_length", 2>>>>
  <2>1. PICK E : E = IF d.elided[n].dir # "include" /\ d.elided[n].width > length
                     THEN <<<<n, "whitespace/line_length", 2>>>> ELSE << >>
    OBVIOUS
  <2>2. CheckStyle(ns, d, n, length) = E \o CheckSectionSpacing(ns, d, n)
    BY <2>1, Zenon DEF CheckStyle
  <2>3. QED
    BY <2>1, <2>2
<1>2. F = << >> \/ F = <<<<n, "whitespace/blank_line", 3>>>>
  BY <1>1, Zenon DEF CheckSectionSpacing
<1>3. Behind(n, n, N)
  BY BehindIt
<1>4. /\ OfLines(<< >>, n, N, Reserved) /\ OfLines(<<<<n, "whitespace/line_length", 2>>>>, n, N, Reserved)
      /\ OfLines(<<<<n, "whitespace/blank_line", 3>>>>, n, N, Reserved)
  BY <1>3, NoErrors, OneError DEF Reserved, GuardsOwn
<1>5. OfLines(E, n, N, Reserved) /\ OfLines(F, n, N, Reserved)
  BY <1>1, <1>2, <1>4
<1>6. QED
  BY <1>1, <1>5, BothErrors

\* Those of UpdateIncludes.
LEMMA IncludeErrors ==
  ASSUME NEW N \in Nat, NEW n \in 1 .. N, NEW s, NEW f, NEW d, NEW nonh, NEW hs
  PROVE  OfLines(UpdateIncludes(s, f, d, n, nonh, hs).errors, n, N, GuardsOwn)
<1>1. PICK E : E = UpdateIncludes(s, f, d, n, nonh, hs).errors
  OBVIOUS
<1>2. Behind(n, n, N)
  BY BehindIt
<1>3. CASE d.elided[n].dir = "include"
  <2>1. PICK r : r = CheckIncludeLine(s, f, d, n, nonh, hs)
    OBVIOUS
  <2>2. E = r.errors
    BY <1>1, <1>3, <2>1 DEF UpdateIncludes
  <2>3. PICK bare, late, alpha, x, y, z :
           /\ bare = << >> \/ bare = <<<<n, "build/include_subdir", 4>>>>
           /\ late = << >> \/ late = <<<<n, "build/include_order", 4>>>>
           /\ alpha = << >> \/ alpha = <<<<n, "build/include_alpha", 4>>>>
           /\ \/ r = [state |-> x, errors |-> Append(bare, <<n, "build/include", 4>>)]
              \/ r = [state |-> y, errors |-> bare]
              \/ r = [state |-> z, errors |-> bare \o late \o alpha]
    <3> DEFINE l == d.elided[n]
               h == Header[l.inc]
               order == CheckNextIncludeOrder(s, _ClassifyInclude(f, h, l.sys))
               bare0 == IF ~l.sys /\ h.dir = "" /\ h.ext = "h" /\ ~h.third THEN <<<<n, "build/include_subdir", 4>>>> ELSE << >>
               late0 == IF order.late THEN <<<<n, "build/include_order", 4>>>> ELSE << >>
               alpha0 == IF IsInAlphabeticalOrder(order.state, d, n, h) THEN << >> ELSE <<<<n, "build/include_alpha", 4>>>>
    <3>1. \E x, y, z : \/ r = [state |-> x, errors |-> Append(bare0, <<n, "build/include", 4>>)]
                       \/ r = [state |-> y, errors |-> bare0]
                       \/ r = [state |-> z, errors |-> bare0 \o late0 \o alpha0]
      BY <2>1, Zenon DEF CheckIncludeLine
    <3>2. /\ bare0 = << >> \/ bare0 = <<<<n, "build/include_subdir", 4>>>>
          /\ late0 = << >> \/ late0 = <<<<n, "build/include_order", 4>>>>
          /\ alpha0 = << >> \/ alpha0 = <<<<n, "build/include_alpha", 4>>>>
      BY Zenon
    <3> HIDE DEF l, h, order, bare0, late0, alpha0
    <3>3. QED
      BY <3>1, <3>2, Zenon
  <2>4. OfLines(bare, n, N, GuardsOwn) /\ OfLines(late, n, N, GuardsOwn) /\ OfLines(alpha, n, N, GuardsOwn)
    <3>1. /\ OfLines(<< >>, n, N, GuardsOwn) /\ OfLines(<<<<n, "build/include_subdir", 4>>>>, n, N, GuardsOwn)
          /\ OfLines(<<<<n, "build/include_order", 4>>>>, n, N, GuardsOwn) /\ OfLines(<<<<n, "build/include_alpha", 4>>>>, n, N, GuardsOwn)
      BY <1>2, NoErrors, OneError DEF GuardsOwn
    <3>2. QED
      BY <2>3, <3>1, Zenon
  <2>5. OfLines(Append(bare, <<n, "build/include", 4>>), n, N, GuardsOwn)
    BY <1>2, <2>4, ErrorMore DEF GuardsOwn
  <2>6. OfLines(bare \o late \o alpha, n, N, GuardsOwn)
    BY <2>4, BothErrors
  <2>7. E = Append(bare, <<n, "build/include", 4>>) \/ E = bare \/ E = bare \o late \o alpha
    <3>1. PICK a, b : a = Append(bare, <<n, "build/include", 4>>) /\ b = bare \o late \o alpha
      OBVIOUS
    <3>2. E = a \/ E = bare \/ E = b
      BY <2>2, <2>3, <3>1
    <3>3. QED
      BY <3>1, <3>2
  <2>8. QED
    BY <1>1, <2>4, <2>5, <2>6, <2>7
<1>4. CASE d.elided[n].dir # "include"
  <2>1. PICK t : UpdateIncludes(s, f, d, n, nonh, hs) = [state |-> t, errors |-> << >>]
    <3>1. CASE d.elided[n].dir \in {"if", "ifdef", "ifndef", "elif", "else", "endif"}
      BY <1>4, <3>1 DEF UpdateIncludes
    <3>2. CASE d.elided[n].dir \notin {"if", "ifdef", "ifndef", "elif", "else", "endif"}
      BY <1>4, <3>2 DEF UpdateIncludes
    <3>3. QED
      BY <3>1, <3>2
  <2>2. E = << >>
    BY <1>1, <2>1
  <2>3. QED
    BY <1>1, <2>2, NoErrors
<1>5. QED
  BY <1>3, <1>4

\* Those that the line is given.
LEMMA FoundErrors ==
  ASSUME NEW N \in Nat, NEW n \in 1 .. N, NEW l, LineOK(l), NEW S, S \subseteq FoundIn(l, n)
  PROVE  OfLines(SetToSeq(S), n, N, Reserved)
<1>1. IsFiniteSet(l.found)
  BY DEF LineOK
<1>2. PICK F : F = FoundIn(l, n)
  OBVIOUS
<1>3. F = {<<n, e[1], e[2]>> : e \in l.found}
  BY <1>2 DEF FoundIn
<1>4. IsFiniteSet(F)
  <2> DEFINE f == [e \in l.found |-> <<n, e[1], e[2]>>]
  <2>1. f \in Surjection(l.found, F)
    BY <1>3 DEF Surjection
  <2> HIDE DEF f
  <2>2. QED
    BY <1>1, <2>1, FS_Surjection
<1>5. IsFiniteSet(S)
  BY <1>2, <1>4, FS_Subset
<1>6. Behind(n, n, N)
  BY BehindIt
<1>7. ASSUME NEW x \in S
      PROVE  x[2] \notin Reserved /\ Behind(x[1], n, N)
  <2>1. PICK e \in l.found : x = <<n, e[1], e[2]>>
    BY <1>2, <1>3
  <2>2. x[1] = n /\ x[2] = e[1]
    BY <2>1
  <2>3. QED
    BY <1>6, <2>2 DEF LineOK
<1>8. QED
  BY <1>5, <1>7, SetOfErrors

------------------------------------------------------------------------------
(* The errors and the stack that a line leaves. *)

\* The next least number of a set of token numbers, if there is one.
LEMMA FirstFrom ==
  ASSUME NEW m \in Nat, NEW N \in Nat, NEW S, S \subseteq m .. N
  PROVE  First(S, 0) = 0 \/ First(S, 0) \in m .. N
<1>1. CASE S = {}
  BY <1>1 DEF First
<1>2. CASE S # {}
  <2>1. S \in SUBSET Nat
    OBVIOUS
  <2>2. \E k \in S : \A j \in S : k <= j
    BY <1>2, <2>1, LeastNumber
  <2>3. Min(S) \in S
    BY <2>2, Zenon DEF Min
  <2>4. First(S, 0) = Min(S)
    BY <1>2, Zenon DEF First
  <2>5. QED
    BY <2>3, <2>4
<1>3. QED
  BY <1>1, <1>2

\* The namespaces at token p, given those at the token after the first of them.
HasName(toks, p) == p < Len(toks) /\ IsWord(toks[p + 1])
AfterName(toks, p) == IF HasName(toks, p) THEN p + 2 ELSE p + 1
BraceAfter(toks, p) == First({u \in AfterName(toks, p) .. Len(toks) : toks[u] = "{"}, 0)
NamespaceNext(toks, p) == IF BraceAfter(toks, p) = 0 THEN AfterName(toks, p) ELSE BraceAfter(toks, p) + 1
NamespaceStep(was, toks, n, p) ==
  IF p > Len(toks) \/ toks[p] # "namespace" THEN [opened |-> << >>, rest |-> p]
  ELSE [was EXCEPT !.opened = <<[_NamespaceInfo(IF HasName(toks, p) THEN toks[p + 1] ELSE "", n)
                                   EXCEPT !.seen_open_brace = BraceAfter(toks, p) # 0]>> \o @]

\* A namespace takes at least one token.
LEMMA NamespaceNextIs ==
  ASSUME NEW toks, Len(toks) \in Nat, NEW p \in 1 .. Len(toks)
  PROVE  NamespaceNext(toks, p) \in p + 1 .. Len(toks) + 1
<1>1. PICK q : q = AfterName(toks, p)
  OBVIOUS
<1>2. q \in p + 1 .. Len(toks) + 1 /\ q \in Nat
  BY <1>1 DEF AfterName, HasName
<1>3. PICK b : b = BraceAfter(toks, p)
  OBVIOUS
<1>4. b = 0 \/ b \in q .. Len(toks)
  <2>1. PICK S : S = {u \in q .. Len(toks) : toks[u] = "{"}
    OBVIOUS
  <2>2. b = First(S, 0) /\ S \subseteq q .. Len(toks)
    BY <1>1, <1>3, <2>1 DEF BraceAfter
  <2>3. QED
    BY <1>2, <2>2, FirstFrom
<1>5. NamespaceNext(toks, p) = IF b = 0 THEN q ELSE b + 1
  BY <1>1, <1>3 DEF NamespaceNext
<1>6. QED
  BY <1>2, <1>4, <1>5

\* From token m on.
NamespacesFrom(f, toks, n, m) ==
  f = [p \in m .. Len(toks) + 1 |-> NamespaceStep(f[NamespaceNext(toks, p)], toks, n, p)]

\* The function g goes on from f with the value v at its front.
LongerInFront(g, f, m, N, v) == /\ g = [p \in m .. N |-> g[p]]
                                /\ \A p \in m + 1 .. N : g[p] = f[p]
                                /\ g[m] = v

\* A function, with one more argument in front.
LEMMA FunctionInFront ==
  ASSUME NEW N \in Nat, NEW m \in Nat, m <= N, NEW f, NEW v
  PROVE  \E g : LongerInFront(g, f, m, N, v)
<1> DEFINE g == [p \in m .. N |-> IF p = m THEN v ELSE f[p]]
<1>1. g = [p \in m .. N |-> g[p]] /\ (\A p \in m + 1 .. N : g[p] = f[p]) /\ g[m] = v
  OBVIOUS
<1> HIDE DEF g
<1>2. LongerInFront(g, f, m, N, v)
  BY <1>1 DEF LongerInFront
<1>3. QED
  BY <1>2

\* There is a function that obeys the recursion of ConsumeNamespaces.
LEMMA NamespacesExist ==
  ASSUME NEW toks, NEW N \in Nat, N = Len(toks), NEW n
  PROVE  \E f : NamespacesFrom(f, toks, n, 1)
<1> DEFINE T == {k \in Nat : k <= N => \E f : NamespacesFrom(f, toks, n, N + 1 - k)}
<1>1. 0 \in T
  <2>1. PICK f : f = [p \in N + 1 .. N + 1 |-> [opened |-> << >>, rest |-> p]]
    OBVIOUS
  <2>2. ASSUME NEW p \in N + 1 .. N + 1
        PROVE  NamespaceStep(f[NamespaceNext(toks, p)], toks, n, p) = [opened |-> << >>, rest |-> p]
    <3>1. p > N
      OBVIOUS
    <3>2. QED
      BY <3>1 DEF NamespaceStep
  <2>3. f = [p \in N + 1 .. N + 1 |-> NamespaceStep(f[NamespaceNext(toks, p)], toks, n, p)]
    BY <2>1, <2>2, Zenon
  <2>4. NamespacesFrom(f, toks, n, N + 1)
    BY <2>3, Zenon DEF NamespacesFrom
  <2>5. N + 1 - 0 = N + 1
    OBVIOUS
  <2>6. QED
    BY <2>4, <2>5
<1>2. ASSUME NEW k \in T
      PROVE  k + 1 \in T
  <2>1. SUFFICES ASSUME k + 1 <= N
                 PROVE  \E f : NamespacesFrom(f, toks, n, N + 1 - (k + 1))
    OBVIOUS
  <2>2. PICK m : m = N + 1 - (k + 1)
    OBVIOUS
  <2>3. m \in Nat /\ m \in 1 .. N /\ m <= N + 1 /\ N + 1 - k = m + 1 /\ N + 1 \in Nat
    BY <2>1, <2>2
  <2>4. PICK f : NamespacesFrom(f, toks, n, m + 1)
    BY <2>1, <2>3
  <2>5. PICK v : v = NamespaceStep(f[NamespaceNext(toks, m)], toks, n, m)
    OBVIOUS
  <2>6. PICK g : LongerInFront(g, f, m, N + 1, v)
    BY <2>3, FunctionInFront
  <2>7. \A p \in m + 1 .. N + 1 : f[p] = NamespaceStep(f[NamespaceNext(toks, p)], toks, n, p)
    BY <2>4, Zenon DEF NamespacesFrom
  <2>8. ASSUME NEW p \in m .. N + 1
        PROVE  g[p] = NamespaceStep(g[NamespaceNext(toks, p)], toks, n, p)
    <3>1. p \in 1 .. N => g[NamespaceNext(toks, p)] = f[NamespaceNext(toks, p)]
      <4>1. SUFFICES ASSUME p \in 1 .. N
                     PROVE  g[NamespaceNext(toks, p)] = f[NamespaceNext(toks, p)]
        OBVIOUS
      <4>2. NamespaceNext(toks, p) \in p + 1 .. N + 1
        BY <4>1, NamespaceNextIs
      <4>3. NamespaceNext(toks, p) \in m + 1 .. N + 1
        BY <2>3, <4>2
      <4>4. QED
        BY <2>6, <4>3, Zenon DEF LongerInFront
    <3>2. g[p] = NamespaceStep(f[NamespaceNext(toks, p)], toks, n, p)
      <4>1. p = m \/ p \in m + 1 .. N + 1
        BY <2>3
      <4>2. QED
        BY <2>5, <2>6, <2>7, <4>1, Zenon DEF LongerInFront
    <3>3. CASE p \in 1 .. N
      BY <3>1, <3>2, <3>3
    <3>4. CASE p \notin 1 .. N
      <4>1. p > N
        BY <2>3, <3>4
      <4>2. QED
        BY <3>2, <4>1 DEF NamespaceStep
    <3>5. QED
      BY <3>3, <3>4
  <2>9. g = [p \in m .. N + 1 |-> NamespaceStep(g[NamespaceNext(toks, p)], toks, n, p)]
    BY <2>6, <2>8, Zenon DEF LongerInFront
  <2>10. NamespacesFrom(g, toks, n, m)
    BY <2>9, Zenon DEF NamespacesFrom
  <2>11. QED
    BY <2>2, <2>10
<1>3. N \in T
  <2>1. T = Nat
    BY <1>1, <1>2, AllNumbers
  <2>2. QED
    BY <2>1
<1>4. N + 1 - N = 1
  OBVIOUS
<1>5. QED
  BY <1>3, <1>4

\* What makes a sequence out of sequences.
LEMMA SeqNone == IsSeq(<< >>)
<1>1. PICK U : U = {}
  OBVIOUS
<1>2. << >> \in Seq(U)
  OBVIOUS
<1>3. QED
  BY <1>2, Zenon DEF IsSeq

\* One element.
LEMMA SeqShort ==
  ASSUME NEW e
  PROVE  IsSeq(<<e>>)
<1>1. PICK U : U = {e}
  OBVIOUS
<1>2. <<e>> \in Seq(U)
  BY <1>1
<1>3. QED
  BY <1>2, Zenon DEF IsSeq

\* Two sequences, one after the other.
LEMMA SeqBoth ==
  ASSUME NEW s, NEW t, IsSeq(s), IsSeq(t)
  PROVE  IsSeq(s \o t)
<1>1. PICK U, W : s \in Seq(U) /\ t \in Seq(W)
  BY DEF IsSeq
<1>2. PICK V : V = U \cup W
  OBVIOUS
<1>3. s \in Seq(V) /\ t \in Seq(V)
  BY <1>1, <1>2
<1>4. s \o t \in Seq(V)
  BY <1>3, ConcatProperties
<1>5. QED
  BY <1>4 DEF IsSeq

\* One more element.
LEMMA SeqMore ==
  ASSUME NEW s, NEW e, IsSeq(s)
  PROVE  IsSeq(Append(s, e))
<1>1. PICK U : s \in Seq(U)
  BY DEF IsSeq
<1>2. PICK V : V = U \cup {e}
  OBVIOUS
<1>3. s \in Seq(V) /\ e \in V
  BY <1>1, <1>2
<1>4. Append(s, e) \in Seq(V)
  BY <1>3
<1>5. QED
  BY <1>4 DEF IsSeq

\* A part of a sequence.
LEMMA SeqPart ==
  ASSUME NEW s, IsSeq(s), NEW m \in Nat, m # 0, NEW n \in Int, n <= Len(s)
  PROVE  IsSeq(SubSeq(s, m, n))
<1>1. PICK U : s \in Seq(U)
  BY DEF IsSeq
<1>2. \A u \in m .. n : s[u] \in U
  BY <1>1
<1>3. SubSeq(s, m, n) \in Seq(U)
  BY <1>2, SubSeqProperties
<1>4. QED
  BY <1>3 DEF IsSeq

\* A function from 1 .. n.
LEMMA SeqForm ==
  ASSUME NEW s, NEW n \in Nat, s = [k \in 1 .. n |-> s[k]]
  PROVE  IsSeq(s)
<1>1. PICK U : U = {s[m] : m \in 1 .. n}
  OBVIOUS
<1>2. s \in Seq(U)
  BY <1>1, SequenceOf
<1>3. QED
  BY <1>2 DEF IsSeq

\* The length of a sequence, and the sequence as a function.
LEMMA SeqLen ==
  ASSUME NEW s, IsSeq(s)
  PROVE  Len(s) \in Nat /\ DOMAIN s = 1 .. Len(s) /\ s = [k \in 1 .. Len(s) |-> s[k]]
BY DEF IsSeq

\* ConsumeNamespaces obeys its recursion.
LEMMA NamespacesDef ==
  ASSUME NEW stack, NEW toks, NEW N \in Nat, N = Len(toks), NEW n
  PROVE  \E f : /\ NamespacesFrom(f, toks, n, 1)
                /\ ConsumeNamespaces(stack, toks, n) = [stack |-> stack \o f[1].opened,
                                                        toks |-> SubSeq(toks, f[1].rest, Len(toks))]
<1>1. \E f : NamespacesFrom(f, toks, n, 1)
  BY NamespacesExist
<1>2. PICK g : g = CHOOSE f : NamespacesFrom(f, toks, n, 1)
  OBVIOUS
<1>3. ConsumeNamespaces(stack, toks, n) = [stack |-> stack \o g[1].opened, toks |-> SubSeq(toks, g[1].rest, Len(toks))]
  BY <1>2, Zenon DEF ConsumeNamespaces, NamespacesFrom, NamespaceStep, NamespaceNext, BraceAfter, AfterName, HasName
<1>4. NamespacesFrom(g, toks, n, 1)
  BY <1>1, <1>2, Zenon
<1>5. QED
  BY <1>3, <1>4

\* The namespaces leave sequences.
LEMMA NamespacesKeep ==
  ASSUME NEW stack, NEW toks, IsSeq(toks), NEW n, NEW r, r = ConsumeNamespaces(stack, toks, n)
  PROVE  IsSeq(r.toks) /\ (IsSeq(stack) => IsSeq(r.stack))
<1>1. PICK N \in Nat : N = Len(toks)
  BY SeqLen
<1>2. PICK f : /\ NamespacesFrom(f, toks, n, 1)
               /\ r = [stack |-> stack \o f[1].opened, toks |-> SubSeq(toks, f[1].rest, N)]
  BY <1>1, NamespacesDef
<1>3. \A p \in 1 .. N + 1 : f[p] = NamespaceStep(f[NamespaceNext(toks, p)], toks, n, p)
  BY <1>1, <1>2, Zenon DEF NamespacesFrom
<1> DEFINE OK(x) == \E o, q : x = [opened |-> o, rest |-> q] /\ IsSeq(o) /\ q \in Nat /\ q # 0
           T == {k \in Nat : k <= N => \A p \in N + 1 - k .. N + 1 : OK(f[p])}
<1>4. ASSUME NEW p \in 1 .. N + 1, p \in 1 .. N => OK(f[NamespaceNext(toks, p)])
      PROVE  OK(f[p])
  <2>1. PICK was : was = f[NamespaceNext(toks, p)]
    OBVIOUS
  <2>2. f[p] = NamespaceStep(was, toks, n, p)
    BY <1>3, <2>1
  <2>3. CASE p > Len(toks) \/ toks[p] # "namespace"
    <3>1. f[p] = [opened |-> << >>, rest |-> p]
      BY <2>2, <2>3 DEF NamespaceStep
    <3>2. IsSeq(<< >>) /\ p \in Nat /\ p # 0
      BY SeqNone
    <3>3. QED
      BY <3>1, <3>2
  <2>4. CASE ~(p > Len(toks) \/ toks[p] # "namespace")
    <3>1. PICK new : f[p] = [was EXCEPT !.opened = <<new>> \o @]
      BY <2>2, <2>4 DEF NamespaceStep
    <3>2. p \in 1 .. N
      BY <1>1, <2>4
    <3>3. PICK o, q : was = [opened |-> o, rest |-> q] /\ IsSeq(o) /\ q \in Nat /\ q # 0
      BY <1>4, <2>1, <3>2
    <3>4. PICK l, b : l = <<new>> /\ b = l \o o
      OBVIOUS
    <3>5. IsSeq(b)
      BY <3>3, <3>4, SeqShort, SeqBoth
    <3>6. f[p] = [opened |-> b, rest |-> q]
      BY <3>1, <3>3, <3>4
    <3>7. QED
      BY <3>3, <3>5, <3>6
  <2>5. QED
    BY <2>3, <2>4
<1> HIDE DEF OK
<1>5. 0 \in T
  <2>1. ASSUME NEW p \in N + 1 .. N + 1
        PROVE  OK(f[p])
    BY <1>4
  <2>2. N + 1 - 0 = N + 1
    OBVIOUS
  <2>3. QED
    BY <2>1, <2>2
<1>6. ASSUME NEW k \in T
      PROVE  k + 1 \in T
  <2>1. SUFFICES ASSUME k + 1 <= N, NEW p \in N + 1 - (k + 1) .. N + 1
                 PROVE  OK(f[p])
    OBVIOUS
  <2>2. \A q \in N + 1 - k .. N + 1 : OK(f[q])
    BY <2>1
  <2>3. CASE p \in N + 1 - k .. N + 1
    BY <2>2, <2>3
  <2>4. CASE p = N + 1 - (k + 1)
    <3>1. p \in 1 .. N /\ p \in 1 .. N + 1
      BY <2>1, <2>4
    <3>2. NamespaceNext(toks, p) \in p + 1 .. N + 1
      BY <1>1, <3>1, NamespaceNextIs
    <3>3. NamespaceNext(toks, p) \in N + 1 - k .. N + 1
      BY <2>4, <3>2
    <3>4. QED
      BY <1>4, <2>2, <3>1, <3>3
  <2>5. p \in N + 1 - k .. N + 1 \/ p = N + 1 - (k + 1)
    BY <2>1
  <2>6. QED
    BY <2>3, <2>4, <2>5
<1>7. N \in T
  <2>1. T = Nat
    BY <1>5, <1>6, AllNumbers
  <2>2. QED
    BY <2>1
<1>8. OK(f[1])
  <2>1. 1 \in N + 1 - N .. N + 1
    OBVIOUS
  <2>2. QED
    BY <1>7, <2>1
<1>9. PICK o, q : f[1] = [opened |-> o, rest |-> q] /\ IsSeq(o) /\ q \in Nat /\ q # 0
  BY <1>8 DEF OK
<1>10. r.stack = stack \o o /\ r.toks = SubSeq(toks, q, N)
  BY <1>2, <1>9
<1>11. IsSeq(SubSeq(toks, q, N))
  BY <1>1, <1>9, SeqPart
<1>12. IsSeq(stack) => IsSeq(stack \o o)
  BY <1>9, SeqBoth
<1>13. QED
  BY <1>10, <1>11, <1>12

------------------------------------------------------------------------------
(* The classes, the braces and the parentheses of a line. *)

\* The place of the word class is a number.
LEMMA ClassHeadIs ==
  ASSUME NEW toks, IsSeq(toks)
  PROVE  ClassHead(toks) \in Nat
<1>1. PICK N \in Nat : N = Len(toks)
  BY SeqLen
<1> DEFINE heads(at) == {u \in at : u < Len(toks) /\ toks[u] \in {"class", "struct"} /\ IsWord(toks[u + 1])}
           after == {u \in 4 .. Len(toks) : /\ toks[u - 1] = ">"
                                            /\ \A j \in 3 .. u - 2 : IsWord(toks[j]) \/ toks[j] \in {"<", ">", ",", "="}}
<1>2. PICK S : S = heads(after)
  OBVIOUS
<1>3. S \subseteq 1 .. N
  <2>1. PICK A : A = after
    OBVIOUS
  <2>2. A \subseteq 4 .. N
    BY <1>1, <2>1
  <2>3. S = heads(A)
    BY <1>2, <2>1
  <2> HIDE DEF after
  <2>4. S \subseteq A
    BY <2>3
  <2>5. QED
    BY <2>2, <2>4
<1>4. PICK k : k = CHOOSE u \in S : \A j \in S : j <= u
  OBVIOUS
<1>5. PICK x : x = ClassHead(toks)
  OBVIOUS
<1>6. x = 0 \/ x = 1 \/ (S # {} /\ x = k)
  BY <1>2, <1>4, <1>5, Zenon DEF ClassHead
<1> HIDE DEF heads, after
<1>7. S # {} => k \in S
  <2>1. SUFFICES ASSUME S # {}
                 PROVE  k \in S
    OBVIOUS
  <2>2. \E u \in S : \A j \in S : j <= u
    BY <1>1, <1>3, <2>1, GreatestIn
  <2>3. QED
    BY <1>4, <2>2, Zenon
<1>8. ASSUME S # {}
      PROVE  k \in Nat
  <2>1. k \in S
    BY <1>7, <1>8, Zenon
  <2>2. k \in 1 .. N
    BY <1>3, <2>1, Zenon
  <2>3. QED
    BY <2>2
<1>9. x \in Nat
  BY <1>6, <1>8
<1>10. QED
  BY <1>5, <1>9

\* The classes leave sequences.
LEMMA ClassKeeps ==
  ASSUME NEW r, IsSeq(r.toks), NEW d, NEW n, NEW c, c = ConsumeClass(r, d, n)
  PROVE  IsSeq(c.toks) /\ (IsSeq(r.stack) => IsSeq(c.stack))
<1>1. PICK toks, stack, h : toks = r.toks /\ stack = r.stack /\ h = ClassHead(toks)
  OBVIOUS
<1>2. PICK info, rest : info = _ClassInfo(toks[h + 1], d, n) /\ rest = SubSeq(toks, h + 2, Len(toks))
  OBVIOUS
<1>3. c = r \/ c = [stack |-> Append(stack, info), toks |-> rest]
  BY <1>1, <1>2, Zenon DEF ConsumeClass
<1>4. IsSeq(rest)
  <2>1. IsSeq(toks)
    BY <1>1
  <2>2. h \in Nat
    BY <1>1, <2>1, ClassHeadIs
  <2>3. Len(toks) \in Nat
    BY <2>1, SeqLen
  <2>4. h + 2 \in Nat /\ h + 2 # 0 /\ Len(toks) \in Int /\ Len(toks) <= Len(toks)
    BY <2>2, <2>3
  <2>5. QED
    BY <1>2, <2>1, <2>4, SeqPart
<1>5. IsSeq(stack) => IsSeq(Append(stack, info))
  BY SeqMore
<1>6. CASE c = r
  BY <1>6
<1>7. CASE c = [stack |-> Append(stack, info), toks |-> rest]
  <2>1. c.stack = Append(stack, info) /\ c.toks = rest
    BY <1>7
  <2>2. QED
    BY <1>1, <1>4, <1>5, <2>1
<1>8. QED
  BY <1>3, <1>6, <1>7

\* What the end of a block is blamed for.
LEMMA EndErrors ==
  ASSUME NEW N \in Nat, NEW n \in 1 .. N, NEW b, NEW d
  PROVE  OfLines(CheckEnd(b, d, n), n, N, Reserved)
<1>1. Behind(n, n, N)
  BY BehindIt
<1>2. OfLines(ClassCheckEnd(b, d, n), n, N, Reserved)
  <2>1. PICK macros, last : macros = {u \in 1 .. n - 1 : u > b.starting_linenum /\ d.elided[u].disallow = b.name}
                            /\ last = Latest(macros, 0)
    OBVIOUS
  <2>2. last \in 0 .. n - 1
    <3>1. n - 1 \in Nat /\ macros \subseteq 1 .. n - 1
      BY <2>1
    <3>2. QED
      BY <2>1, <3>1, GreatestOf
  <2>3. Behind(last, n, N)
    <3>1. last \in Int /\ last <= n
      BY <2>2
    <3>2. QED
      BY <3>1, BehindIt
  <2>4. PICK E, F : /\ ClassCheckEnd(b, d, n) = E \o F
                    /\ E = << >> \/ E = <<<<last, "readability/constructors", 3>>>>
                    /\ F = << >> \/ F = <<<<n, "whitespace/indent", 3>>>>
    <3>1. PICK E, F :
            /\ E = IF macros # {} /\ \E u \in last + 1 .. n - 1 : ~IsBlankLine(d.elided[u])
                   THEN <<<<last, "readability/constructors", 3>>>> ELSE << >>
            /\ F = IF d.elided[n].toks # << >> /\ d.elided[n].toks[1] = "}" /\ d.elided[n].indent # b.class_indent
                   THEN <<<<n, "whitespace/indent", 3>>>> ELSE << >>
      OBVIOUS
    <3>2. ClassCheckEnd(b, d, n) = E \o F
      BY <2>1, <3>1, Zenon DEF ClassCheckEnd
    <3>3. QED
      BY <3>1, <3>2, Zenon
  <2>5. /\ OfLines(<< >>, n, N, Reserved) /\ OfLines(<<<<last, "readability/constructors", 3>>>>, n, N, Reserved)
        /\ OfLines(<<<<n, "whitespace/indent", 3>>>>, n, N, Reserved)
    BY <1>1, <2>3, NoErrors, OneError DEF Reserved, GuardsOwn
  <2>6. OfLines(E, n, N, Reserved) /\ OfLines(F, n, N, Reserved)
    BY <2>4, <2>5
  <2>7. QED
    BY <2>4, <2>6, BothErrors
<1>3. OfLines(NamespaceCheckEnd(b, d, n), n, N, Reserved)
  <2>1. PICK E : E = NamespaceCheckEnd(b, d, n)
    OBVIOUS
  <2>2. E = << >> \/ E = <<<<n, "readability/namespace", 5>>>>
    BY <2>1, Zenon DEF NamespaceCheckEnd
  <2>3. OfLines(<< >>, n, N, Reserved) /\ OfLines(<<<<n, "readability/namespace", 5>>>>, n, N, Reserved)
    BY <1>1, NoErrors, OneError DEF Reserved, GuardsOwn
  <2>4. QED
    BY <2>1, <2>2, <2>3
<1>4. OfLines(<< >>, n, N, Reserved)
  BY NoErrors
<1>5. PICK E : E = CheckEnd(b, d, n)
  OBVIOUS
<1>6. E = ClassCheckEnd(b, d, n) \/ E = NamespaceCheckEnd(b, d, n) \/ E = << >>
  BY <1>5 DEF CheckEnd
<1>7. QED
  BY <1>2, <1>3, <1>4, <1>5, <1>6

\* An access specifier is blamed in its own line.
LEMMA AccessErrors ==
  ASSUME NEW N \in Nat, NEW n \in 1 .. N, NEW stack, NEW toks, NEW l
  PROVE  OfLines(CheckAccess(stack, toks, l, n), n, N, Reserved)
<1>1. PICK E : E = CheckAccess(stack, toks, l, n)
  OBVIOUS
<1>2. E = << >> \/ E = <<<<n, "whitespace/indent", 3>>>>
  BY <1>1, Zenon DEF CheckAccess
<1>3. Behind(n, n, N)
  BY BehindIt
<1>4. OfLines(<< >>, n, N, Reserved) /\ OfLines(<<<<n, "whitespace/indent", 3>>>>, n, N, Reserved)
  BY <1>3, NoErrors, OneError DEF Reserved, GuardsOwn
<1>5. QED
  BY <1>1, <1>2, <1>4

\* The stack without its top, and with another element.
LEMMA SeqPop ==
  ASSUME NEW s, IsSeq(s), s # << >>
  PROVE  IsSeq(Pop(s))
<1>1. PICK N \in Nat : N = Len(s)
  BY SeqLen
<1>2. N - 1 \in Int /\ N - 1 <= Len(s)
  BY <1>1
<1>3. IsSeq(SubSeq(s, 1, N - 1))
  BY <1>2, SeqPart
<1>4. QED
  BY <1>1, <1>3 DEF Pop

\* Another element in the place of one.
LEMMA SeqOther ==
  ASSUME NEW s, IsSeq(s), NEW k, NEW e
  PROVE  IsSeq([s EXCEPT ![k] = e])
<1>1. PICK N \in Nat : N = Len(s) /\ DOMAIN s = 1 .. N
  BY SeqLen
<1>2. PICK t : t = [s EXCEPT ![k] = e]
  OBVIOUS
<1>3. DOMAIN t = 1 .. N /\ t = [u \in DOMAIN t |-> t[u]]
  BY <1>1, <1>2
<1>4. t = [u \in 1 .. N |-> t[u]]
  BY <1>3
<1>5. QED
  BY <1>2, <1>4, SeqForm

\* What brace, semicolon or parenthesis p makes of the stack and the errors.
Marks(toks) == {u \in DOMAIN toks : toks[u] \in {"{", ";", "}", ")"}}
Rest(toks, p) == SubSeq(toks, Latest({u \in Marks(toks) : u < p}, 0) + 1, Len(toks))
OpenedBy(s, r, n) ==
  CASE ~SeenOpenBrace(s) -> [s EXCEPT ![Len(s)].seen_open_brace = TRUE]
    [] SeenOpenBrace(s) /\ Len(r) > 2 /\ SubSeq(r, 1, 3) = <<"extern", "str", "{">> -> Append(s, _ExternCInfo(n))
    [] OTHER -> Append(s, [_BlockInfo(n, TRUE) EXCEPT !.inline_asm = IF StartsAsm(r) THEN "BLOCK" ELSE "NO"])
AfterMark(s, toks, n, p) ==
  CASE toks[p] = "{" -> OpenedBy(s, Rest(toks, p), n)
    [] toks[p] \in {";", ")"} -> IF SeenOpenBrace(s) THEN s ELSE Pop(s)
    [] OTHER -> IF s = << >> THEN s ELSE Pop(s)
ClosedBy(s, toks, d, n, p) == IF toks[p] = "}" /\ s # << >> THEN CheckEnd(Top(s), d, n) ELSE << >>
BraceStep(was, toks, d, n, p) ==
  IF p \notin Marks(toks) THEN was
  ELSE [stack |-> AfterMark(was.stack, toks, n, p), errors |-> was.errors \o ClosedBy(was.stack, toks, d, n, p)]

BracesUpto(f, start, toks, d, n0, n) ==
  f = [k \in 0 .. n |-> IF k = 0 THEN start ELSE BraceStep(f[k - 1], toks, d, n0, k)]

\* There is a function that obeys the recursion of ConsumeBraces.
LEMMA BracesExist ==
  ASSUME NEW start, NEW toks, NEW d, NEW n0
  PROVE  \A n \in Nat : \E f : BracesUpto(f, start, toks, d, n0, n)
<1> DEFINE T == {n \in Nat : \E f : BracesUpto(f, start, toks, d, n0, n)}
<1>1. 0 \in T
  <2>1. BracesUpto([k \in 0 .. 0 |-> start], start, toks, d, n0, 0)
    BY DEF BracesUpto
  <2>2. QED
    BY <2>1
<1>2. ASSUME NEW n \in T
      PROVE  n + 1 \in T
  <2>1. PICK f : BracesUpto(f, start, toks, d, n0, n)
    OBVIOUS
  <2>2. PICK g : Longer(g, f, n, BraceStep(f[n], toks, d, n0, n + 1))
    BY LongerFunction, Zenon
  <2>3. \A k \in 0 .. n : f[k] = IF k = 0 THEN start ELSE BraceStep(f[k - 1], toks, d, n0, k)
    BY <2>1, Zenon DEF BracesUpto
  <2>4. ASSUME NEW k \in 0 .. n + 1
        PROVE  g[k] = IF k = 0 THEN start ELSE BraceStep(g[k - 1], toks, d, n0, k)
    <3>1. CASE k \in 0 .. n
      <4>1. g[k] = f[k] /\ (k # 0 => g[k - 1] = f[k - 1])
        <5>1. k - 1 \in 0 .. n \/ k = 0
          BY <3>1
        <5>2. QED
          BY <2>2, <3>1, <5>1, Zenon DEF Longer
      <4>2. QED
        BY <2>3, <3>1, <4>1, Zenon
    <3>2. CASE k = n + 1
      <4>1. k # 0 /\ n \in 0 .. n /\ k - 1 = n
        BY <3>2
      <4>2. QED
        BY <2>2, <3>2, <4>1, Zenon DEF Longer
    <3>3. QED
      BY <3>1, <3>2
  <2>5. g = [k \in 0 .. n + 1 |-> IF k = 0 THEN start ELSE BraceStep(g[k - 1], toks, d, n0, k)]
    BY <2>2, <2>4, Zenon DEF Longer
  <2>6. BracesUpto(g, start, toks, d, n0, n + 1)
    BY <2>5, Zenon DEF BracesUpto
  <2>7. QED
    BY <2>6
<1>3. QED
  BY <1>1, <1>2, AllNumbers

\* A brace leaves a stack.
LEMMA MarkKeeps ==
  ASSUME NEW s, IsSeq(s), NEW toks, NEW n, NEW p
  PROVE  IsSeq(AfterMark(s, toks, n, p))
<1>1. IsSeq(OpenedBy(s, Rest(toks, p), n))
  <2>1. PICK r : r = Rest(toks, p)
    OBVIOUS
  <2>2. CASE ~SeenOpenBrace(s)
    <3>1. OpenedBy(s, r, n) = [s EXCEPT ![Len(s)].seen_open_brace = TRUE]
      BY <2>2 DEF OpenedBy
    <3>2. PICK e : OpenedBy(s, r, n) = [s EXCEPT ![Len(s)] = e]
      BY <3>1
    <3>3. IsSeq([s EXCEPT ![Len(s)] = e])
      BY SeqOther
    <3>4. QED
      BY <2>1, <3>2, <3>3
  <2>3. CASE SeenOpenBrace(s)
    <3>1. PICK e : OpenedBy(s, r, n) = Append(s, e)
      <4>1. CASE Len(r) > 2 /\ SubSeq(r, 1, 3) = <<"extern", "str", "{">>
        BY <2>3, <4>1 DEF OpenedBy
      <4>2. CASE ~(Len(r) > 2 /\ SubSeq(r, 1, 3) = <<"extern", "str", "{">>)
        BY <2>3, <4>2 DEF OpenedBy
      <4>3. QED
        BY <4>1, <4>2
    <3>2. IsSeq(Append(s, e))
      BY SeqMore
    <3>3. QED
      BY <2>1, <3>1, <3>2
  <2>4. QED
    BY <2>2, <2>3
<1>2. IsSeq(IF SeenOpenBrace(s) THEN s ELSE Pop(s))
  BY SeqPop DEF SeenOpenBrace
<1>3. IsSeq(IF s = << >> THEN s ELSE Pop(s))
  BY SeqPop
<1>4. PICK a, b, c : a = OpenedBy(s, Rest(toks, p), n) /\ b = (IF SeenOpenBrace(s) THEN s ELSE Pop(s))
                     /\ c = IF s = << >> THEN s ELSE Pop(s)
  OBVIOUS
<1>5. AfterMark(s, toks, n, p) = a \/ AfterMark(s, toks, n, p) = b \/ AfterMark(s, toks, n, p) = c
  BY <1>4 DEF AfterMark
<1>6. QED
  BY <1>1, <1>2, <1>3, <1>4, <1>5

\* The braces keep a sequence, and what they are blamed for is of this line or one before.
LEMMA BracesKeep ==
  ASSUME NEW N \in Nat, NEW n \in 1 .. N, NEW stack, NEW toks, IsSeq(toks), NEW d,
         NEW b, b = ConsumeBraces(stack, toks, d, n)
  PROVE  /\ b = [stack |-> b.stack, errors |-> b.errors]
         /\ OfLines(b.errors, n, N, Reserved) /\ (IsSeq(stack) => IsSeq(b.stack))
<1>1. PICK m \in Nat : m = Len(toks)
  BY SeqLen
<1>2. PICK start : start = [stack |-> stack, errors |-> << >>]
  OBVIOUS
<1>3. \E f : BracesUpto(f, start, toks, d, n, m)
  BY <1>1, BracesExist
<1>4. PICK g : g = CHOOSE f : BracesUpto(f, [stack |-> stack, errors |-> << >>], toks, d, n, Len(toks))
  OBVIOUS
<1>5. BracesUpto(g, start, toks, d, n, m)
  <2>1. \E f : BracesUpto(f, [stack |-> stack, errors |-> << >>], toks, d, n, Len(toks))
    BY <1>1, <1>2, <1>3, Zenon
  <2>2. BracesUpto(g, [stack |-> stack, errors |-> << >>], toks, d, n, Len(toks))
    BY <1>4, <2>1, Zenon
  <2>3. QED
    BY <1>1, <1>2, <2>2, Zenon
<1>6. b = g[m]
  BY <1>1, <1>4, Zenon DEF ConsumeBraces, BracesUpto, BraceStep, AfterMark, ClosedBy, OpenedBy, Rest, Marks
<1>7. \A k \in 0 .. m : g[k] = IF k = 0 THEN start ELSE BraceStep(g[k - 1], toks, d, n, k)
  BY <1>5, Zenon DEF BracesUpto
<1> DEFINE P(x) == \E s, e : x = [stack |-> s, errors |-> e] /\ OfLines(e, n, N, Reserved) /\ (IsSeq(stack) => IsSeq(s))
           T == {k \in Nat : k <= m => P(g[k])}
<1>8. 0 \in T
  <2>1. g[0] = start
    BY <1>7
  <2>2. OfLines(<< >>, n, N, Reserved)
    BY NoErrors
  <2>3. P(g[0])
    BY <1>2, <2>1, <2>2
  <2>4. QED
    BY <2>3
<1> HIDE DEF P
<1>9. ASSUME NEW k \in T
      PROVE  k + 1 \in T
  <2>1. SUFFICES ASSUME k + 1 <= m
                 PROVE  P(g[k + 1])
    OBVIOUS
  <2>2. PICK s, e : g[k] = [stack |-> s, errors |-> e] /\ OfLines(e, n, N, Reserved) /\ (IsSeq(stack) => IsSeq(s))
    <3>1. P(g[k])
      BY <2>1
    <3>2. QED
      BY <3>1 DEF P
  <2>3. PICK p : p = k + 1
    OBVIOUS
  <2>4. g[p] = BraceStep([stack |-> s, errors |-> e], toks, d, n, p)
    BY <1>7, <2>1, <2>2, <2>3
  <2>5. PICK s1, e1, f1 : s1 = AfterMark(s, toks, n, p) /\ f1 = ClosedBy(s, toks, d, n, p) /\ e1 = e \o f1
    OBVIOUS
  <2>6. g[p] = [stack |-> s, errors |-> e] \/ g[p] = [stack |-> s1, errors |-> e1]
    BY <2>4, <2>5 DEF BraceStep
  <2>7. IsSeq(s) => IsSeq(s1)
    BY <2>5, MarkKeeps
  <2>8. OfLines(f1, n, N, Reserved)
    <3>1. OfLines(CheckEnd(Top(s), d, n), n, N, Reserved) /\ OfLines(<< >>, n, N, Reserved)
      BY EndErrors, NoErrors
    <3>2. QED
      BY <2>5, <3>1 DEF ClosedBy
  <2>9. OfLines(e1, n, N, Reserved)
    BY <2>2, <2>5, <2>8, BothErrors
  <2>10. QED
    BY <2>2, <2>3, <2>6, <2>7, <2>9 DEF P
<1>10. T = Nat
  BY <1>8, <1>9, AllNumbers
<1>11. P(b)
  BY <1>6, <1>10
<1>12. PICK s, e : b = [stack |-> s, errors |-> e] /\ OfLines(e, n, N, Reserved) /\ (IsSeq(stack) => IsSeq(s))
  BY <1>11 DEF P
<1>13. QED
  BY <1>12

\* Counting the parentheses leaves a stack.
LEMMA ParenthesesKeep ==
  ASSUME NEW stack, IsSeq(stack), NEW toks
  PROVE  IsSeq(CountParentheses(stack, toks))
<1>1. PICK x, y : CountParentheses(stack, toks) = stack
                  \/ CountParentheses(stack, toks) =
                       [stack EXCEPT ![Len(stack)].open_parentheses = x, ![Len(stack)].inline_asm = y]
  BY Zenon DEF CountParentheses
<1>2. PICK s : s = [stack EXCEPT ![Len(stack)].open_parentheses = x]
  OBVIOUS
<1>3. PICK e : s = [stack EXCEPT ![Len(stack)] = e]
  BY <1>2
<1>4. IsSeq(s)
  BY <1>3, SeqOther
<1>5. PICK t : t = [stack EXCEPT ![Len(stack)].open_parentheses = x, ![Len(stack)].inline_asm = y]
  OBVIOUS
<1>6. PICK e2 : t = [s EXCEPT ![Len(stack)] = e2]
  BY <1>2, <1>5
<1>7. IsSeq(t)
  BY <1>4, <1>6, SeqOther
<1>8. QED
  BY <1>1, <1>5, <1>7

\* What a line does to the blocks.
LEMMA BlocksKeep ==
  ASSUME NEW N \in Nat, NEW n \in 1 .. N, NEW d, IsSeq(d.elided[n].toks), NEW stack,
         NEW b, b = UpdateBlocks(stack, d, n)
  PROVE  OfLines(b.errors, n, N, Reserved) /\ (IsSeq(stack) => IsSeq(b.stack))
<1>1. PICK toks, s : toks = d.elided[n].toks /\ s = CountParentheses(stack, toks)
  OBVIOUS
<1>2. PICK r : r = ConsumeNamespaces(s, toks, n)
  OBVIOUS
<1>3. PICK c : c = ConsumeClass(r, d, n)
  OBVIOUS
<1>4. b = ConsumeRest(c, d, n)
  BY <1>1, <1>2, <1>3, Zenon DEF UpdateBlocks
<1>5. IsSeq(stack) => IsSeq(s)
  BY <1>1, ParenthesesKeep
<1>6. IsSeq(r.toks) /\ (IsSeq(s) => IsSeq(r.stack))
  BY <1>1, <1>2, NamespacesKeep
<1>7. IsSeq(c.toks) /\ (IsSeq(r.stack) => IsSeq(c.stack))
  BY <1>3, <1>6, ClassKeeps
<1>8. PICK cs, ct : cs = c.stack /\ ct = c.toks
  OBVIOUS
<1>9. PICK f : f = ConsumeBraces(cs, ct, d, n)
  OBVIOUS
<1>10. /\ f = [stack |-> f.stack, errors |-> f.errors]
       /\ OfLines(f.errors, n, N, Reserved) /\ (IsSeq(cs) => IsSeq(f.stack))
  <2>1. IsSeq(ct)
    BY <1>7, <1>8
  <2>2. QED
    BY <1>9, <2>1, BracesKeep
<1>11. PICK A : A = CheckAccess(cs, ct, d.elided[n], n)
  OBVIOUS
<1>12. b = [f EXCEPT !.errors = A \o @]
  BY <1>4, <1>8, <1>9, <1>11 DEF ConsumeRest
<1>13. b.errors = A \o f.errors /\ b.stack = f.stack
  BY <1>10, <1>12
<1>14. OfLines(A, n, N, Reserved)
  BY <1>11, AccessErrors
<1>15. OfLines(b.errors, n, N, Reserved)
  BY <1>10, <1>13, <1>14, BothErrors
<1>16. QED
  BY <1>5, <1>6, <1>7, <1>8, <1>10, <1>13, <1>15

\* What Update reports, it reports of this line or of the one where a block began.
LEMMA UpdateErrors ==
  ASSUME NEW N \in Nat, NEW n \in 1 .. N, NEW d, IsSeq(d.elided[n].toks), NEW ns
  PROVE  OfLines(Update(ns, d, n).errors, n, N, Reserved)
<1>1. PICK stack : Update(ns, d, n).errors = UpdateBlocks(stack, d, n).errors
  BY DEF Update
<1>2. OfLines(UpdateBlocks(stack, d, n).errors, n, N, Reserved)
  BY BlocksKeep
<1>3. QED
  BY <1>1, <1>2

\* The blocks of a text are a sequence.
LEMMA BlocksSeq ==
  ASSUME NEW d, NEW N \in Nat, N = NumLines(d), \A k \in 1 .. N : IsSeq(d.elided[k].toks), NEW now, NEW m \in 0 .. N
  PROVE  IsSeq(BlocksOf(d, now)[m])
<1>1. PICK f : f = BlocksOf(d, now)
  OBVIOUS
<1>2. \A k \in 0 .. N : f[k] = IF k = 0 THEN << >> ELSE BlocksStep(f[k - 1], d, now, k)
  BY <1>1, BlocksDef
<1> DEFINE T == {k \in Nat : k <= N => IsSeq(f[k])}
<1>3. 0 \in T
  <2>1. f[0] = << >>
    BY <1>2
  <2>2. QED
    BY <2>1, SeqNone
<1>4. ASSUME NEW k \in T
      PROVE  k + 1 \in T
  <2>1. SUFFICES ASSUME k + 1 <= N
                 PROVE  IsSeq(f[k + 1])
    OBVIOUS
  <2>2. PICK p : p = k + 1
    OBVIOUS
  <2>3. p \in 1 .. N /\ p \in 0 .. N /\ p # 0 /\ p - 1 = k
    BY <2>1, <2>2
  <2>4. f[p] = BlocksStep(f[k], d, now, p) /\ IsSeq(f[k])
    BY <1>2, <2>1, <2>3
  <2>5. IsSeq(UpdateBlocks(f[k], d, p).stack)
    BY <2>3, <2>4, BlocksKeep
  <2>6. IsSeq(f[p])
    BY <2>4, <2>5 DEF BlocksStep
  <2>7. QED
    BY <2>2, <2>6
<1>5. m \in T
  <2>1. T = Nat
    BY <1>3, <1>4, AllNumbers
  <2>2. QED
    BY <2>1
<1>6. QED
  BY <1>1, <1>5

------------------------------------------------------------------------------
(* The file that is gone through. *)

View == [doc |-> doc, cppvar |-> files[file].cppvar, guarded |-> files[file].ext \in headers,
         global |-> GlobalOf(file), filters |-> FiltersOf(file), verbose |-> options.verbose]

\* The view, field by field.
LEMMA ViewParts ==
  /\ View.doc = doc /\ View.cppvar = files[file].cppvar /\ (View.guarded <=> files[file].ext \in headers)
  /\ View.global = GlobalOf(file) /\ View.filters = FiltersOf(file) /\ View.verbose = options.verbose
BY DEF View

\* The same, in the next state.
LEMMA ViewPartsNext ==
  (/\ View.doc = doc /\ View.cppvar = files[file].cppvar /\ (View.guarded <=> files[file].ext \in headers)
   /\ View.global = GlobalOf(file) /\ View.filters = FiltersOf(file) /\ View.verbose = options.verbose)'
BY ViewParts, PTL

\* ReadAhead, in terms of the view.
LEMMA AheadIsIn == \A k : ReadAhead(k) <=> ReadAheadIn(View, k)
<1>1. View.doc = doc /\ (View.guarded <=> files[file].ext \in headers)
  BY DEF View
<1>2. QED
  BY <1>1, Zenon DEF ReadAhead, ReadAheadIn, GuardLine, GuardLineIn

\* DueAreReported, in terms of the view.
LEMMA ViewIs == DueAreReported <=> ReportedIn(View, found, reported)
<1>1. /\ View.doc = doc /\ View.cppvar = files[file].cppvar /\ (View.guarded <=> files[file].ext \in headers)
      /\ View.global = GlobalOf(file) /\ View.filters = FiltersOf(file) /\ View.verbose = options.verbose
  BY DEF View
<1>2. PICK v : v = View
  OBVIOUS
<1>0. ASSUME NEW e
      PROVE  FoundAt(e) = FoundAtIn(v, e)
  BY <1>1, <1>2, Zenon DEF FoundAt, FoundAtIn
<1>3. ASSUME NEW e
      PROVE  Judged(e) <=> JudgedIn(v, e)
  <2>1. \A k : ReadAhead(k) <=> ReadAheadIn(v, k)
    BY <1>2, AheadIsIn
  <2>2. QED
    BY <1>0, <1>1, <1>2, <2>1, Zenon DEF Judged, JudgedIn
<1>4. ASSUME NEW e
      PROVE  Silenced(e) <=> SilencedIn(v, e)
  <2>1. \A k : ReadBefore(e, k) <=> ReadIn(v, e, k)
    BY <1>0, <1>1, <1>2, Zenon DEF ReadBefore, ReadIn, GuardReads
  <2>2. QED
    BY <1>1, <1>2, <2>1, Zenon DEF Silenced, SilencedIn
<1>5. ASSUME NEW e
      PROVE  Due(e) <=> DueIn(v, e)
  BY <1>1, <1>2, <1>3, <1>4, Zenon DEF Due, DueIn
<1>6. {e \in ToSet(reported) : Judged(e)} = {e \in ToSet(reported) : JudgedIn(v, e)}
  BY <1>3
<1>7. {e \in ToSet(found) : Due(e)} = {e \in ToSet(found) : DueIn(v, e)}
  BY <1>5
<1>8. QED
  BY <1>2, <1>6, <1>7 DEF DueAreReported, ReportedIn

\* The same, in the next state.
LEMMA ViewIsNext == (DueAreReported <=> ReportedIn(View, found, reported))'
BY ViewIs, PTL

\* What ReportsInv says of the suppressions.
InForce ==
  \E K \in SUBSET DOMAIN doc.raw_lines :
    /\ 1 .. linenum - 1 \subseteq K
    /\ \A k \in K : k < linenum \/ ReadAhead(k)
    /\ suppress.lines = SaidIn(K)
Lined == /\ suppress = [lines |-> suppress.lines, global |-> GlobalOf(file)]
         /\ NumLines(doc) \in Nat /\ DOMAIN doc.raw_lines = 1 .. NumLines(doc) /\ linenum \in 1 .. NumLines(doc) + 1

\* The same, in terms of the view.
LEMMA KnownIs == Lined => (InForce <=> Known(View, suppress, linenum - 1))
<1>1. SUFFICES ASSUME Lined
               PROVE  InForce <=> Known(View, suppress, linenum - 1)
  OBVIOUS
<1>2. PICK v, raw, N, n, sup : /\ v = View /\ raw = doc.raw_lines /\ N = NumLines(doc) /\ n = linenum - 1 /\ sup = suppress
  OBVIOUS
<1>3. v.doc.raw_lines = raw /\ v.global = GlobalOf(file)
  BY <1>2 DEF View
<1>4. /\ sup = [lines |-> sup.lines, global |-> v.global]
      /\ N \in Nat /\ DOMAIN raw = 1 .. N /\ n \in 0 .. N /\ linenum = n + 1
  BY <1>1, <1>2, <1>3 DEF Lined
<1>5. \A k : ReadAhead(k) <=> ReadAheadIn(v, k)
  BY <1>2, AheadIsIn
<1>6. ASSUME NEW K \in SUBSET DOMAIN raw
      PROVE  Said(v, sup, K) <=> sup.lines = SaidIn(K)
  <2>1. \A s : s \in SaidIn(K) <=> \E k \in K : Heeded(raw[k]) /\ s = By(raw[k], k)
    BY <1>2 DEF SaidIn
  <2>2. Said(v, sup, K) <=> /\ \A s \in sup.lines : s \in SaidIn(K)
                            /\ \A k \in K : Heeded(raw[k]) => By(raw[k], k) \in sup.lines
    <3>1. \A k : k \in DOMAIN raw /\ k \in K <=> k \in K
      OBVIOUS
    <3>2. QED
      BY <1>3, <1>4, <2>1, <3>1, Zenon DEF Said
  <2>3. QED
    BY <2>1, <2>2
<1>7. ASSUME NEW K \in SUBSET DOMAIN raw
      PROVE  Upto(v, K, n) <=> 1 .. n \subseteq K /\ \A k \in K : k < n + 1 \/ ReadAheadIn(v, k)
  <2>1. \A k \in DOMAIN raw : (k <= n <=> k \in 1 .. n) /\ (k <= n <=> k < n + 1)
    BY <1>4
  <2>2. 1 .. n \subseteq DOMAIN raw
    BY <1>4
  <2>3. QED
    BY <1>3, <2>1, <2>2 DEF Upto
<1>8. ASSUME Known(v, sup, n)
      PROVE  InForce
  <2>1. PICK J : Said(v, sup, J) /\ Upto(v, J, n)
    BY <1>8 DEF Known
  <2>2. PICK K : K = J \cap DOMAIN raw
    OBVIOUS
  <2>3. K \in SUBSET DOMAIN raw /\ \A k \in DOMAIN raw : k \in K <=> k \in J
    BY <2>2
  <2>4. Said(v, sup, K) /\ Upto(v, K, n)
    BY <1>3, <2>1, <2>3, Zenon DEF Said, Upto
  <2>5. sup.lines = SaidIn(K) /\ 1 .. n \subseteq K /\ \A k \in K : k < n + 1 \/ ReadAheadIn(v, k)
    BY <1>6, <1>7, <2>3, <2>4
  <2>6. QED
    BY <1>2, <1>4, <1>5, <2>3, <2>5, Zenon DEF InForce
<1>9. ASSUME InForce
      PROVE  Known(v, sup, n)
  <2>1. PICK K \in SUBSET DOMAIN raw : /\ 1 .. n \subseteq K /\ \A k \in K : k < linenum \/ ReadAhead(k)
                                       /\ sup.lines = SaidIn(K)
    BY <1>2, <1>9, Zenon DEF InForce
  <2>2. \A k \in K : k < n + 1 \/ ReadAheadIn(v, k)
    BY <1>4, <1>5, <2>1, Zenon
  <2>3. Said(v, sup, K) /\ Upto(v, K, n)
    BY <1>6, <1>7, <2>1, <2>2
  <2>4. QED
    BY <2>3 DEF Known
<1>10. QED
  BY <1>2, <1>8, <1>9

\* The same, in the next state.
LEMMA KnownIsNext == (Lined => (InForce <=> Known(View, suppress, linenum - 1)))'
BY KnownIs, PTL

\* While the lines are gone through.
LEMMA InView ==
  ASSUME LintTyped, DocInv, Afresh, ReportsInv, pc = "lines"
  PROVE  /\ SettingsOf(View, state) /\ Known(View, suppress, linenum - 1)
         /\ Right(View, [state |-> state, found |-> found, reported |-> reported])
<1>1. PICK v : v = View
  OBVIOUS
<1>2. v.doc = doc /\ v.global = GlobalOf(file) /\ v.filters = FiltersOf(file) /\ v.verbose = options.verbose
  BY <1>1 DEF View
<1>3. state.filters = v.filters /\ state.verbose_level = v.verbose /\ suppress.global = v.global
  BY <1>2 DEF Afresh, FilesStartAfresh
<1>4. SettingsOf(v, state)
  BY <1>3 DEF SettingsOf, ReportsInv
<1>5. Known(v, suppress, linenum - 1)
  <2>1. suppress = [lines |-> suppress.lines, global |-> v.global]
    BY <1>3 DEF Afresh, FreshInv
  <2>2. Lined
    <3>1. suppress = [lines |-> suppress.lines, global |-> GlobalOf(file)]
      BY <1>2, <2>1
    <3>2. NumLines(doc) \in Nat /\ DOMAIN doc.raw_lines = 1 .. NumLines(doc) /\ linenum \in 1 .. NumLines(doc) + 1
      BY DocOfText DEF DocInv, InText
    <3>3. QED
      BY <3>1, <3>2, Zenon DEF Lined
  <2>3. InForce
    BY Zenon DEF ReportsInv, InForce
  <2>4. QED
    BY <1>1, <2>2, <2>3, KnownIs
<1>6. Right(v, [state |-> state, found |-> found, reported |-> reported])
  <2>1. PICK U : U = ToSet(found) \cup ToSet(reported)
    OBVIOUS
  <2>2. found \in Seq(ToSet(found)) /\ reported \in Seq(ToSet(reported)) /\ DueAreReported
    BY DEF ReportsInv
  <2>3. found \in Seq(U) /\ reported \in Seq(U)
    <3>1. PICK A, B : A = ToSet(found) /\ B = ToSet(reported)
      OBVIOUS
    <3>2. found \in Seq(A) /\ reported \in Seq(B) /\ A \subseteq U /\ B \subseteq U
      BY <2>1, <2>2, <3>1
    <3>3. QED
      BY <3>2
  <2>4. ReportedIn(v, found, reported)
    BY <1>1, <2>2, ViewIs
  <2>5. PICK log : log = [state |-> state, found |-> found, reported |-> reported]
    OBVIOUS
  <2>6. LogOf(v, U, log)
    BY <2>3, <2>4, <2>5 DEF LogOf
  <2>7. QED
    BY <2>5, <2>6 DEF Right
<1>7. QED
  BY <1>1, <1>4, <1>5, <1>6

\* No step of a file touches it.
LEMMA SameView ==
  ASSUME UNCHANGED <<lintInput, file, doc, settings>>
  PROVE  View' = View
<1>1. scenario' = scenario /\ text' = text /\ file' = file /\ doc' = doc /\ headers' = headers
  BY DEF lintInput, settings, headers
<1>2. options' = options /\ files' = files /\ configs' = configs
  BY <1>1 DEF options, files, configs
<1>3. GlobalOf(file)' = GlobalOf(file)
  BY ONLY <1>1, ZenonT(40) DEF GlobalOf, TextLines
<1>4. FiltersOf(file)' = FiltersOf(file)
  BY ONLY <1>1, <1>2, ZenonT(40) DEF FiltersOf
<1>5. QED
  BY <1>1, <1>2, <1>3, <1>4 DEF View

\* What has been reported is right by the text.
LEMMA RightIs ==
  ASSUME NEW v, NEW log, Right(v, log)
  PROVE  /\ log.found \in Seq(ToSet(log.found)) /\ log.reported \in Seq(ToSet(log.reported))
         /\ ReportedIn(v, log.found, log.reported)
<1>1. PICK U : LogOf(v, U, log)
  BY DEF Right
<1>2. PICK F, R : F = log.found /\ R = log.reported
  OBVIOUS
<1>3. F \in Seq(U) /\ R \in Seq(U)
  BY <1>1, <1>2 DEF LogOf
<1>4. F \in Seq(ToSet(F)) /\ R \in Seq(ToSet(R))
  BY <1>3, OwnElements
<1>5. QED
  BY <1>1, <1>2, <1>4 DEF LogOf

\* Errors of lines whose comments have been read are reported right.
LEMMA RightLines ==
  ASSUME NEW v, NEW N \in Nat, DOMAIN v.doc.raw_lines = 1 .. N, NEW n \in 0 .. N, NEW sup, Known(v, sup, n),
         NEW log, Right(v, log), NEW st, st = log.state, SettingsOf(v, st), NEW E, OfLines(E, n, N, GuardsOwn)
  PROVE  Right(v, Error(log, sup, E))
<1>1. PICK U : E \in Seq(U) /\ \A e \in U : e[2] \notin GuardsOwn /\ Behind(e[1], n, N)
  BY DEF OfLines
<1>2. \A e \in U : JudgedRight(v, sup, e)
  BY <1>1, RightInLines
<1>3. SettingsOf(v, log.state)
  OBVIOUS
<1>4. QED
  BY <1>1, <1>2, <1>3, RightMore

\* What one line is blamed for: E of the includes, and other errors.
Parts(L, E, asm, n, N) ==
  \E A, B, F, G :
    /\ OfLines(A, n, N, Reserved) /\ OfLines(B, n, N, Reserved)
    /\ OfLines(F, n, N, Reserved) /\ OfLines(G, n, N, Reserved)
    /\ L = A \o IF asm THEN F ELSE B \o E \o G

\* The errors of a line are those of its #include, if no assembly surrounds it, among others of
\* categories that neither the includes nor the header guard use.
LEMMA LineParts ==
  ASSUME LintTyped, DocInv, pc = "lines", linenum <= NumLines(doc),
         NEW nolint, nolint = ParseNolintSuppressions(suppress, doc.raw_lines[linenum], linenum),
         NEW functions, functions = CheckForFunctionLengths(function_state, doc, linenum, state.verbose_level),
         NEW includes, includes = UpdateIncludes(include_state, files[file], doc, linenum, nonheaders, headers),
         NEW nesting, nesting = Update(nesting_state, doc, linenum)
  PROVE  Parts(LineErrors(nolint, nesting, functions, includes), includes.errors, InAsmBlock(nesting.state), linenum, NumLines(doc))
<1>1. PICK N, n : N = NumLines(doc) /\ n = linenum
  OBVIOUS
<1>2. N \in Nat /\ n \in 1 .. N /\ n \in DOMAIN doc.elided
  BY <1>1, DocOfText DEF DocInv, InText
<1>3. PICK lines : lines = TextLines(file)
  OBVIOUS
<1>4. lines \in Seq({Line[k] : k \in DOMAIN Line}) /\ doc = CleansedLines(RemoveMultiLineComments(lines).lines)
  BY <1>3, LinesOfText DEF DocInv, InText
<1>5. LineOK(doc.elided[n])
  BY <1>2, <1>4, ElidedLine
<1>6. PICK E1, E2, E3, E4, E5, E6, E7, E8 :
        /\ E1 = nolint.errors /\ E2 = nesting.errors /\ E3 = CheckForNamespaceIndentation(nesting.state, doc, n)
        /\ E4 = SetToSeq({e \in FoundIn(doc.elided[n], n) : e[2] = "build/c++11"})
        /\ E5 = functions.errors /\ E6 = CheckStyle(nesting.state, doc, n, _line_length)
        /\ E7 = includes.errors /\ E8 = SetToSeq(FoundIn(doc.elided[n], n))
  OBVIOUS
<1>7. OfLines(E1, n, N, Reserved)
  <2>1. PICK l : l = doc.raw_lines[n]
    OBVIOUS
  <2>2. nolint = ParseNolintSuppressions(suppress, l, n)
    BY <1>1, <2>1
  <2>3. E1 = << >> \/ E1 = <<<<n, "readability/nolint", 5>>>>
    <3>1. nolint.errors = << >> \/ nolint.errors = <<<<n, "readability/nolint", 5>>>>
      <4>1. PICK x, y : nolint = [state |-> x, errors |-> << >>] \/ nolint = [state |-> y, errors |-> <<<<n, "readability/nolint", 5>>>>]
        BY <2>2, Zenon DEF ParseNolintSuppressions
      <4>2. QED
        BY <4>1
    <3>2. QED
      BY <1>6, <3>1
  <2>4. Behind(n, n, N)
    BY <1>2, BehindIt
  <2>5. OfLines(<< >>, n, N, Reserved) /\ OfLines(<<<<n, "readability/nolint", 5>>>>, n, N, Reserved)
    BY <2>4, NoErrors, OneError DEF Reserved, GuardsOwn
  <2>6. QED
    BY <2>3, <2>5
<1>8. OfLines(E2, n, N, Reserved)
  <2>1. IsSeq(doc.elided[n].toks)
    BY <1>5 DEF LineOK
  <2>2. QED
    BY <1>1, <1>2, <1>6, <2>1, UpdateErrors
<1>9. OfLines(E3, n, N, Reserved)
  BY <1>2, <1>6, IndentationErrors
<1>10. OfLines(E4, n, N, Reserved) /\ OfLines(E8, n, N, Reserved)
  <2>1. PICK l : l = doc.elided[n]
    OBVIOUS
  <2>2. PICK S : S = {e \in FoundIn(l, n) : e[2] = "build/c++11"}
    OBVIOUS
  <2>3. S \subseteq FoundIn(l, n) /\ FoundIn(l, n) \subseteq FoundIn(l, n) /\ LineOK(l)
    BY <1>5, <2>1, <2>2
  <2>4. OfLines(SetToSeq(S), n, N, Reserved) /\ OfLines(SetToSeq(FoundIn(l, n)), n, N, Reserved)
    BY <1>2, <2>3, FoundErrors
  <2>5. QED
    BY <1>6, <2>1, <2>2, <2>4
<1>11. OfLines(E5, n, N, Reserved)
  BY <1>1, <1>2, <1>6, FunctionErrors
<1>12. OfLines(E6, n, N, Reserved)
  BY <1>2, <1>6, StyleErrors
<1>13. PICK A, B : A = E1 \o E2 \o E3 /\ B = E5 \o E6
  OBVIOUS
<1>14. OfLines(A, n, N, Reserved)
  <2>1. OfLines(E1 \o E2, n, N, Reserved)
    BY <1>7, <1>8, BothErrors
  <2>2. OfLines((E1 \o E2) \o E3, n, N, Reserved)
    BY <1>9, <2>1, BothErrors
  <2>3. QED
    BY <1>13, <2>2
<1>15. OfLines(B, n, N, Reserved)
  BY <1>11, <1>12, <1>13, BothErrors
<1>16. LineErrors(nolint, nesting, functions, includes) =
         E1 \o E2 \o E3 \o IF InAsmBlock(nesting.state) THEN E4 ELSE E5 \o E6 \o E7 \o E8
  BY <1>1, <1>6, Zenon DEF LineErrors
<1>17. LineErrors(nolint, nesting, functions, includes) =
         A \o IF InAsmBlock(nesting.state) THEN E4 ELSE B \o includes.errors \o E8
  BY <1>6, <1>13, <1>16, Zenon
<1>18. /\ OfLines(A, linenum, NumLines(doc), Reserved) /\ OfLines(B, linenum, NumLines(doc), Reserved)
       /\ OfLines(E4, linenum, NumLines(doc), Reserved) /\ OfLines(E8, linenum, NumLines(doc), Reserved)
  BY <1>1, <1>10, <1>14, <1>15
<1>19. QED
  BY <1>17, <1>18, Zenon DEF Parts

\* None of the errors of a line is about the header guard.
LEMMA LineIsBlamed ==
  ASSUME LintTyped, DocInv, pc = "lines", linenum <= NumLines(doc),
         NEW nolint, nolint = ParseNolintSuppressions(suppress, doc.raw_lines[linenum], linenum),
         NEW functions, functions = CheckForFunctionLengths(function_state, doc, linenum, state.verbose_level),
         NEW includes, includes = UpdateIncludes(include_state, files[file], doc, linenum, nonheaders, headers),
         NEW nesting, nesting = Update(nesting_state, doc, linenum)
  PROVE  OfLines(LineErrors(nolint, nesting, functions, includes), linenum, NumLines(doc), GuardsOwn)
<1>1. PICK N, n : N = NumLines(doc) /\ n = linenum
  OBVIOUS
<1>2. N \in Nat /\ n \in 1 .. N
  BY <1>1, DocOfText DEF DocInv, InText
<1>3. PICK A, B, F, G :
           /\ OfLines(A, n, N, Reserved) /\ OfLines(B, n, N, Reserved)
           /\ OfLines(F, n, N, Reserved) /\ OfLines(G, n, N, Reserved)
           /\ LineErrors(nolint, nesting, functions, includes) =
                A \o IF InAsmBlock(nesting.state) THEN F ELSE B \o includes.errors \o G
  <2>1. Parts(LineErrors(nolint, nesting, functions, includes), includes.errors, InAsmBlock(nesting.state), n, N)
    BY <1>1, LineParts
  <2>2. QED
    BY <2>1, Zenon DEF Parts
<1>4. OfLines(A, n, N, GuardsOwn) /\ OfLines(B, n, N, GuardsOwn) /\ OfLines(F, n, N, GuardsOwn) /\ OfLines(G, n, N, GuardsOwn)
  BY <1>3, FewerReserved
<1>5. PICK E : E = includes.errors
  OBVIOUS
<1>6. OfLines(E, n, N, GuardsOwn)
  BY <1>1, <1>2, <1>5, IncludeErrors
<1>7. OfLines(A \o F, n, N, GuardsOwn)
  BY <1>4, BothErrors
<1>8. OfLines(A \o (B \o E \o G), n, N, GuardsOwn)
  <2>1. OfLines(B \o E, n, N, GuardsOwn)
    BY <1>4, <1>6, BothErrors
  <2>2. OfLines((B \o E) \o G, n, N, GuardsOwn)
    BY <1>4, <2>1, BothErrors
  <2>3. QED
    BY <1>4, <2>2, BothErrors
<1>9. PICK L : L = LineErrors(nolint, nesting, functions, includes)
  OBVIOUS
<1>10. L = A \o F \/ L = A \o (B \o E \o G)
  <2>1. CASE InAsmBlock(nesting.state)
    BY <1>3, <1>9, <2>1, Zenon
  <2>2. CASE ~InAsmBlock(nesting.state)
    BY <1>3, <1>5, <1>9, <2>2, Zenon
  <2>3. QED
    BY <2>1, <2>2
<1>11. QED
  BY <1>1, <1>7, <1>8, <1>9, <1>10

\* One more line has been read, of those up to n or of those read ahead.
LEMMA UptoMore ==
  ASSUME NEW v, NEW N \in Nat, DOMAIN v.doc.raw_lines = 1 .. N, NEW n, NEW K, Upto(v, K, n),
         NEW j, j \in 1 .. N => j <= n \/ ReadAheadIn(v, j)
  PROVE  Upto(v, K \cup {j}, n)
BY DEF Upto

\* What is wrong with a body is one error, of the line the condition ends in.
LEMMA BodyIs ==
  ASSUME NEW d, NEW k, NEW E, E = CheckEmptyBlockBody(d, k)
  PROVE  E = << >> \/ \E e : E = <<e>> /\ e[2] \in EmptyBodies
<1>1. PICK keyword, end : keyword = TokenAt(d.elided[k], 1) /\ end = CloseExpression(d, k, 2)
  OBVIOUS
<1>2. PICK category : category = IF keyword = "if" THEN "whitespace/empty_conditional_body" ELSE "whitespace/empty_loop_body"
  OBVIOUS
<1>3. \/ E = << >> \/ E = <<<<end.linenum, category, 5>>>>
      \/ E = <<<<end.linenum, "whitespace/empty_if_body", 4>>>>
  BY <1>1, <1>2, Zenon DEF CheckEmptyBlockBody, EmptyBody
<1>4. category \in EmptyBodies /\ "whitespace/empty_if_body" \in EmptyBodies
  BY <1>2 DEF EmptyBodies
<1>5. PICK e, f : e = <<end.linenum, category, 5>> /\ f = <<end.linenum, "whitespace/empty_if_body", 4>>
  OBVIOUS
<1>6. e[2] = category /\ f[2] = "whitespace/empty_if_body"
  BY <1>5
<1>7. E = << >> \/ E = <<e>> \/ E = <<f>>
  BY <1>3, <1>5, Zenon
<1>8. e[2] \in EmptyBodies /\ f[2] \in EmptyBodies
  BY <1>4, <1>6
<1>9. QED
  BY <1>7, <1>8, Zenon

\* An empty body is judged right when it is found: of the comments that speak of it, those up to
\* the head of its condition are read, and if those behind do not stay open none of them is.
LEMMA BodyRight ==
  ASSUME NEW v, NEW N \in Nat, DOMAIN v.doc.raw_lines = 1 .. N, DOMAIN v.doc.elided = 1 .. N, NEW n \in 1 .. N,
         NEW sup, NEW K, Said(v, sup, K), Upto(v, K, n),
         NEW e, CheckEmptyBlockBody(v.doc, n) = <<e>>, e[2] \in EmptyBodies
  PROVE  JudgedRight(v, sup, e)
<1>1. SUFFICES ASSUME JudgedIn(v, e)
               PROVE  JudgedRight(v, sup, e)
  BY DEF JudgedRight
<1>2. n \in FoundAtIn(v, e)
  <2>1. PICK E : E = CheckEmptyBlockBody(v.doc, n)
    OBVIOUS
  <2>2. E = <<e>>
    BY <2>1
  <2>3. e \in ToSet(E)
    BY <2>2 DEF ToSet
  <2>4. QED
    BY <2>1, <2>3 DEF FoundAtIn
<1>3. PICK F : F = FoundAtIn(v, e)
  OBVIOUS
<1>4. n \in F /\ F \subseteq 1 .. N
  BY <1>2, <1>3 DEF FoundAtIn
<1>5. e[2] # "build/header_guard"
  BY DEF EmptyBodies
<1>6. \A k : ReadIn(v, e, k) <=> \A h \in F : k <= h
  BY <1>3, <1>5 DEF ReadIn
<1>7. ASSUME NEW k \in DOMAIN v.doc.raw_lines, NEW h \in F, Speaks(v.doc.raw_lines[k], k, e[1]), k > h
      PROVE  ~ReadAheadIn(v, k) /\ \A u \in F : k > u
  BY <1>1, <1>3, <1>7, Zenon DEF JudgedIn
<1>8. ASSUME NEW k \in DOMAIN v.doc.raw_lines, Speaks(v.doc.raw_lines[k], k, e[1])
      PROVE  k \in K <=> ReadIn(v, e, k)
  <2>1. k \in 1 .. N /\ (k \in K => k <= n \/ ReadAheadIn(v, k)) /\ (k <= n => k \in K)
    BY <1>8 DEF Upto
  <2>2. ASSUME ReadIn(v, e, k)
        PROVE  k \in K
    BY <1>4, <1>6, <2>1, <2>2
  <2>3. ASSUME k \in K, NEW h \in F
        PROVE  k <= h
    <3>1. SUFFICES ASSUME k > h
                   PROVE  FALSE
      BY <1>4, <2>1
    <3>2. ~ReadAheadIn(v, k) /\ k > n
      BY <1>4, <1>7, <1>8, <3>1
    <3>3. QED
      BY <2>1, <2>3, <3>2
  <2>4. QED
    BY <1>6, <2>2, <2>3
<1>9. QED
  BY <1>8, RightAhead

\* CheckTrailingSemicolon keeps the report right.
LEMMA SemicolonRight ==
  ASSUME NEW v, NEW N, NEW n, v.doc = doc, N = NumLines(doc), n = linenum, N \in Nat, n \in 1 .. N,
         DOMAIN v.doc.raw_lines = 1 .. N, NEW was, SettingsOf(v, was), NEW own, NEW K, GoodAt(v, was, own, K), Upto(v, K, n),
         NEW s, s = TrailingSemicolon(doc, linenum), s # 0, NEW raw, raw = doc.raw_lines, NEW before, NEW there, NEW blamed,
         before = AheadStep(own, <<"parse", s - 1>>, raw), there = AheadStep(before, <<"parse", s>>, raw),
         blamed = AheadStep(there, <<"error", <<s, "readability/braces", 4>>>>, raw)
  PROVE  \E J : GoodAt(v, was, blamed, J) /\ Upto(v, J, n)
<1>1. s \in Int /\ s <= N /\ s >= n
  BY TrailingIs
<1>2. PICK j : j = s - 1
  OBVIOUS
<1>3. j \in 0 .. N /\ s \in 1 .. N /\ s \in 0 .. N /\ s = j + 1 /\ n <= s /\ n <= j + 1
  BY <1>1, <1>2
<1>4. ASSUME NEW k \in 1 .. N, k = j \/ k = s, ~(k <= n)
      PROVE  ReadAheadIn(v, k)
  <2>1. n \in 1 .. k - 1 /\ s \in {k, k + 1}
    BY <1>3, <1>4
  <2>2. TrailingSemicolon(v.doc, n) = s
    OBVIOUS
  <2>3. QED
    BY <2>1, <2>2 DEF ReadAheadIn
<1>5. PICK J, L : J = K \cup {j} /\ L = J \cup {s}
  OBVIOUS
<1>6. Upto(v, J, n) /\ Upto(v, L, n)
  <2>1. Upto(v, K \cup {j}, n)
    BY <1>4, UptoMore
  <2>2. Upto(v, J, n)
    BY <1>5, <2>1
  <2>3. Upto(v, J \cup {s}, n)
    BY <1>4, <2>2, UptoMore
  <2>4. QED
    BY <1>5, <2>2, <2>3
<1>7. raw = v.doc.raw_lines
  OBVIOUS
<1>8. GoodAt(v, was, before, J)
  <2>1. ASSUME j # 0
        PROVE  ReadAheadIn(v, j) \/ \A k \in DOMAIN raw : Speaks(raw[k], k, j) => k \in K \cup {j}
    <3>1. CASE j <= n
      <4>1. ASSUME NEW k \in 1 .. N, Speaks(raw[k], k, j)
            PROVE  k <= n
        BY <1>3, <3>1, <4>1 DEF Speaks
      <4>2. QED
        BY <1>7, <4>1 DEF Upto
    <3>2. CASE ~(j <= n)
      <4>1. j \in 1 .. N
        BY <1>3, <2>1
      <4>2. QED
        BY <1>4, <3>2, <4>1
    <3>3. QED
      BY <3>1, <3>2
  <2>2. GoodAt(v, was, AheadStep(own, <<"parse", j>>, raw), K \cup {j})
    BY <1>3, <1>7, <2>1, ParseRight
  <2>3. QED
    BY <1>2, <1>5, <2>2, Zenon
<1>9. GoodAt(v, was, there, L)
  <2>1. ASSUME NEW k \in DOMAIN raw, Speaks(raw[k], k, s)
        PROVE  k \in J \cup {s}
    <3>1. k \in 1 .. N /\ (s = k \/ s = k + 1)
      BY <1>7, <2>1 DEF Speaks
    <3>2. k = s \/ k = j
      BY <1>3, <3>1
    <3>3. QED
      BY <1>5, <3>2
  <2>2. GoodAt(v, was, AheadStep(before, <<"parse", s>>, raw), J \cup {s})
    BY <1>3, <1>7, <1>8, <2>1, ParseRight
  <2>3. QED
    BY <1>5, <2>2, Zenon
<1>10. PICK e : e = <<s, "readability/braces", 4>>
  OBVIOUS
<1>11. e[1] = s /\ e[2] = "readability/braces"
  BY <1>10
<1>12. ASSUME NEW k \in DOMAIN raw, Speaks(raw[k], k, e[1])
       PROVE  k \in L <=> ReadIn(v, e, k)
  <2>1. k \in 1 .. N /\ (s = k \/ s = k + 1)
    BY <1>7, <1>11, <1>12 DEF Speaks
  <2>2. k = s \/ k = j
    BY <1>3, <2>1
  <2>3. QED
    BY <1>5, <1>11, <2>2 DEF ReadIn, EmptyBodies
<1>13. GoodAt(v, was, AheadStep(there, <<"error", e>>, raw), L)
  BY <1>7, <1>9, <1>12, BlameRight
<1>14. GoodAt(v, was, blamed, L)
  BY <1>10, <1>13, Zenon
<1>15. QED
  BY <1>6, <1>14

\* Looking ahead keeps the report right.
LEMMA AheadRight ==
  ASSUME NEW v, NEW N, NEW n, v.doc = doc, N = NumLines(doc), n = linenum, N \in Nat, n \in 1 .. N,
         DOMAIN v.doc.raw_lines = 1 .. N, DOMAIN v.doc.elided = 1 .. N,
         NEW was, SettingsOf(v, was), NEW own, NEW K, GoodAt(v, was, own, K), Upto(v, K, n)
  PROVE  \E J : GoodAt(v, was, CheckAhead(own), J) /\ Upto(v, J, n)
<1>1. PICK s, raw : s = TrailingSemicolon(doc, linenum) /\ raw = doc.raw_lines
  OBVIOUS
<1>2. PICK before, there, blamed, now :
        /\ before = AheadStep(own, <<"parse", s - 1>>, raw) /\ there = AheadStep(before, <<"parse", s>>, raw)
        /\ blamed = AheadStep(there, <<"error", <<s, "readability/braces", 4>>>>, raw)
        /\ (s = 0 /\ now = own) \/ (s # 0 /\ now = blamed)
        /\ CheckAhead(own) = [log |-> Error(now.log, now.suppress, CheckEmptyBlockBody(doc, linenum)),
                              suppress |-> now.suppress]
  BY <1>1, AheadIs
<1>3. PICK J : GoodAt(v, was, now, J) /\ Upto(v, J, n)
  <2>1. CASE s = 0
    BY <1>2, <2>1
  <2>2. CASE s # 0
    <3>1. \E J : GoodAt(v, was, blamed, J) /\ Upto(v, J, n)
      BY <1>1, <1>2, <2>2, SemicolonRight
    <3>2. QED
      BY <1>2, <2>2, <3>1
  <2>3. QED
    BY <2>1, <2>2
<1>4. PICK E, log, sup, b : E = CheckEmptyBlockBody(doc, linenum) /\ log = now.log /\ sup = now.suppress /\ b = CheckAhead(own)
  OBVIOUS
<1>5. Right(v, log) /\ Alike(log.state, was) /\ Said(v, sup, J)
  BY <1>3, <1>4, Zenon DEF GoodAt
<1>6. Right(v, Error(log, sup, E)) /\ Alike(Error(log, sup, E).state, was)
  <2>1. CASE E = << >>
    <3>1. Right(v, Error(log, sup, << >>)) /\ Alike(Error(log, sup, << >>).state, was)
      BY <1>5, NoneRight
    <3>2. QED
      BY <2>1, <3>1, Zenon
  <2>2. CASE \E e : E = <<e>> /\ e[2] \in EmptyBodies
    <3>1. PICK e : E = <<e>> /\ e[2] \in EmptyBodies
      BY <2>2
    <3>2. CheckEmptyBlockBody(v.doc, n) = <<e>>
      BY <1>4, <3>1
    <3>3. JudgedRight(v, sup, e)
      BY <1>3, <1>5, <3>1, <3>2, BodyRight
    <3>4. Right(v, Error(log, sup, <<e>>)) /\ Alike(Error(log, sup, <<e>>).state, was)
      BY <1>5, <3>3, OneRight
    <3>5. QED
      BY <3>1, <3>4, Zenon
  <2>3. QED
    BY <1>4, <2>1, <2>2, BodyIs
<1>7. b = [log |-> Error(log, sup, E), suppress |-> sup]
  BY <1>2, <1>4, Zenon
<1>8. b.log = Error(log, sup, E) /\ b.suppress = sup
  BY <1>7
<1>9. GoodAt(v, was, b, J)
  BY <1>5, <1>6, <1>8, Zenon DEF GoodAt
<1>10. QED
  BY <1>3, <1>4, <1>9, Zenon

\* A line that is gone through keeps the report right: its own comment is read before its errors are judged, each of
\* which belongs to it or to a line before, and so are those of a line ahead before one is found there, but for the
\* empty body of a condition that began before.
LEMMA LineReports ==
  ASSUME LintTyped, DocInv, Afresh, ReportsInv, ProcessLine
  PROVE  ReportsInv'
<1>1. PICK N, n : N = NumLines(doc) /\ n = linenum
  OBVIOUS
<1>2. pc = "lines" /\ linenum <= NumLines(doc)
  BY DEF ProcessLine
<1>3. N \in Nat /\ n \in 1 .. N /\ n \in 0 .. N /\ DOMAIN doc.raw_lines = 1 .. N /\ DOMAIN doc.elided = 1 .. N
  BY <1>1, <1>2, DocOfText DEF DocInv, InText
<1>4. PICK v : v = View
  OBVIOUS
<1>5. v.doc = doc /\ DOMAIN v.doc.raw_lines = 1 .. N /\ DOMAIN v.doc.elided = 1 .. N
  BY <1>3, <1>4 DEF View
<1>6. PICK log : log = [state |-> state, found |-> found, reported |-> reported]
  OBVIOUS
<1>7. SettingsOf(v, state) /\ Known(v, suppress, n - 1) /\ Right(v, log) /\ log.state = state
  BY <1>1, <1>2, <1>4, <1>6, InView
<1>8. PICK nolint, functions, includes, nesting, own, a : LineStep(nolint, functions, includes, nesting, own, a)
  BY LineIs
<1>9. PICK E : E = LineErrors(nolint, nesting, functions, includes)
  OBVIOUS
<1>10. OfLines(E, n, N, GuardsOwn)
  <2>1. /\ nolint = ParseNolintSuppressions(suppress, doc.raw_lines[linenum], linenum)
        /\ functions = CheckForFunctionLengths(function_state, doc, linenum, state.verbose_level)
        /\ includes = UpdateIncludes(include_state, files[file], doc, linenum, nonheaders, headers)
        /\ nesting = Update(nesting_state, doc, linenum)
    BY <1>8, Zenon DEF LineStep
  <2>2. QED
    BY <1>1, <1>2, <1>9, <2>1, LineIsBlamed
<1>11. PICK sup, after : sup = nolint.state /\ after = Error(log, sup, E)
  OBVIOUS
<1>12. own.log = after /\ own.suppress = sup
  <2>1. own = [log |-> after, suppress |-> sup]
    BY <1>6, <1>8, <1>9, <1>11, Zenon DEF LineStep
  <2>2. QED
    BY <2>1
<1>13. /\ linenum' = linenum + 1 /\ pc' = pc /\ UNCHANGED <<lintInput, file, doc, settings>>
       /\ suppress' = a.suppress /\ state' = a.log.state /\ found' = a.log.found /\ reported' = a.log.reported
       /\ a = own \/ a = CheckAhead(own)
  <2>1. linenum' = linenum + 1 /\ pc' = pc /\ UNCHANGED <<lintInput, file, doc, settings>>
    BY DEF ProcessLine
  <2>2. QED
    BY <1>8, <2>1, Zenon DEF LineStep
<1>14. Known(v, sup, n)
  <2>1. sup = ParseNolintSuppressions(suppress, v.doc.raw_lines[n], n).state
    BY <1>1, <1>5, <1>8, <1>11 DEF LineStep
  <2>2. QED
    BY <1>3, <1>5, <1>7, <2>1, OneMoreComment
<1>15. Right(v, after)
  BY <1>3, <1>5, <1>7, <1>10, <1>11, <1>14, RightLines
<1>16. Alike(after.state, state)
  <2>1. Alike(state, state)
    BY DEF Afresh, FreshInv, Alike, Fields
  <2>2. QED
    BY <1>7, <1>11, <2>1, ErrorKeeps
<1>17. PICK J : GoodAt(v, state, a, J) /\ Upto(v, J, n)
  <2>1. PICK K : Said(v, sup, K) /\ Upto(v, K, n)
    BY <1>14 DEF Known
  <2>2. GoodAt(v, state, own, K)
    BY <1>12, <1>15, <1>16, <2>1 DEF GoodAt
  <2>3. PICK was : was = state
    OBVIOUS
  <2>4. \E J : GoodAt(v, was, CheckAhead(own), J) /\ Upto(v, J, n)
    BY <1>1, <1>3, <1>5, <1>7, <2>1, <2>2, <2>3, AheadRight
  <2>5. QED
    BY <1>13, <2>1, <2>2, <2>3, <2>4
<1>18. PICK last : last = a.log
  OBVIOUS
<1>19. Right(v, last) /\ Alike(last.state, state) /\ Said(v, a.suppress, J)
  BY <1>17, <1>18, Zenon DEF GoodAt
<1>20. View' = v
  BY <1>4, <1>13, SameView
<1>21. /\ found' \in Seq(ToSet(found')) /\ reported' \in Seq(ToSet(reported'))
       /\ ReportedIn(v, found', reported')
  <2>1. /\ last.found \in Seq(ToSet(last.found)) /\ last.reported \in Seq(ToSet(last.reported))
        /\ ReportedIn(v, last.found, last.reported)
    BY <1>19, RightIs
  <2>2. QED
    BY <1>13, <1>18, <2>1
<1>22. DueAreReported'
  BY <1>20, <1>21, ViewIsNext
<1>23. state'.filters = state.filters
  BY <1>13, <1>18, <1>19 DEF Alike
<1>24. state'.filters \in Seq(ToSet(state'.filters)) /\ ~BadFilter(state'.filters)
  BY <1>2, <1>23 DEF ReportsInv
<1>25. InForce'
  <2>1. PICK now : now = suppress' /\ now = a.suppress
    BY <1>13
  <2>2. now = [lines |-> now.lines, global |-> v.global] /\ Known(v, now, n)
    BY <1>17, <1>19, <2>1, Zenon DEF Said, Known
  <2>3. v.global = GlobalOf(file)'
    BY <1>20, ViewPartsNext
  <2>4. suppress' = [lines |-> suppress'.lines, global |-> GlobalOf(file)']
    BY <2>1, <2>2, <2>3
  <2>5. doc' = doc /\ linenum' - 1 = n /\ linenum' \in 1 .. N + 1 /\ NumLines(doc') = N /\ DOMAIN doc'.raw_lines = 1 .. N
    BY <1>1, <1>3, <1>13
  <2>6. Lined'
    BY <1>3, <2>4, <2>5, Zenon DEF Lined
  <2>7. Known(View, suppress, linenum - 1)'
    BY <1>20, <2>1, <2>2, <2>5
  <2>8. QED
    BY <2>6, <2>7, KnownIsNext
<1>26. QED
  BY <1>21, <1>22, <1>24, <1>25, Zenon DEF ReportsInv, InForce

------------------------------------------------------------------------------
(* The checks at the end of the file, when all comments have been read. *)

\* Past the last line, no error comes too early.
LEMMA NoneBehind ==
  ASSUME NEW N \in Nat, NEW j
  PROVE  Behind(j, N, N)
<1>1. N + 1 .. N = {}
  OBVIOUS
<1>2. QED
  BY <1>1 DEF Behind

\* The same error several times.
LEMMA SameErrors ==
  ASSUME NEW N \in Nat, NEW m \in Nat, NEW j, NEW category, NEW c, category \notin GuardsOwn
  PROVE  OfLines([u \in 1 .. m |-> <<j, category, c>>], N, N, GuardsOwn)
<1>1. PICK e : e = <<j, category, c>>
  OBVIOUS
<1>2. e[2] \notin GuardsOwn /\ Behind(e[1], N, N)
  BY <1>1, NoneBehind
<1>3. PICK U : U = {e}
  OBVIOUS
<1>4. [u \in 1 .. m |-> e] \in Seq(U)
  BY <1>3
<1>5. \A x \in U : x[2] \notin GuardsOwn /\ Behind(x[1], N, N)
  BY <1>2, <1>3
<1>6. OfLines([u \in 1 .. m |-> e], N, N, GuardsOwn)
  BY <1>4, <1>5, Zenon DEF OfLines
<1>7. QED
  BY <1>1, <1>6

\* So an error at the end may be about any line.
LEMMA LastErrors ==
  ASSUME NEW N \in Nat, NEW j, NEW category, NEW c, category \notin GuardsOwn
  PROVE  OfLines(<<<<j, category, c>>>>, N, N, GuardsOwn)
BY NoneBehind, OneError

\* The errors of the end of the file, check by check: those of CheckCompletedBlocks.
LEMMA CompletedErrors ==
  ASSUME NEW N \in Nat, NEW ns, IsSeq(ns.stack)
  PROVE  OfLines(CheckCompletedBlocks(ns), N, N, GuardsOwn)
<1> DEFINE of(b) == CASE b.kind = "class" -> <<<<b.starting_linenum, "build/class", 5>>>>
                      [] b.kind = "namespace" -> <<<<b.starting_linenum, "build/namespaces", 5>>>>
                      [] OTHER -> << >>
<1>1. ASSUME NEW b
      PROVE  OfLines(of(b), N, N, GuardsOwn)
  <2>1. /\ OfLines(<<<<b.starting_linenum, "build/class", 5>>>>, N, N, GuardsOwn)
        /\ OfLines(<<<<b.starting_linenum, "build/namespaces", 5>>>>, N, N, GuardsOwn) /\ OfLines(<< >>, N, N, GuardsOwn)
    BY LastErrors, NoErrors DEF GuardsOwn
  <2>2. PICK E : E = of(b)
    OBVIOUS
  <2>3. \/ E = <<<<b.starting_linenum, "build/class", 5>>>> \/ E = <<<<b.starting_linenum, "build/namespaces", 5>>>>
        \/ E = << >>
    BY <2>2
  <2>4. QED
    BY <2>1, <2>2, <2>3
<1>2. PICK m \in Nat : DOMAIN ns.stack = 1 .. m
  BY SeqLen
<1>3. PICK s : s = [u \in DOMAIN ns.stack |-> of(ns.stack[u])]
  OBVIOUS
<1>4. CheckCompletedBlocks(ns) = FlattenSeq(s)
  BY <1>3, Zenon DEF CheckCompletedBlocks
<1> HIDE DEF of
<1>5. s = [k \in 1 .. m |-> s[k]] /\ \A k \in 1 .. m : OfLines(s[k], N, N, GuardsOwn)
  BY <1>1, <1>2, <1>3
<1>6. OfLines(FlattenSeq(s), N, N, GuardsOwn)
  BY <1>5, AllErrors
<1>7. QED
  BY <1>4, <1>6

\* Those of CheckForIncludeWhatYouUse.
LEMMA UseErrors ==
  ASSUME NEW d, NEW N \in Nat, N = NumLines(d), \A k \in 1 .. N : LineOK(d.elided[k]), NEW s, NEW f, NEW nonh, NEW hs
  PROVE  OfLines(CheckForIncludeWhatYouUse(s, f, d, nonh, hs), N, N, GuardsOwn)
<1>1. PICK E, missing, t :
        /\ E = CheckForIncludeWhatYouUse(s, f, d, nonh, hs) /\ (E = << >> \/ E = FlattenSeq(t))
        /\ t = [k \in 1 .. N |-> [u \in 1 .. missing[k] |-> <<k, "build/include_what_you_use", 4>>]]
        /\ \A k \in 1 .. N : missing[k] \in Nat
  <2> DEFINE required(k) == d.elided[k].uses \ UNION {d.elided[u].uses : u \in k + 1 .. NumLines(d)}
             listed == {h[1] : h \in Included(s)}
             opened == {h \in listed : h \in DOMAIN HeaderContents /\ FilesBelongToSameModule(f, Header[h], nonh, hs)}
             include_dict == listed \cup UNION {HeaderContents[h] : h \in opened}
             missing0(k) == Cardinality(required(k) \ include_dict)
             of(k) == [u \in 1 .. missing0(k) |-> <<k, "build/include_what_you_use", 4>>]
  <2>1. PICK E : E = CheckForIncludeWhatYouUse(s, f, d, nonh, hs)
    OBVIOUS
  <2>2. PICK t : t = [k \in 1 .. NumLines(d) |-> of(k)]
    OBVIOUS
  <2>3. E = << >> \/ E = FlattenSeq(t)
    BY <2>1, <2>2, Zenon DEF CheckForIncludeWhatYouUse
  <2>4. ASSUME NEW k \in 1 .. N
        PROVE  missing0(k) \in Nat
    <3>1. PICK W : W = required(k) \ include_dict
      OBVIOUS
    <3>2. W \subseteq d.elided[k].uses
      BY <3>1
    <3>3. IsFiniteSet(W)
      BY <3>2, FS_Subset DEF LineOK
    <3>4. Cardinality(W) \in Nat
      BY <3>3, FS_CardinalityType
    <3>5. QED
      BY <3>1, <3>4
  <2>5. PICK missing : missing = [k \in 1 .. N |-> missing0(k)]
    OBVIOUS
  <2> HIDE DEF missing0
  <2>6. \A k \in 1 .. N : missing[k] = missing0(k) /\ missing[k] \in Nat
    BY <2>4, <2>5
  <2>7. t = [k \in 1 .. N |-> [u \in 1 .. missing[k] |-> <<k, "build/include_what_you_use", 4>>]]
    BY <2>2, <2>6
  <2>8. QED
    BY <2>1, <2>3, <2>6, <2>7
<1>2. ASSUME NEW k \in 1 .. N
      PROVE  OfLines(t[k], N, N, GuardsOwn)
  <2>1. PICK m \in Nat : m = missing[k]
    BY <1>1
  <2>2. t[k] = [u \in 1 .. m |-> <<k, "build/include_what_you_use", 4>>]
    BY <1>1, <2>1
  <2>3. OfLines([u \in 1 .. m |-> <<k, "build/include_what_you_use", 4>>], N, N, GuardsOwn)
    BY SameErrors DEF GuardsOwn
  <2>4. QED
    BY <2>2, <2>3
<1>3. t = [k \in 1 .. N |-> t[k]]
  BY <1>1
<1>4. OfLines(FlattenSeq(t), N, N, GuardsOwn) /\ OfLines(<< >>, N, N, GuardsOwn)
  BY <1>2, <1>3, AllErrors, NoErrors
<1>5. QED
  BY <1>1, <1>4

\* Those of CheckHeaderFileIncluded, in whatever order the headers come.
LEMMA IncludedErrors ==
  ASSUME NEW N \in Nat, NEW s, NEW f, IsFiniteSet(f.headers), NEW hs, NEW E \in CheckHeaderFileIncluded(s, f, hs)
  PROVE  OfLines(E, N, N, GuardsOwn)
<1> DEFINE existing == f.headers \cap hs
           listed == {ext \in existing : \E h \in Included(s) : Header[h[1]].own = f.own /\ Header[h[1]].ext = ext}
<1>1. PICK all, rest : all = Cardinality(existing) /\ rest = Cardinality(existing \ listed)
  OBVIOUS
<1>2. all \in Nat /\ rest \in Nat
  <2>1. existing \subseteq f.headers /\ existing \ listed \subseteq f.headers
    OBVIOUS
  <2>2. IsFiniteSet(existing) /\ IsFiniteSet(existing \ listed)
    BY <2>1, FS_Subset
  <2>3. QED
    BY <1>1, <2>2, FS_CardinalityType
<1>3. PICK j : E \in {<< >>} \/ \E tried : /\ tried = {all} \/ tried = 0 .. rest
                                           /\ E \in {[u \in 1 .. n |-> <<j, "build/include", 5>>] : n \in tried}
  <2> DEFINE lists == {u \in DOMAIN s.include_list : s.include_list[u] # << >>}
             j0 == IF lists = {} THEN None ELSE s.include_list[First(lists, 0)][1][2]
             tried0 == IF listed = {} THEN {Cardinality(existing)} ELSE 0 .. Cardinality(existing \ listed)
  <2>1. E \in IF f.test THEN {<< >>} ELSE {[u \in 1 .. n |-> <<j0, "build/include", 5>>] : n \in tried0}
    BY Zenon DEF CheckHeaderFileIncluded
  <2>2. PICK j, tried : j = j0 /\ tried = tried0
    OBVIOUS
  <2>3. tried = {all} \/ tried = 0 .. rest
    BY <1>1, <2>2
  <2> HIDE DEF lists, j0, tried0
  <2>4. E \in {<< >>} \/ E \in {[u \in 1 .. n |-> <<j, "build/include", 5>>] : n \in tried}
    BY <2>1, <2>2
  <2>5. QED
    BY <2>3, <2>4, Zenon
<1>4. CASE E \in {<< >>}
  BY <1>4, NoErrors
<1>5. CASE \E tried : /\ tried = {all} \/ tried = 0 .. rest
                      /\ E \in {[u \in 1 .. n |-> <<j, "build/include", 5>>] : n \in tried}
  <2>1. PICK n : n \in Nat /\ E = [u \in 1 .. n |-> <<j, "build/include", 5>>]
    BY <1>2, <1>5
  <2>2. QED
    BY <2>1, SameErrors DEF GuardsOwn
<1>6. QED
  BY <1>3, <1>4, <1>5

\* Those of CheckForBadCharacters.
LEMMA CharacterErrors ==
  ASSUME NEW N \in Nat, NEW lines, DOMAIN lines = 1 .. N
  PROVE  OfLines(CheckForBadCharacters(lines), N, N, GuardsOwn)
<1> DEFINE utf8(k) == IF "utf8" \in lines[k].marks THEN <<<<k, "readability/utf8", 5>>>> ELSE << >>
           nul(k) == IF "NUL" \in lines[k].marks THEN <<<<k, "readability/nul", 5>>>> ELSE << >>
<1>1. PICK s : s = [k \in DOMAIN lines |-> utf8(k) \o nul(k)]
  OBVIOUS
<1>2. CheckForBadCharacters(lines) = FlattenSeq(s)
  BY <1>1, Zenon DEF CheckForBadCharacters
<1>3. ASSUME NEW k \in 1 .. N
      PROVE  OfLines(utf8(k), N, N, GuardsOwn) /\ OfLines(nul(k), N, N, GuardsOwn)
  <2>1. /\ OfLines(<<<<k, "readability/utf8", 5>>>>, N, N, GuardsOwn) /\ OfLines(<<<<k, "readability/nul", 5>>>>, N, N, GuardsOwn)
        /\ OfLines(<< >>, N, N, GuardsOwn)
    BY LastErrors, NoErrors DEF GuardsOwn
  <2>2. QED
    BY <2>1
<1>4. ASSUME NEW k \in 1 .. N
      PROVE  OfLines(s[k], N, N, GuardsOwn)
  <2>1. PICK a, b : a = utf8(k) /\ b = nul(k)
    OBVIOUS
  <2>2. OfLines(a \o b, N, N, GuardsOwn)
    BY <1>3, <2>1, BothErrors
  <2>3. s[k] = a \o b
    BY <1>1, <2>1
  <2>4. QED
    BY <2>2, <2>3
<1>5. s = [k \in 1 .. N |-> s[k]]
  BY <1>1
<1> HIDE DEF utf8, nul
<1>6. OfLines(FlattenSeq(s), N, N, GuardsOwn)
  BY <1>4, <1>5, AllErrors
<1>7. QED
  BY <1>2, <1>6

\* Those of CheckForNewlineAtEOF.
LEMMA NewlineErrors ==
  ASSUME NEW N \in Nat, NEW newline, NEW lines
  PROVE  OfLines(CheckForNewlineAtEOF(newline, lines), N, N, GuardsOwn)
<1>1. OfLines(<<<<Len(lines), "whitespace/ending_newline", 5>>>>, N, N, GuardsOwn) /\ OfLines(<< >>, N, N, GuardsOwn)
  BY LastErrors, NoErrors DEF GuardsOwn
<1>2. PICK E : E = CheckForNewlineAtEOF(newline, lines)
  OBVIOUS
<1>3. E = << >> \/ E = <<<<Len(lines), "whitespace/ending_newline", 5>>>>
  BY <1>2, Zenon DEF CheckForNewlineAtEOF
<1>4. QED
  BY <1>1, <1>2, <1>3

\* Those of the line endings.
LEMMA EndingErrors ==
  ASSUME NEW N \in Nat, NEW newline, NEW lines, Len(lines) \in Nat
  PROVE  OfLines(CheckLineEndings(newline, lines), N, N, GuardsOwn)
<1>1. PICK ended : ended = 1 .. IF newline THEN Len(lines) ELSE Len(lines) - 1
  OBVIOUS
<1>2. PICK m \in Nat : ended = 1 .. m
  <2>1. CASE newline
    BY <1>1, <2>1
  <2>2. CASE ~newline /\ Len(lines) # 0
    <3>1. Len(lines) - 1 \in Nat
      BY <2>2
    <3>2. QED
      BY <1>1, <2>2, <3>1
  <2>3. CASE ~newline /\ Len(lines) = 0
    <3>1. ended = 1 .. 0
      BY <1>1, <2>3
    <3>2. QED
      BY <3>1
  <2>4. QED
    BY <2>1, <2>2, <2>3
<1> DEFINE of(k) == IF "CR" \in lines[k].marks THEN <<<<k, "whitespace/newline", 1>>>> ELSE << >>
<1>3. PICK s : s = [k \in ended |-> of(k)]
  OBVIOUS
<1>4. CheckLineEndings(newline, lines) = FlattenSeq(s) \/ CheckLineEndings(newline, lines) = << >>
  BY <1>1, <1>3, Zenon DEF CheckLineEndings
<1>5. ASSUME NEW k \in 1 .. m
      PROVE  OfLines(of(k), N, N, GuardsOwn)
  <2>1. OfLines(<<<<k, "whitespace/newline", 1>>>>, N, N, GuardsOwn) /\ OfLines(<< >>, N, N, GuardsOwn)
    BY LastErrors, NoErrors DEF GuardsOwn
  <2>2. QED
    BY <2>1
<1> HIDE DEF of
<1>6. s = [k \in 1 .. m |-> s[k]] /\ \A k \in 1 .. m : OfLines(s[k], N, N, GuardsOwn)
  BY <1>2, <1>3, <1>5
<1>7. OfLines(FlattenSeq(s), N, N, GuardsOwn) /\ OfLines(<< >>, N, N, GuardsOwn)
  BY <1>6, AllErrors, NoErrors
<1>8. QED
  BY <1>4, <1>7

\* What is reported of a file in the end is what is due of it.
LEMMA EndReports ==
  ASSUME LintTyped, DocInv, NestingInv, Afresh, ReportsInv, FinishFile
  PROVE  DueAreReported'
<1>1. PICK N, n : N = NumLines(doc) /\ n = linenum
  OBVIOUS
<1>2. pc = "lines" /\ linenum > NumLines(doc)
  BY DEF FinishFile
<1>3. N \in Nat /\ n = N + 1 /\ n - 1 = N /\ N \in 0 .. N /\ DOMAIN doc.raw_lines = 1 .. N /\ DOMAIN doc.elided = 1 .. N
  BY <1>1, <1>2, DocOfText DEF DocInv, InText
<1>4. PICK v : v = View
  OBVIOUS
<1>5. DOMAIN v.doc.raw_lines = 1 .. N
  BY <1>3, <1>4 DEF View
<1>6. PICK log : log = [state |-> state, found |-> found, reported |-> reported]
  OBVIOUS
<1>7. SettingsOf(v, state) /\ Known(v, suppress, N) /\ Right(v, log) /\ log.state = state
  BY <1>1, <1>2, <1>3, <1>4, <1>6, InView
<1>8. PICK f, lines : f = files[file] /\ lines = TextLines(file)
  OBVIOUS
<1>9. PICK included, errors, E1, E2, E4, E5, E6 :
        /\ included \in IF f.ext \in nonheaders THEN CheckHeaderFileIncluded(include_state, f, headers) ELSE {<< >>}
        /\ E1 = CheckCompletedBlocks(nesting_state)
        /\ E2 = CheckForIncludeWhatYouUse(include_state, f, doc, nonheaders, headers)
        /\ E4 = CheckForBadCharacters(doc.raw_lines) /\ E5 = CheckForNewlineAtEOF(f.newline, doc.raw_lines)
        /\ E6 = CheckLineEndings(f.newline, lines)
        /\ errors = E1 \o E2 \o included \o E4 \o E5 \o E6
        /\ found' = Error(log, suppress, errors).found /\ reported' = Error(log, suppress, errors).reported
  BY <1>6, <1>8, Zenon DEF FinishFile
<1>10. lines \in Seq({Line[k] : k \in DOMAIN Line}) /\ doc = CleansedLines(RemoveMultiLineComments(lines).lines)
  BY <1>2, <1>8, LinesOfText DEF DocInv, InText
<1>11. \A k \in 1 .. N : LineOK(doc.elided[k])
  BY <1>3, <1>10, ElidedLine
<1>12. OfLines(E1, N, N, GuardsOwn)
  <2>1. \A k \in 1 .. N : IsSeq(doc.elided[k].toks)
    BY <1>11 DEF LineOK
  <2>2. PICK now : nesting_state.stack = BlocksOf(doc, now)[N]
    BY <1>1, <1>2, <1>3 DEF NestingInv, Checkpoints
  <2>3. IsSeq(nesting_state.stack)
    BY <1>1, <1>3, <2>1, <2>2, BlocksSeq
  <2>4. QED
    BY <1>3, <1>9, <2>3, CompletedErrors
<1>13. OfLines(E2, N, N, GuardsOwn)
  BY <1>1, <1>3, <1>9, <1>11, UseErrors
<1>14. OfLines(included, N, N, GuardsOwn)
  <2>1. IsFiniteSet(f.headers)
    BY <1>2, <1>8, LintAssumption DEF LintTyped, DocInv, InText, files
  <2>2. CASE f.ext \in nonheaders
    <3>1. included \in CheckHeaderFileIncluded(include_state, f, headers)
      BY <1>9, <2>2
    <3>2. QED
      BY <1>3, <2>1, <3>1, IncludedErrors
  <2>3. CASE f.ext \notin nonheaders
    <3>1. included = << >>
      BY <1>9, <2>3
    <3>2. QED
      BY <3>1, NoErrors
  <2>4. QED
    BY <2>2, <2>3
<1>15. OfLines(E4, N, N, GuardsOwn)
  BY <1>3, <1>9, CharacterErrors
<1>16. OfLines(E5, N, N, GuardsOwn)
  BY <1>3, <1>9, NewlineErrors
<1>17. OfLines(E6, N, N, GuardsOwn)
  <2>1. Len(lines) \in Nat
    BY <1>10
  <2>2. QED
    BY <1>3, <1>9, <2>1, EndingErrors
<1>18. OfLines(errors, N, N, GuardsOwn)
  <2>1. OfLines(E1 \o E2, N, N, GuardsOwn)
    BY <1>12, <1>13, BothErrors
  <2>2. OfLines((E1 \o E2) \o included, N, N, GuardsOwn)
    BY <1>14, <2>1, BothErrors
  <2>3. OfLines((E1 \o E2 \o included) \o E4, N, N, GuardsOwn)
    BY <1>15, <2>2, BothErrors
  <2>4. OfLines((E1 \o E2 \o included \o E4) \o E5, N, N, GuardsOwn)
    BY <1>16, <2>3, BothErrors
  <2>5. OfLines((E1 \o E2 \o included \o E4 \o E5) \o E6, N, N, GuardsOwn)
    BY <1>17, <2>4, BothErrors
  <2>6. QED
    BY <1>9, <2>5
<1>19. PICK after : after = Error(log, suppress, errors)
  OBVIOUS
<1>20. Right(v, after)
  BY <1>3, <1>5, <1>7, <1>18, <1>19, RightLines
<1>21. View' = v
  <2>1. UNCHANGED <<lintInput, file, doc, settings>>
    BY DEF FinishFile, perFile
  <2>2. QED
    BY <1>4, <2>1, SameView
<1>22. ReportedIn(v, found', reported')
  BY <1>9, <1>19, <1>20, RightIs
<1>23. QED
  BY <1>21, <1>22, ViewIsNext

------------------------------------------------------------------------------
(* The comments of several lines. *)

\* The lines and the error of the comments from line k on, given those after the first.
Begin(lines, k) == FindNextMultiLineCommentStart(lines, k)
End(lines, k) == FindNextMultiLineCommentEnd(lines, Begin(lines, k))
CommentStep(was, lines, k) ==
  IF Begin(lines, k) > Len(lines) THEN [comments |-> {}, errors |-> << >>]
  ELSE IF End(lines, k) > Len(lines)
  THEN [comments |-> {}, errors |-> <<<<Begin(lines, k) + 1, "readability/multiline_comment", 5>>>>]
  ELSE [was EXCEPT !.comments = @ \cup Begin(lines, k) .. End(lines, k)]

\* The next least number, or the one after all lines.
LEMMA FirstOrLast ==
  ASSUME NEW m \in Nat, NEW N \in Nat, m <= N + 1, NEW S, S \subseteq m .. N
  PROVE  First(S, N + 1) \in m .. N + 1
<1>1. CASE S = {}
  BY <1>1 DEF First
<1>2. CASE S # {}
  <2>1. S \in SUBSET Nat
    OBVIOUS
  <2>2. \E k \in S : \A j \in S : k <= j
    BY <1>2, <2>1, LeastNumber
  <2>3. Min(S) \in S
    BY <2>2, Zenon DEF Min
  <2>4. First(S, N + 1) = Min(S)
    BY <1>2, Zenon DEF First
  <2>5. PICK x : x = First(S, N + 1)
    OBVIOUS
  <2>6. x \in S
    BY <2>3, <2>4, <2>5, Zenon
  <2>7. x \in m .. N + 1
    BY <2>6
  <2>8. QED
    BY <2>5, <2>7, Zenon
<1>3. QED
  BY <1>1, <1>2

\* A multi-line comment that ends, ends in the line where it begins or farther down.
LEMMA EndIs ==
  ASSUME NEW lines, NEW N \in Nat, N = Len(lines), NEW k \in 1 .. N + 1, Begin(lines, k) <= N, End(lines, k) <= N
  PROVE  k \in 1 .. N /\ End(lines, k) + 1 \in k + 1 .. N + 1
<1>1. PICK S : S = {u \in k .. Len(lines) : lines[u].opens}
  OBVIOUS
<1>2. PICK b : b = Begin(lines, k)
  OBVIOUS
<1>3. b \in k .. N + 1
  <2>1. b = First(S, N + 1) /\ S \subseteq k .. N
    BY <1>1, <1>2 DEF Begin, FindNextMultiLineCommentStart
  <2>2. k \in Nat /\ k <= N + 1
    OBVIOUS
  <2>3. QED
    BY <2>1, <2>2, FirstOrLast
<1>4. b <= N
  BY <1>2
<1>5. PICK T : T = {u \in b .. Len(lines) : lines[u].ends}
  OBVIOUS
<1>6. PICK e : e = End(lines, k)
  OBVIOUS
<1>7. e \in b .. N + 1
  <2>1. e = First(T, N + 1) /\ T \subseteq b .. N
    BY <1>2, <1>5, <1>6 DEF End, FindNextMultiLineCommentEnd
  <2>2. b \in Nat /\ b <= N + 1
    BY <1>3
  <2>3. QED
    BY <2>1, <2>2, FirstOrLast
<1>8. e <= N
  BY <1>6
<1>9. k \in 1 .. N /\ e + 1 \in k + 1 .. N + 1
  BY <1>3, <1>4, <1>7, <1>8
<1>10. QED
  BY <1>6, <1>9

\* From line m on.
CommentsFrom(f, lines, m) == f = [k \in m .. Len(lines) + 1 |-> CommentStep(f[End(lines, k) + 1], lines, k)]

\* The step looks at no line that is not behind.
LEMMA CommentStepSame ==
  ASSUME NEW lines, NEW N \in Nat, N = Len(lines), NEW k \in 1 .. N + 1, NEW f, NEW g,
         \A j \in k + 1 .. N + 1 : f[j] = g[j]
  PROVE  CommentStep(f[End(lines, k) + 1], lines, k) = CommentStep(g[End(lines, k) + 1], lines, k)
<1>1. CASE Begin(lines, k) <= N /\ End(lines, k) <= N
  <2>1. End(lines, k) + 1 \in k + 1 .. N + 1
    BY <1>1, EndIs
  <2>2. QED
    BY <2>1
<1>2. CASE ~(Begin(lines, k) <= N /\ End(lines, k) <= N)
  <2>1. PICK S : S = {u \in k .. Len(lines) : lines[u].opens}
    OBVIOUS
  <2>2. PICK b : b = Begin(lines, k)
    OBVIOUS
  <2>3. b \in k .. N + 1
    <3>1. b = First(S, N + 1) /\ S \subseteq k .. N
      BY <2>1, <2>2 DEF Begin, FindNextMultiLineCommentStart
    <3>2. k \in Nat /\ k <= N + 1
      OBVIOUS
    <3>3. QED
      BY <3>1, <3>2, FirstOrLast
  <2>4. PICK T : T = {u \in b .. Len(lines) : lines[u].ends}
    OBVIOUS
  <2>5. PICK e : e = End(lines, k)
    OBVIOUS
  <2>6. e \in b .. N + 1
    <3>1. e = First(T, N + 1) /\ T \subseteq b .. N
      BY <2>2, <2>4, <2>5 DEF End, FindNextMultiLineCommentEnd
    <3>2. b \in Nat /\ b <= N + 1
      BY <2>3
    <3>3. QED
      BY <3>1, <3>2, FirstOrLast
  <2>7. b > N \/ e > N
    BY <1>2, <2>2, <2>3, <2>5, <2>6
  <2>8. PICK x, y : x = f[End(lines, k) + 1] /\ y = g[End(lines, k) + 1]
    OBVIOUS
  <2>9. CommentStep(x, lines, k) = CommentStep(y, lines, k)
    BY <2>2, <2>5, <2>7, Zenon DEF CommentStep
  <2>10. QED
    BY <2>8, <2>9
<1>3. QED
  BY <1>1, <1>2

\* There is a function that obeys the recursion of RemoveMultiLineComments.
LEMMA CommentsExist ==
  ASSUME NEW lines, NEW N \in Nat, N = Len(lines)
  PROVE  \E f : CommentsFrom(f, lines, 1)
<1> DEFINE T == {k \in Nat : k <= N => \E f : CommentsFrom(f, lines, N + 1 - k)}
<1>1. ASSUME NEW m \in 1 .. N + 1, NEW f, \A k \in m + 1 .. N + 1 : f[k] = CommentStep(f[End(lines, k) + 1], lines, k)
      PROVE  \E g : CommentsFrom(g, lines, m)
  <2>1. PICK v : v = CommentStep(f[End(lines, m) + 1], lines, m)
    OBVIOUS
  <2>2. m \in Nat /\ N + 1 \in Nat /\ m <= N + 1
    OBVIOUS
  <2>3. PICK g : LongerInFront(g, f, m, N + 1, v)
    BY <2>2, FunctionInFront
  <2>4. ASSUME NEW k \in m .. N + 1
        PROVE  g[k] = CommentStep(g[End(lines, k) + 1], lines, k)
    <3>1. \A j \in k + 1 .. N + 1 : f[j] = g[j]
      <4>1. \A j \in k + 1 .. N + 1 : j \in m + 1 .. N + 1
        OBVIOUS
      <4>2. QED
        BY <2>3, <4>1, Zenon DEF LongerInFront
    <3>2. k \in 1 .. N + 1
      OBVIOUS
    <3>3. CommentStep(f[End(lines, k) + 1], lines, k) = CommentStep(g[End(lines, k) + 1], lines, k)
      BY <3>1, <3>2, CommentStepSame
    <3>4. g[k] = CommentStep(f[End(lines, k) + 1], lines, k)
      <4>1. k = m \/ k \in m + 1 .. N + 1
        OBVIOUS
      <4>2. QED
        BY <1>1, <2>1, <2>3, <4>1, Zenon DEF LongerInFront
    <3>5. QED
      BY <3>3, <3>4
  <2>5. g = [k \in m .. N + 1 |-> CommentStep(g[End(lines, k) + 1], lines, k)]
    BY <2>3, <2>4, Zenon DEF LongerInFront
  <2>6. CommentsFrom(g, lines, m)
    BY <2>5, Zenon DEF CommentsFrom
  <2>7. QED
    BY <2>6
<1>2. 0 \in T
  <2>1. N + 1 \in 1 .. N + 1 /\ N + 1 + 1 .. N + 1 = {} /\ N + 1 - 0 = N + 1
    OBVIOUS
  <2>2. PICK f : f = << >>
    OBVIOUS
  <2>3. \A k \in N + 1 + 1 .. N + 1 : f[k] = CommentStep(f[End(lines, k) + 1], lines, k)
    BY <2>1
  <2>4. \E g : CommentsFrom(g, lines, N + 1)
    BY <1>1, <2>1, <2>3
  <2>5. QED
    BY <2>1, <2>4
<1>3. ASSUME NEW k \in T
      PROVE  k + 1 \in T
  <2>1. SUFFICES ASSUME k + 1 <= N
                 PROVE  \E f : CommentsFrom(f, lines, N + 1 - (k + 1))
    OBVIOUS
  <2>2. PICK m : m = N + 1 - (k + 1)
    OBVIOUS
  <2>3. m \in 1 .. N + 1 /\ N + 1 - k = m + 1
    BY <2>1, <2>2
  <2>4. PICK f : CommentsFrom(f, lines, m + 1)
    BY <2>1, <2>3
  <2>5. \A j \in m + 1 .. N + 1 : f[j] = CommentStep(f[End(lines, j) + 1], lines, j)
    BY <2>4, Zenon DEF CommentsFrom
  <2>6. \E g : CommentsFrom(g, lines, m)
    BY <1>1, <2>3, <2>5
  <2>7. QED
    BY <2>2, <2>6
<1>4. N \in T
  <2>1. T = Nat
    BY <1>2, <1>3, AllNumbers
  <2>2. QED
    BY <2>1
<1>5. N + 1 - N = 1
  OBVIOUS
<1>6. QED
  BY <1>4, <1>5

\* The only error is that of a comment that does not end.
LEMMA CommentErrors ==
  ASSUME NEW lines, NEW N \in Nat, N = Len(lines), NEW errors, errors = RemoveMultiLineComments(lines).errors
  PROVE  errors = << >> \/ \E j : errors = <<<<j, "readability/multiline_comment", 5>>>>
<1>1. PICK g : g = CHOOSE f : CommentsFrom(f, lines, 1)
  OBVIOUS
<1>2. CommentsFrom(g, lines, 1)
  BY <1>1, CommentsExist, Zenon
<1>3. errors = g[1].errors
  <2>1. PICK x : RemoveMultiLineComments(lines) = [lines |-> x, errors |-> g[1].errors]
    BY <1>1, Zenon DEF RemoveMultiLineComments, CommentsFrom, CommentStep, Begin, End
  <2>2. QED
    BY <2>1
<1>4. \A k \in 1 .. N + 1 : g[k] = CommentStep(g[End(lines, k) + 1], lines, k)
  BY <1>2, Zenon DEF CommentsFrom
<1> DEFINE OK(x) == \E c, e : /\ x = [comments |-> c, errors |-> e]
                              /\ e = << >> \/ \E j : e = <<<<j, "readability/multiline_comment", 5>>>>
           T == {k \in Nat : k <= N => \A p \in N + 1 - k .. N + 1 : OK(g[p])}
<1>5. ASSUME NEW p \in 1 .. N + 1, \A q \in p + 1 .. N + 1 : OK(g[q])
      PROVE  OK(g[p])
  <2>1. PICK was, b, e : was = g[End(lines, p) + 1] /\ b = Begin(lines, p) /\ e = End(lines, p)
    OBVIOUS
  <2>2. g[p] = CommentStep(was, lines, p)
    BY <1>4, <2>1
  <2>3. \/ g[p] = [comments |-> {}, errors |-> << >>]
        \/ g[p] = [comments |-> {}, errors |-> <<<<b + 1, "readability/multiline_comment", 5>>>>]
        \/ ~(b > N) /\ ~(e > N) /\ g[p] = [was EXCEPT !.comments = @ \cup b .. e]
    BY <2>1, <2>2, Zenon DEF CommentStep
  <2>4. CASE ~(b > N) /\ ~(e > N) /\ g[p] = [was EXCEPT !.comments = @ \cup b .. e]
    <3>1. b \in Int /\ e \in Int
      <4>1. PICK S : S = {u \in p .. Len(lines) : lines[u].opens}
        OBVIOUS
      <4>2. b = First(S, N + 1) /\ S \subseteq p .. N
        BY <2>1, <4>1 DEF Begin, FindNextMultiLineCommentStart
      <4>3. b \in p .. N + 1
        <5>1. p \in Nat /\ p <= N + 1
          OBVIOUS
        <5>2. QED
          BY <4>2, <5>1, FirstOrLast
      <4>4. PICK R : R = {u \in b .. Len(lines) : lines[u].ends}
        OBVIOUS
      <4>5. e = First(R, N + 1) /\ R \subseteq b .. N
        BY <2>1, <4>4 DEF End, FindNextMultiLineCommentEnd
      <4>6. b \in Nat /\ b <= N + 1
        BY <4>3
      <4>7. e \in b .. N + 1
        BY <4>5, <4>6, FirstOrLast
      <4>8. QED
        BY <4>3, <4>7
    <3>2. Begin(lines, p) <= N /\ End(lines, p) <= N
      BY <2>1, <2>4, <3>1
    <3>3. End(lines, p) + 1 \in p + 1 .. N + 1
      BY <3>2, EndIs
    <3>4. OK(was)
      BY <1>5, <2>1, <3>3
    <3>5. PICK c, x : /\ was = [comments |-> c, errors |-> x]
                      /\ x = << >> \/ \E j : x = <<<<j, "readability/multiline_comment", 5>>>>
      BY <3>4
    <3>6. g[p] = [comments |-> c \cup b .. e, errors |-> x]
      BY <2>4, <3>5
    <3>7. QED
      BY <3>5, <3>6
  <2>5. OK([comments |-> {}, errors |-> << >>])
    OBVIOUS
  <2>6. OK([comments |-> {}, errors |-> <<<<b + 1, "readability/multiline_comment", 5>>>>])
    OBVIOUS
  <2>7. QED
    BY <2>3, <2>4, <2>5, <2>6
<1> HIDE DEF OK
<1>6. 0 \in T
  <2>1. N + 1 - 0 .. N + 1 = {N + 1}
    OBVIOUS
  <2>2. OK(g[N + 1])
    BY <1>5
  <2>3. QED
    BY <2>1, <2>2
<1>7. ASSUME NEW k \in T
      PROVE  k + 1 \in T
  <2>1. SUFFICES ASSUME k + 1 <= N, NEW p \in N + 1 - (k + 1) .. N + 1
                 PROVE  OK(g[p])
    OBVIOUS
  <2>2. \A q \in N + 1 - k .. N + 1 : OK(g[q])
    BY <2>1
  <2>3. CASE p \in N + 1 - k .. N + 1
    BY <2>2, <2>3
  <2>4. CASE p \notin N + 1 - k .. N + 1
    <3>1. p = N + 1 - (k + 1) /\ p \in 1 .. N + 1
      BY <2>1, <2>4
    <3>2. \A q \in p + 1 .. N + 1 : q \in N + 1 - k .. N + 1
      BY <3>1
    <3>3. QED
      BY <1>5, <2>2, <3>1, <3>2
  <2>5. QED
    BY <2>3, <2>4
<1>8. N \in T
  <2>1. T = Nat
    BY <1>6, <1>7, AllNumbers
  <2>2. QED
    BY <2>1
<1>9. OK(g[1])
  <2>1. 1 \in N + 1 - N .. N + 1
    OBVIOUS
  <2>2. QED
    BY <1>8, <2>1
<1>10. PICK c, e : /\ g[1] = [comments |-> c, errors |-> e]
                   /\ e = << >> \/ \E j : e = <<<<j, "readability/multiline_comment", 5>>>>
  BY <1>9 DEF OK
<1>11. errors = e
  BY <1>3, <1>10
<1>12. QED
  BY <1>10, <1>11

------------------------------------------------------------------------------
(* The header guard, which is judged ahead of the lines. *)

\* The guard's check reads the comment of a line.
LEMMA GuardParse ==
  ASSUME NEW v, NEW N \in Nat, DOMAIN v.doc.raw_lines = 1 .. N, DOMAIN v.doc.elided = 1 .. N,
         NEW was, SettingsOf(v, was), NEW a, NEW K, GoodAt(v, was, a, K), v.guarded,
         NEW j \in 0 .. N, j # 0 => v.doc.elided[j].dir \in {"ifndef", "endif"}
                                    /\ v.doc.elided[j].nolint = v.doc.raw_lines[j].nolint
  PROVE  GoodAt(v, was, GuardStep(a, <<"parse", j>>, v.doc), K \cup {j})
<1>1. j # 0 => ReadAheadIn(v, j)
  BY DEF ReadAheadIn, GuardLineIn
<1>2. PICK lines : lines = v.doc.elided
  OBVIOUS
<1>3. j # 0 => lines[j].nolint = v.doc.raw_lines[j].nolint
  BY <1>2
<1>4. GoodAt(v, was, AheadStep(a, <<"parse", j>>, lines), K \cup {j})
  BY <1>1, <1>3, ParseRight
<1>5. QED
  BY <1>2, <1>4, Zenon DEF GuardStep

\* The guard's check reports an error that the comments read until then silence or do not.
LEMMA GuardError ==
  ASSUME NEW v, NEW was, SettingsOf(v, was), NEW a, NEW K, GoodAt(v, was, a, K), NEW e,
         \A k \in DOMAIN v.doc.raw_lines : Speaks(v.doc.raw_lines[k], k, e[1]) => (k \in K <=> ReadIn(v, e, k))
  PROVE  GoodAt(v, was, GuardStep(a, <<"error", e>>, v.doc), K)
<1>1. PICK lines : lines = v.doc.elided
  OBVIOUS
<1>2. GoodAt(v, was, AheadStep(a, <<"error", e>>, lines), K)
  BY BlameRight
<1>3. QED
  BY <1>1, <1>2, Zenon DEF GuardStep

------------------------------------------------------------------------------
(* The steps of the check of the header guard, one after the other. *)

\* First and Latest find an element, or none.
LEMMA FirstIsIn ==
  ASSUME NEW N \in Nat, NEW S, S \subseteq 1 .. N
  PROVE  First(S, 0) \in S \/ First(S, 0) = 0
<1>1. CASE S = {}
  BY <1>1 DEF First
<1>2. CASE S # {}
  <2>1. S \in SUBSET Nat
    OBVIOUS
  <2>2. \E k \in S : \A j \in S : k <= j
    BY <1>2, <2>1, LeastNumber
  <2>3. Min(S) \in S
    BY <2>2, Zenon DEF Min
  <2>4. First(S, 0) = Min(S)
    BY <1>2, Zenon DEF First
  <2>5. QED
    BY <2>3, <2>4, Zenon
<1>3. QED
  BY <1>1, <1>2

\* And so for the last line.
LEMMA LatestIsIn ==
  ASSUME NEW N \in Nat, NEW S, S \subseteq 1 .. N
  PROVE  Latest(S, 0) \in S \/ Latest(S, 0) = 0
<1>1. CASE S = {}
  BY <1>1 DEF Latest
<1>2. CASE S # {}
  <2>1. PICK k \in S : \A j \in S : j <= k
    BY <1>2, GreatestIn
  <2>2. \A j \in S : k >= j
    BY <2>1
  <2>3. Max(S) \in S
    BY <2>2, Zenon DEF Max
  <2>4. Latest(S, 0) = Max(S)
    BY <1>2, Zenon DEF Latest
  <2>5. QED
    BY <2>3, <2>4, Zenon
<1>3. QED
  BY <1>1, <1>2

\* The steps of the check; all its errors have one category.
ParseOf(j) == <<"parse", j>>
Blame(j, c) == <<"error", <<j, "build/header_guard", c>>>>

\* Sequences of no, one and two steps.
LEMMA StepsAre ==
  ASSUME NEW a, NEW b
  PROVE  /\ IsSeq(<<a, b>>) /\ Len(<<a, b>>) = 2 /\ <<a, b>>[1] = a /\ <<a, b>>[2] = b
         /\ IsSeq(<<a>>) /\ Len(<<a>>) = 1 /\ <<a>>[1] = a
         /\ IsSeq(<< >>) /\ Len(<< >>) = 0
<1>1. <<a, b>> \in Seq({a, b})
  OBVIOUS
<1>2. IsSeq(<<a, b>>)
  BY <1>1, Zenon DEF IsSeq
<1>3. Len(<<a, b>>) = 2 /\ <<a, b>>[1] = a /\ <<a, b>>[2] = b
  OBVIOUS
<1>4. Len(<<a>>) = 1 /\ <<a>>[1] = a
  OBVIOUS
<1>5. Len(<< >>) = 0
  OBVIOUS
<1>6. IsSeq(<<a>>) /\ IsSeq(<< >>)
  BY SeqNone, SeqShort
<1>7. QED
  BY <1>2, <1>3, <1>4, <1>5, <1>6, Zenon

\* The elements of two sequences put together.
Joined(all, s, t) ==
  /\ IsSeq(all) /\ Len(all) = Len(s) + Len(t) /\ Len(s) \in Nat /\ Len(t) \in Nat
  /\ \A u \in 1 .. Len(s) : all[u] = s[u]
  /\ \A u \in 1 .. Len(t) : all[Len(s) + u] = t[u]

\* Where the elements of two sequences are, one after the other.
LEMMA OfTwo ==
  ASSUME NEW s, NEW t, IsSeq(s), IsSeq(t)
  PROVE  Joined(s \o t, s, t)
<1>0. PICK all : all = s \o t
  OBVIOUS
<1>1. PICK V, W : s \in Seq(V) /\ t \in Seq(W)
  BY DEF IsSeq
<1>2. PICK U : U = V \cup W
  OBVIOUS
<1>3. s \in Seq(U)
  BY <1>1, <1>2
<1>4. t \in Seq(U)
  BY <1>1, <1>2
<1>5. /\ all \in Seq(U) /\ Len(all) = Len(s) + Len(t)
      /\ \A u \in 1 .. Len(s) + Len(t) : all[u] = IF u <= Len(s) THEN s[u] ELSE t[u - Len(s)]
  BY <1>0, <1>3, <1>4, ConcatProperties
<1>6. PICK m, n : m = Len(s) /\ n = Len(t)
  OBVIOUS
<1>7. m \in Nat /\ n \in Nat
  BY <1>3, <1>4, <1>6
<1>8. \A u \in 1 .. m : all[u] = s[u]
  BY <1>5, <1>6, <1>7
<1>9. ASSUME NEW u \in 1 .. n
      PROVE  all[m + u] = t[u]
  <2>1. m + u \in 1 .. m + n /\ ~(m + u <= m) /\ m + u - m = u
    BY <1>7
  <2>2. QED
    BY <1>5, <1>6, <2>1
<1>10. IsSeq(all)
  BY <1>5, Zenon DEF IsSeq
<1>11. Joined(all, s, t)
  BY <1>5, <1>6, <1>7, <1>8, <1>9, <1>10 DEF Joined
<1>12. QED
  BY <1>0, <1>11

\* What the check may do, step by step.
GuardIsOneOf(guard, d, cppvar, at, q, c1, c2) ==
  \/ Len(guard) = 0
  \/ Len(guard) = 1 /\ guard[1] = Blame(0, 5)
  \/ /\ at # 0 /\ d.elided[at].macro = cppvar
     /\ Len(guard) = 1 \/ (Len(guard) = 2 /\ guard[2] = Blame(q, c2))
     /\ guard[1] = ParseOf(q)
  \/ /\ at # 0 /\ d.elided[at].macro # cppvar
     /\ Len(guard) = 3 \/ (Len(guard) = 4 /\ guard[4] = Blame(q, c2))
     /\ guard[1] = ParseOf(at) /\ guard[2] = Blame(at, c1) /\ guard[3] = ParseOf(q)

LongOf(all, s, m, t) ==
  /\ Len(all) = Len(s) + 1 + Len(t)
  /\ \A u \in 1 .. Len(s) : all[u] = s[u]
  /\ all[Len(s) + 1] = m[1]
  /\ \A u \in 1 .. Len(t) : all[Len(s) + 1 + u] = t[u]

\* Where the elements of three sequences are, the middle one a single element.
LEMMA OfThree ==
  ASSUME NEW s, NEW m, NEW t, IsSeq(s), IsSeq(m), IsSeq(t), Len(m) = 1
  PROVE  LongOf(s \o m \o t, s, m, t)
<1>1. PICK h : h = s \o m
  OBVIOUS
<1>2. PICK all : all = h \o t
  OBVIOUS
<1>3. Joined(s \o m, s, m)
  BY OfTwo, Zenon
<1>4. Joined(h, s, m)
  BY <1>1, <1>3
<1>5. IsSeq(h)
  BY <1>4 DEF Joined
<1>6. Joined(h \o t, h, t)
  BY <1>5, OfTwo, Zenon
<1>7. Joined(all, h, t)
  BY <1>2, <1>6
<1>8. Len(h) = Len(s) + 1 /\ h[Len(s) + 1] = m[1] /\ Len(s) \in Nat
  BY <1>4 DEF Joined
<1>9. LongOf(all, s, m, t)
  BY <1>4, <1>7, <1>8 DEF Joined, LongOf
<1>10. QED
  BY <1>1, <1>2, <1>9

TwoForms(guard, style, p, p1, x1, x2) ==
  \/ /\ Len(style) = 0 /\ (Len(guard) = 1 \/ (Len(guard) = 2 /\ guard[2] = x2))
     /\ guard[1] = p
  \/ /\ Len(style) = 2 /\ (Len(guard) = 3 \/ (Len(guard) = 4 /\ guard[4] = x2))
     /\ guard[1] = p1 /\ guard[2] = x1 /\ guard[3] = p

\* The check of a guard that is there takes one of these two forms.
LEMMA GuardLong ==
  ASSUME NEW style, NEW m, NEW p, NEW closed, NEW p1, NEW x1, NEW x2, IsSeq(style), IsSeq(m), IsSeq(closed),
         Len(m) = 1, m[1] = p, Len(style) = 0 \/ (Len(style) = 2 /\ style[1] = p1 /\ style[2] = x1),
         Len(closed) = 0 \/ (Len(closed) = 1 /\ closed[1] = x2),
         NEW guard, LongOf(guard, style, m, closed)
  PROVE  TwoForms(guard, style, p, p1, x1, x2)
<1>1. /\ Len(guard) = Len(style) + 1 + Len(closed)
      /\ \A u \in 1 .. Len(style) : guard[u] = style[u]
      /\ guard[Len(style) + 1] = m[1]
      /\ \A u \in 1 .. Len(closed) : guard[Len(style) + 1 + u] = closed[u]
  BY DEF LongOf
<1>2. 1 \in 1 .. 1 /\ 1 \in 1 .. 2 /\ 2 \in 1 .. 2
  OBVIOUS
<1>3. CASE Len(style) = 0
  <2>1. guard[0 + 1] = p
    BY <1>1, <1>3
  <2>2. Len(guard) = 1 \/ (Len(guard) = 2 /\ guard[0 + 1 + 1] = x2)
    BY <1>1, <1>2, <1>3
  <2>3. QED
    BY <1>3, <2>1, <2>2 DEF TwoForms
<1>4. CASE Len(style) = 2 /\ style[1] = p1 /\ style[2] = x1
  <2>1. guard[1] = p1 /\ guard[2] = x1 /\ guard[2 + 1] = p
    BY <1>1, <1>2, <1>4
  <2>2. Len(guard) = 3 \/ (Len(guard) = 4 /\ guard[2 + 1 + 1] = x2)
    BY <1>1, <1>2, <1>4
  <2>3. QED
    BY <1>4, <2>1, <2>2 DEF TwoForms
<1>5. QED
  BY <1>3, <1>4

\* The pieces of the check.
LEMMA GuardShape ==
  ASSUME NEW d, NEW cppvar, NEW guard, guard = CheckForHeaderGuard(d, cppvar),
         NEW at, at = IfndefAt(d.elided), NEW q, q = EndifAt(d.elided)
  PROVE  \E c1, c2 : GuardIsOneOf(guard, d, cppvar, at, q, c1, c2)
<1>1. PICK style, closed : style = GuardStyle(d.elided, at, cppvar) /\ closed = GuardClosed(d.elided, q, cppvar)
  OBVIOUS
<1>2. PICK p : p = ParseOf(q)
  OBVIOUS
<1>3. guard = << >> \/ guard = <<Blame(0, 5)>> \/ (at # 0 /\ guard = style \o <<p>> \o closed)
  BY <1>1, <1>2, Zenon DEF CheckForHeaderGuard, ParseOf, Blame
<1>4. \E c : \/ d.elided[at].macro = cppvar /\ style = << >>
             \/ d.elided[at].macro # cppvar /\ style = <<ParseOf(at), Blame(at, c)>>
  BY <1>1, Zenon DEF GuardStyle, ParseOf, Blame
<1>5. \E c : closed = << >> \/ closed = <<Blame(q, c)>>
  BY <1>1, Zenon DEF GuardClosed, Blame
<1>6. PICK c1 : \/ d.elided[at].macro = cppvar /\ style = << >>
                \/ d.elided[at].macro # cppvar /\ style = <<ParseOf(at), Blame(at, c1)>>
  BY <1>4, Zenon
<1>7. PICK c2 : closed = << >> \/ closed = <<Blame(q, c2)>>
  BY <1>5, Zenon
<1>8. CASE guard = << >>
  BY <1>8, StepsAre, Zenon DEF GuardIsOneOf
<1>9. CASE guard = <<Blame(0, 5)>>
  BY <1>9, StepsAre, ZenonT(40) DEF GuardIsOneOf
<1>10. CASE at # 0 /\ guard = style \o <<p>> \o closed
  <2>1. PICK p1, x1, x2, m : p1 = ParseOf(at) /\ x1 = Blame(at, c1) /\ x2 = Blame(q, c2) /\ m = <<p>>
    OBVIOUS
  <2>2. IsSeq(m) /\ Len(m) = 1 /\ m[1] = p
    BY <2>1, StepsAre, Zenon
  <2>3. /\ IsSeq(style)
        /\ \/ d.elided[at].macro = cppvar /\ Len(style) = 0
           \/ d.elided[at].macro # cppvar /\ Len(style) = 2 /\ style[1] = p1 /\ style[2] = x1
    <3>1. CASE d.elided[at].macro = cppvar /\ style = << >>
      BY <3>1, StepsAre, Zenon
    <3>2. CASE d.elided[at].macro # cppvar /\ style = <<p1, x1>>
      BY <3>2, StepsAre, Zenon
    <3>3. QED
      BY <1>6, <2>1, <3>1, <3>2, Zenon
  <2>4. IsSeq(closed) /\ (Len(closed) = 0 \/ (Len(closed) = 1 /\ closed[1] = x2))
    <3>1. CASE closed = << >>
      BY <3>1, StepsAre, Zenon
    <3>2. CASE closed = <<x2>>
      BY <3>2, StepsAre, Zenon
    <3>3. QED
      BY <1>7, <2>1, <3>1, <3>2, Zenon
  <2>5. LongOf(guard, style, m, closed)
    <3>1. LongOf(style \o m \o closed, style, m, closed)
      BY <2>2, <2>3, <2>4, OfThree, Zenon
    <3>2. guard = style \o m \o closed
      BY <1>10, <2>1, Zenon
    <3>3. QED
      BY <3>1, <3>2, Zenon
  <2>6. Len(style) = 0 \/ (Len(style) = 2 /\ style[1] = p1 /\ style[2] = x1)
    BY <2>3, Zenon
  <2>7. TwoForms(guard, style, p, p1, x1, x2)
    BY <2>2, <2>3, <2>4, <2>5, <2>6, GuardLong, Zenon
  <2>8. GuardIsOneOf(guard, d, cppvar, at, q, c1, c2)
    <3>1. at # 0
      BY <1>10
    <3>2. CASE d.elided[at].macro = cppvar /\ Len(style) = 0
      <4>1. Len(style) # 2
        BY <3>2
      <4>2. (Len(guard) = 1 \/ (Len(guard) = 2 /\ guard[2] = x2)) /\ guard[1] = p
        BY ONLY <2>7, <4>1, Zenon DEF TwoForms
      <4>3. (Len(guard) = 1 \/ (Len(guard) = 2 /\ guard[2] = Blame(q, c2))) /\ guard[1] = ParseOf(q)
        BY <1>2, <2>1, <4>2
      <4>4. QED
        BY <3>1, <3>2, <4>3, Zenon DEF GuardIsOneOf
    <3>3. CASE d.elided[at].macro # cppvar /\ Len(style) = 2
      <4>1. Len(style) # 0
        BY <3>3
      <4>2. (Len(guard) = 3 \/ (Len(guard) = 4 /\ guard[4] = x2)) /\ guard[1] = p1 /\ guard[2] = x1 /\ guard[3] = p
        BY ONLY <2>7, <4>1, Zenon DEF TwoForms
      <4>3. /\ Len(guard) = 3 \/ (Len(guard) = 4 /\ guard[4] = Blame(q, c2))
            /\ guard[1] = ParseOf(at) /\ guard[2] = Blame(at, c1) /\ guard[3] = ParseOf(q)
        BY <1>2, <2>1, <4>2
      <4>4. QED
        BY <3>1, <3>3, <4>3, Zenon DEF GuardIsOneOf
    <3>4. QED
      BY <2>3, <3>2, <3>3, Zenon
  <2>9. QED
    BY <2>8
<1>11. QED
  BY <1>3, <1>8, <1>9, <1>10, Zenon

\* What the check starts from.
GuardReady(v, N, was) ==
  /\ N \in Nat /\ DOMAIN v.doc.raw_lines = 1 .. N /\ DOMAIN v.doc.elided = 1 .. N
  /\ \A j \in 1 .. N : v.doc.elided[j].dir # "" => v.doc.elided[j].nolint = v.doc.raw_lines[j].nolint
  /\ v.guarded /\ SettingsOf(v, was)

\* A comment read leaves the check right, with one more line read.
LEMMA StepParse ==
  ASSUME NEW v, NEW N, NEW was, GuardReady(v, N, was), NEW a, NEW K, GoodAt(v, was, a, K),
         NEW j, j \in 0 .. N, j # 0 => v.doc.elided[j].dir \in {"ifndef", "endif"}
  PROVE  GoodAt(v, was, GuardStep(a, ParseOf(j), v.doc), K \cup {j})
<1>1. /\ N \in Nat /\ DOMAIN v.doc.raw_lines = 1 .. N /\ DOMAIN v.doc.elided = 1 .. N /\ v.guarded /\ SettingsOf(v, was)
      /\ \A u \in 1 .. N : v.doc.elided[u].dir # "" => v.doc.elided[u].nolint = v.doc.raw_lines[u].nolint
  BY DEF GuardReady
<1>2. ASSUME j # 0
      PROVE  v.doc.elided[j].nolint = v.doc.raw_lines[j].nolint
  <2>1. j \in 1 .. N
    <3>1. N \in Nat
      BY <1>1
    <3>2. \A u : u \in 0 .. N /\ u # 0 => u \in 1 .. N
      BY <3>1
    <3>3. QED
      BY <1>2, <3>2, Zenon
  <2>2. v.doc.elided[j].dir # ""
    BY <1>2
  <2>3. QED
    BY <1>1, <2>1, <2>2
<1>3. GoodAt(v, was, GuardStep(a, <<"parse", j>>, v.doc), K \cup {j})
  BY <1>1, <1>2, GuardParse
<1>4. QED
  BY <1>3, Zenon DEF ParseOf

\* So does an error, if the comments for it that the text holds are read.
LEMMA StepBlame ==
  ASSUME NEW v, NEW N, NEW was, GuardReady(v, N, was), NEW a, NEW K, GoodAt(v, was, a, K), NEW j, NEW c,
         \A k \in 1 .. N : Speaks(v.doc.raw_lines[k], k, j) => (k \in K <=> GuardReads(v, k, j))
  PROVE  GoodAt(v, was, GuardStep(a, Blame(j, c), v.doc), K)
<1>1. DOMAIN v.doc.raw_lines = 1 .. N /\ SettingsOf(v, was)
  BY DEF GuardReady
<1>2. PICK e : e = <<j, "build/header_guard", c>>
  OBVIOUS
<1>3. e[1] = j /\ e[2] = "build/header_guard"
  BY <1>2
<1>4. \A k \in DOMAIN v.doc.raw_lines : Speaks(v.doc.raw_lines[k], k, e[1]) => (k \in K <=> ReadIn(v, e, k))
  BY <1>1, <1>3 DEF ReadIn, EmptyBodies
<1>5. GoodAt(v, was, GuardStep(a, <<"error", e>>, v.doc), K)
  BY <1>1, <1>4, GuardError
<1>6. QED
  BY <1>2, <1>5, Zenon DEF Blame

\* The comments read for an error at a line: those of the guard, and of no other.
LEMMA ReadAt ==
  ASSUME NEW v, NEW N, NEW was, GuardReady(v, N, was), NEW at, at = IfndefAt(v.doc.elided)
  PROVE  /\ \A k \in 1 .. N : ~Speaks(v.doc.raw_lines[k], k, 0)
         /\ \A j, k : GuardReads(v, k, j) <=> k = j \/ (k = at /\ v.doc.elided[at].macro # v.cppvar)
<1>1. ASSUME NEW k \in 1 .. N
      PROVE  ~Speaks(v.doc.raw_lines[k], k, 0)
  <2>1. N \in Nat
    BY DEF GuardReady
  <2>2. k # 0 /\ k + 1 # 0
    BY <2>1
  <2>3. QED
    BY <2>2 DEF Speaks
<1>2. \A j, k : GuardReads(v, k, j) <=> k = j \/ (k = at /\ v.doc.elided[at].macro # v.cppvar)
  BY DEF GuardReads
<1>3. QED
  BY <1>1, <1>2

\* The lines of the guard.
LEMMA GuardLines ==
  ASSUME NEW v, NEW N, NEW was, GuardReady(v, N, was),
         NEW at, at = IfndefAt(v.doc.elided), NEW q, q = EndifAt(v.doc.elided)
  PROVE  /\ at \in 0 .. N /\ (at # 0 => v.doc.elided[at].dir \in {"ifndef", "endif"})
         /\ q \in 0 .. N /\ (q # 0 => v.doc.elided[q].dir \in {"ifndef", "endif"})
<1>1. PICK el : el = v.doc.elided
  OBVIOUS
<1>2. N \in Nat /\ DOMAIN el = 1 .. N
  BY <1>1 DEF GuardReady
<1>3. PICK S, T : /\ S = {k \in DOMAIN el : el[k].dir = "ifndef"}
                  /\ T = {k \in DOMAIN el : el[k].dir = "endif" /\ el[k].indent = 0}
  OBVIOUS
<1>4. at = First(S, 0)
  BY <1>1, <1>3, Zenon DEF IfndefAt
<1>5. q = Latest(T, 0)
  BY <1>1, <1>3, Zenon DEF EndifAt
<1>6. S \subseteq 1 .. N /\ T \subseteq 1 .. N
  BY <1>2, <1>3
<1>7. at \in S \/ at = 0
  BY <1>2, <1>4, <1>6, FirstIsIn
<1>8. q \in T \/ q = 0
  BY <1>2, <1>5, <1>6, LatestIsIn
<1>9. at \in 0 .. N /\ (at # 0 => el[at].dir \in {"ifndef", "endif"})
  BY <1>2, <1>3, <1>7
<1>10. q \in 0 .. N /\ (q # 0 => el[q].dir \in {"ifndef", "endif"})
  BY <1>2, <1>3, <1>8
<1>11. QED
  BY <1>1, <1>9, <1>10

\* The steps of a run of the check.
LEMMA HeadSteps ==
  ASSUME NEW start, NEW guard, NEW d, NEW n \in Nat, NEW g, HeadUpto(g, start, guard, d, n)
  PROVE  g[0] = start /\ \A k \in Nat : k + 1 <= n => g[k + 1] = GuardStep(g[k], guard[k + 1], d)
<1>1. \A k \in 0 .. n : g[k] = IF k = 0 THEN start ELSE GuardStep(g[k - 1], guard[k], d)
  BY Zenon DEF HeadUpto
<1>2. 0 \in 0 .. n
  OBVIOUS
<1>3. g[0] = start
  BY <1>1, <1>2, Zenon
<1>4. ASSUME NEW k \in Nat, k + 1 <= n
      PROVE  g[k + 1] = GuardStep(g[k], guard[k + 1], d)
  <2>1. k + 1 \in 0 .. n /\ k + 1 # 0 /\ k + 1 - 1 = k
    BY <1>4
  <2>2. g[k + 1] = GuardStep(g[k + 1 - 1], guard[k + 1], d)
    BY <1>1, <2>1
  <2>3. QED
    BY <2>1, <2>2
<1>5. QED
  BY <1>3, <1>4

\* However the guard is wrong, each error is judged when exactly the comments that ReadBefore
\* names have been read: that of its own line, and that of the #ifndef if it was found wrong.
LEMMA GuardRuns ==
  ASSUME NEW v, NEW N, NEW was, GuardReady(v, N, was), NEW start, NEW none, none = {}, GoodAt(v, was, start, none),
         NEW guard, guard = CheckForHeaderGuard(v.doc, v.cppvar)
  PROVE  /\ Len(guard) \in Nat
         /\ \A g : HeadUpto(g, start, guard, v.doc, Len(guard)) => \E K : GoodAt(v, was, g[Len(guard)], K) /\ Upto(v, K, 0)
<1>1. PICK d : d = v.doc
  OBVIOUS
<1>2. PICK at, q : at = IfndefAt(d.elided) /\ q = EndifAt(d.elided)
  OBVIOUS
<1>3. PICK c1, c2 : GuardIsOneOf(guard, d, v.cppvar, at, q, c1, c2)
  BY <1>1, <1>2, GuardShape, Zenon
<1>4. PICK n : n = Len(guard)
  OBVIOUS
<1>5. n \in Nat
  BY <1>3, <1>4 DEF GuardIsOneOf
<1>6. /\ at \in 0 .. N /\ (at # 0 => v.doc.elided[at].dir \in {"ifndef", "endif"})
      /\ q \in 0 .. N /\ (q # 0 => v.doc.elided[q].dir \in {"ifndef", "endif"})
  BY <1>1, <1>2, GuardLines, Zenon
<1>7. /\ \A k \in 1 .. N : ~Speaks(v.doc.raw_lines[k], k, 0)
      /\ \A j, k : GuardReads(v, k, j) <=> k = j \/ (k = at /\ v.doc.elided[at].macro # v.cppvar)
  BY <1>1, <1>2, ReadAt, ZenonT(40)
<1>8. ASSUME NEW K, K \subseteq {at, q}
       PROVE  Upto(v, K, 0)
  <2>1. DOMAIN v.doc.raw_lines = 1 .. N /\ DOMAIN v.doc.elided = 1 .. N /\ v.guarded /\ N \in Nat
    BY DEF GuardReady
  <2>2. \A k \in 1 .. N : ~(k <= 0) /\ k # 0
    BY <2>1
  <2>3. \A k \in 1 .. N : k \in K => GuardLineIn(v, k)
    BY <1>6, <1>8, <2>1, <2>2 DEF GuardLineIn
  <2>4. QED
    BY <2>1, <2>2, <2>3 DEF Upto, ReadAheadIn
<1>9. ASSUME NEW g, HeadUpto(g, start, guard, d, n)
      PROVE  \E K : GoodAt(v, was, g[n], K) /\ Upto(v, K, 0)
  <2>1. g[0] = start /\ \A k \in Nat : k + 1 <= n => g[k + 1] = GuardStep(g[k], guard[k + 1], d)
    BY <1>5, <1>9, HeadSteps
  <2>2. /\ n >= 1 => g[1] = GuardStep(start, guard[1], d)
        /\ n >= 2 => g[2] = GuardStep(g[1], guard[2], d)
        /\ n >= 3 => g[3] = GuardStep(g[2], guard[3], d)
        /\ n >= 4 => g[4] = GuardStep(g[3], guard[4], d)
    <3>1. /\ n >= 1 => 0 + 1 <= n /\ g[0 + 1] = GuardStep(g[0], guard[0 + 1], d)
          /\ n >= 2 => 1 + 1 <= n /\ g[1 + 1] = GuardStep(g[1], guard[1 + 1], d)
          /\ n >= 3 => 2 + 1 <= n /\ g[2 + 1] = GuardStep(g[2], guard[2 + 1], d)
          /\ n >= 4 => 3 + 1 <= n /\ g[3 + 1] = GuardStep(g[3], guard[3 + 1], d)
      BY <1>5, <2>1
    <3>2. QED
      BY <2>1, <3>1
  <2>3. CASE n = 0
    <3>1. Upto(v, none, 0)
      BY <1>8
    <3>2. QED
      BY <2>1, <2>3, <3>1
  <2>4. CASE n = 1 /\ guard[1] = Blame(0, 5)
    <3>1. GoodAt(v, was, GuardStep(start, Blame(0, 5), v.doc), none)
      BY <1>7, StepBlame
    <3>2. g[1] = GuardStep(start, Blame(0, 5), v.doc)
      BY <1>1, <2>2, <2>4
    <3>3. Upto(v, none, 0)
      BY <1>8
    <3>4. QED
      BY <2>4, <3>1, <3>2, <3>3, Zenon
  <2>5. CASE /\ at # 0 /\ d.elided[at].macro = v.cppvar
             /\ n = 1 \/ (n = 2 /\ guard[2] = Blame(q, c2))
             /\ guard[1] = ParseOf(q)
    <3>1. PICK K : K = none \cup {q}
      OBVIOUS
    <3>2. GoodAt(v, was, GuardStep(start, ParseOf(q), v.doc), K)
      BY <1>6, <3>1, StepParse
    <3>3. g[1] = GuardStep(start, ParseOf(q), v.doc)
      BY <1>1, <2>2, <2>5
    <3>4. GoodAt(v, was, g[1], K)
      BY <3>2, <3>3, Zenon
    <3>5. \A k \in 1 .. N : Speaks(v.doc.raw_lines[k], k, q) => (k \in K <=> GuardReads(v, k, q))
      BY <1>1, <1>7, <2>5, <3>1
    <3>6. GoodAt(v, was, GuardStep(g[1], Blame(q, c2), v.doc), K)
      BY <3>4, <3>5, StepBlame
    <3>7. n = 2 => g[2] = GuardStep(g[1], Blame(q, c2), v.doc)
      BY <1>1, <2>2, <2>5
    <3>8. Upto(v, K, 0)
      BY <1>8, <3>1
    <3>9. QED
      BY <2>5, <3>4, <3>6, <3>7, <3>8, Zenon
  <2>6. CASE /\ at # 0 /\ d.elided[at].macro # v.cppvar
             /\ n = 3 \/ (n = 4 /\ guard[4] = Blame(q, c2))
             /\ guard[1] = ParseOf(at) /\ guard[2] = Blame(at, c1) /\ guard[3] = ParseOf(q)
    <3>1. PICK J, K : J = none \cup {at} /\ K = J \cup {q}
      OBVIOUS
    <3>2. GoodAt(v, was, GuardStep(start, ParseOf(at), v.doc), J)
      BY <1>6, <3>1, StepParse
    <3>3. /\ g[1] = GuardStep(start, ParseOf(at), v.doc) /\ g[2] = GuardStep(g[1], Blame(at, c1), v.doc)
          /\ g[3] = GuardStep(g[2], ParseOf(q), v.doc) /\ (n = 4 => g[4] = GuardStep(g[3], Blame(q, c2), v.doc))
      BY <1>1, <2>2, <2>6
    <3>4. GoodAt(v, was, g[1], J)
      BY <3>2, <3>3, Zenon
    <3>5. \A k \in 1 .. N : Speaks(v.doc.raw_lines[k], k, at) => (k \in J <=> GuardReads(v, k, at))
      BY <1>1, <1>7, <2>6, <3>1
    <3>6. GoodAt(v, was, g[2], J)
      BY <3>3, <3>4, <3>5, StepBlame
    <3>7. GoodAt(v, was, g[3], K)
      BY <1>6, <3>1, <3>3, <3>6, StepParse
    <3>8. \A k \in 1 .. N : Speaks(v.doc.raw_lines[k], k, q) => (k \in K <=> GuardReads(v, k, q))
      BY <1>1, <1>7, <2>6, <3>1
    <3>9. GoodAt(v, was, GuardStep(g[3], Blame(q, c2), v.doc), K)
      BY <3>7, <3>8, StepBlame
    <3>10. Upto(v, K, 0)
      BY <1>8, <3>1
    <3>11. QED
      BY <2>6, <3>3, <3>7, <3>9, <3>10, Zenon
  <2>7. QED
    BY <1>3, <1>4, <2>3, <2>4, <2>5, <2>6, Zenon DEF GuardIsOneOf
<1>10. QED
  BY <1>1, <1>4, <1>5, <1>9, Zenon

------------------------------------------------------------------------------
(* A file that begins. *)

\* The errors ahead of the header guard: nothing silences them, or they are not judged.
LEMMA CopyrightRight ==
  ASSUME NEW v, v.global \subseteq {"readability/casting", "whitespace/tab"},
         NEW N \in Nat, DOMAIN v.doc.raw_lines = 1 .. N, NEW was, SettingsOf(v, was),
         NEW log, Right(v, log), Alike(log.state, was), NEW lines
  PROVE  /\ Right(v, Error(log, NoSuppressions, CheckForCopyright(lines)))
         /\ Alike(Error(log, NoSuppressions, CheckForCopyright(lines)).state, was)
<1>1. PICK e, none : e = <<0, "legal/copyright", 5>> /\ none = NoSuppressions
  OBVIOUS
<1>2. e[1] = 0 /\ e[2] = "legal/copyright"
  BY <1>1
<1>3. ~IsErrorSuppressedByNolint(none, e[2], e[1])
  <2>1. none.lines = {} /\ none.global = {}
    BY <1>1 DEF NoSuppressions
  <2>2. QED
    BY <2>1, Zenon DEF IsErrorSuppressedByNolint
<1>4. ~SilencedIn(v, e)
  <2>1. e[2] \notin v.global
    BY <1>2
  <2>2. ASSUME NEW k \in DOMAIN v.doc.raw_lines
        PROVE  ~Speaks(v.doc.raw_lines[k], k, e[1])
    <3>1. k \in 1 .. N
      OBVIOUS
    <3>2. k # 0 /\ k + 1 # 0
      BY <3>1
    <3>3. QED
      BY <1>2, <3>2 DEF Speaks
  <2>3. QED
    BY <2>1, <2>2, Zenon DEF SilencedIn
<1>5. JudgedRight(v, none, e)
  BY <1>3, <1>4, Zenon DEF JudgedRight
<1>6. Right(v, Error(log, none, <<e>>)) /\ Alike(Error(log, none, <<e>>).state, was)
  BY <1>5, OneRight
<1>7. Right(v, Error(log, none, << >>)) /\ Alike(Error(log, none, << >>).state, was)
  BY NoneRight
<1>8. CheckForCopyright(lines) = << >> \/ CheckForCopyright(lines) = <<<<0, "legal/copyright", 5>>>>
  BY Zenon DEF CheckForCopyright
<1>9. CASE CheckForCopyright(lines) = << >>
  BY <1>1, <1>7, <1>9, Zenon
<1>10. CASE CheckForCopyright(lines) = <<<<0, "legal/copyright", 5>>>>
  <2>1. CheckForCopyright(lines) = <<e>>
    BY <1>1, <1>10, Zenon
  <2>2. QED
    BY <1>1, <1>6, <2>1, Zenon
<1>11. QED
  BY <1>8, <1>9, <1>10

\* An unfinished multi-line comment is reported before any comment is read, and not judged.
LEMMA CommentRight ==
  ASSUME NEW v, NEW was, SettingsOf(v, was), NEW log, Right(v, log), Alike(log.state, was), NEW sup,
         NEW errors, errors = << >> \/ \E j : errors = <<<<j, "readability/multiline_comment", 5>>>>
  PROVE  Right(v, Error(log, sup, errors)) /\ Alike(Error(log, sup, errors).state, was)
<1>1. CASE errors = << >>
  BY <1>1, NoneRight
<1>2. CASE \E j : errors = <<<<j, "readability/multiline_comment", 5>>>>
  <2>1. PICK j : errors = <<<<j, "readability/multiline_comment", 5>>>>
    BY <1>2
  <2>2. PICK e : e = <<j, "readability/multiline_comment", 5>>
    OBVIOUS
  <2>3. e[2] = "readability/multiline_comment"
    BY <2>2
  <2>4. JudgedRight(v, sup, e)
    BY <2>3, Zenon DEF JudgedRight, JudgedIn
  <2>5. Right(v, Error(log, sup, <<e>>)) /\ Alike(Error(log, sup, <<e>>).state, was)
    BY <2>4, OneRight
  <2>6. errors = <<e>>
    BY <2>1, <2>2, Zenon
  <2>7. QED
    BY <2>5, <2>6, Zenon
<1>3. QED
  BY <1>1, <1>2

\* The parts of the head.
HeadIn(head, log, f, lines, extensions, copyright, global, start, errors, guard, d) ==
  /\ copyright = Error(log, NoSuppressions, CheckForCopyright(lines))
  /\ global = [NoSuppressions EXCEPT !.global = ProcessGlobalSuppresions(lines)]
  /\ start = [log |-> Error(copyright, global, errors), suppress |-> global]
  /\ d = CleansedLines(RemoveMultiLineComments(lines).lines) /\ head.doc = d
  /\ errors = RemoveMultiLineComments(lines).errors
  /\ guard = << >> \/ (guard = CheckForHeaderGuard(d, f.cppvar) /\ f.ext \in extensions)
  /\ Len(guard) \in Nat => \E g : /\ HeadUpto(g, start, guard, d, Len(guard))
                                  /\ head.log = g[Len(guard)].log /\ head.suppress = g[Len(guard)].suppress

\* There are such parts.
LEMMA HeadParts ==
  ASSUME NEW log, NEW f, NEW lines, NEW extensions, NEW head, head = CheckHead(log, f, lines, extensions)
  PROVE  \E copyright, global, start, errors, guard, d :
           HeadIn(head, log, f, lines, extensions, copyright, global, start, errors, guard, d)
<1>1. PICK copyright, global, start, errors, guard, d :
         /\ copyright = Error(log, NoSuppressions, CheckForCopyright(lines))
         /\ global = [NoSuppressions EXCEPT !.global = ProcessGlobalSuppresions(lines)]
         /\ start = [log |-> Error(copyright, global, errors), suppress |-> global]
         /\ d = CleansedLines(RemoveMultiLineComments(lines).lines) /\ head.doc = d
         /\ errors = RemoveMultiLineComments(lines).errors
         /\ guard = << >> \/ (guard = CheckForHeaderGuard(d, f.cppvar) /\ f.ext \in extensions)
         /\ Len(guard) \in Nat => \E g : /\ HeadUpto(g, start, guard, d, Len(guard))
                                         /\ head.log = g[Len(guard)].log /\ head.suppress = g[Len(guard)].suppress
  BY HeadDef
<1>2. HeadIn(head, log, f, lines, extensions, copyright, global, start, errors, guard, d)
  BY <1>1, Zenon DEF HeadIn
<1>3. QED
  BY <1>2

\* The check of the guard starts with what was reported before.
LEMMA HeadFirst ==
  ASSUME NEW start, NEW guard, NEW d, NEW n, NEW g, n \in Nat, HeadUpto(g, start, guard, d, n)
  PROVE  g[0] = start
BY HeadSteps

\* Lines are numbered from 1.
LEMMA LinesFromOne == ASSUME NEW N \in Nat PROVE \A k \in 1 .. N : ~(k <= 0)
OBVIOUS

\* All errors up to the first line are reported right, and the suppressions that
\* the check of the guard leaves are those of lines it has read.
LEMMA HeadRight ==
  ASSUME NEW v, NEW N, NEW was, NEW lines, N = Len(lines), NEW log, NEW f, NEW extensions, NEW head,
         head = CheckHead(log, f, lines, extensions), v.doc = head.doc, v.cppvar = f.cppvar,
         f.ext \in extensions => v.guarded, ProcessGlobalSuppresions(lines) = v.global,
         v.global \subseteq {"readability/casting", "whitespace/tab"}, N \in Nat,
         DOMAIN v.doc.raw_lines = 1 .. N, DOMAIN v.doc.elided = 1 .. N,
         \A j \in 1 .. N : v.doc.elided[j].dir # "" => v.doc.elided[j].nolint = v.doc.raw_lines[j].nolint,
         SettingsOf(v, was), Right(v, log), Alike(log.state, was)
  PROVE  Right(v, head.log) /\ Alike(head.log.state, was) /\ Known(v, head.suppress, 0)
<1>0. PICK copyright, global, start, errors, guard, d :
         HeadIn(head, log, f, lines, extensions, copyright, global, start, errors, guard, d)
  BY HeadParts, Zenon
<1>1. /\ copyright = Error(log, NoSuppressions, CheckForCopyright(lines))
      /\ global = [NoSuppressions EXCEPT !.global = ProcessGlobalSuppresions(lines)]
      /\ start = [log |-> Error(copyright, global, errors), suppress |-> global]
      /\ d = CleansedLines(RemoveMultiLineComments(lines).lines) /\ head.doc = d
      /\ errors = RemoveMultiLineComments(lines).errors
      /\ guard = << >> \/ (guard = CheckForHeaderGuard(d, f.cppvar) /\ f.ext \in extensions)
      /\ Len(guard) \in Nat => \E g : /\ HeadUpto(g, start, guard, d, Len(guard))
                                      /\ head.log = g[Len(guard)].log /\ head.suppress = g[Len(guard)].suppress
  BY <1>0, Zenon DEF HeadIn
<1>2. Right(v, copyright) /\ Alike(copyright.state, was)
  BY <1>1, CopyrightRight, Zenon
<1>3. errors = << >> \/ \E j : errors = <<<<j, "readability/multiline_comment", 5>>>>
  BY <1>1, CommentErrors, Zenon
<1>4. PICK log1 : log1 = Error(copyright, global, errors)
  OBVIOUS
<1>5. Right(v, Error(copyright, global, errors)) /\ Alike(Error(copyright, global, errors).state, was)
  BY <1>2, <1>3, CommentRight, Zenon
<1>6. Right(v, log1) /\ Alike(log1.state, was)
  BY <1>4, <1>5, Zenon
<1>7. global = [lines |-> {}, global |-> v.global]
  BY <1>1 DEF NoSuppressions
<1>8. PICK none : none = {}
  OBVIOUS
<1>9. Said(v, global, none)
  <2>1. global.lines = {} /\ global = [lines |-> global.lines, global |-> v.global]
    BY <1>7
  <2>2. QED
    BY <1>8, <2>1, Zenon DEF Said
<1>10. start = [log |-> log1, suppress |-> global]
  BY <1>1, <1>4, Zenon
<1>11. start.log = log1 /\ start.suppress = global
  BY <1>10
<1>12. GoodAt(v, was, start, none)
  BY <1>6, <1>9, <1>11, Zenon DEF GoodAt
<1>13. ASSUME NEW a, \E K : GoodAt(v, was, a, K) /\ Upto(v, K, 0), head.log = a.log, head.suppress = a.suppress
       PROVE  Right(v, head.log) /\ Alike(head.log.state, was) /\ Known(v, head.suppress, 0)
  BY <1>13, Zenon DEF GoodAt, Known
<1>14. CASE guard = << >>
  <2>1. Len(guard) = 0
    BY <1>14
  <2>2. Len(guard) \in Nat
    <3>1. 0 \in Nat
      BY ONLY TRUE
    <3>2. QED
      BY <2>1, <3>1, Zenon
  <2>3. PICK g : /\ HeadUpto(g, start, guard, d, Len(guard))
                 /\ head.log = g[Len(guard)].log /\ head.suppress = g[Len(guard)].suppress
    BY <1>1, <2>2, Zenon
  <2>4. g[0] = start
    <3>1. PICK n : n = Len(guard)
      OBVIOUS
    <3>2. n \in Nat /\ HeadUpto(g, start, guard, d, n)
      BY <2>2, <2>3, <3>1, Zenon
    <3>3. QED
      BY <3>2, HeadFirst, ZenonT(40)
  <2>5. head.log = g[0].log /\ head.suppress = g[0].suppress
    BY <2>1, <2>3, Zenon
  <2>6. head.log = start.log /\ head.suppress = start.suppress
    BY <2>4, <2>5, Zenon
  <2>7. Upto(v, none, 0)
    <3>1. \A k \in 1 .. N : ~(k <= 0)
      BY LinesFromOne
    <3>2. QED
      BY <1>8, <3>1, Zenon DEF Upto
  <2>8. \E K : GoodAt(v, was, start, K) /\ Upto(v, K, 0)
    BY <1>12, <2>7, Zenon
  <2>9. QED
    BY <1>13, <2>6, <2>8, Zenon
<1>15. CASE guard = CheckForHeaderGuard(d, f.cppvar) /\ f.ext \in extensions
  <2>1. GuardReady(v, N, was)
    BY <1>15, Zenon DEF GuardReady
  <2>2. guard = CheckForHeaderGuard(v.doc, v.cppvar)
    BY <1>1, <1>15, Zenon
  <2>3. /\ Len(guard) \in Nat
        /\ \A g : HeadUpto(g, start, guard, v.doc, Len(guard)) => \E K : GoodAt(v, was, g[Len(guard)], K) /\ Upto(v, K, 0)
    BY <1>8, <1>12, <2>1, <2>2, GuardRuns, Zenon
  <2>4. PICK g : /\ HeadUpto(g, start, guard, d, Len(guard))
                 /\ head.log = g[Len(guard)].log /\ head.suppress = g[Len(guard)].suppress
    BY <1>1, <2>3, Zenon
  <2>5. \E K : GoodAt(v, was, g[Len(guard)], K) /\ Upto(v, K, 0)
    BY <1>1, <2>3, <2>4, Zenon
  <2>6. QED
    BY <1>13, <2>4, <2>5, Zenon
<1>16. QED
  BY <1>1, <1>14, <1>15, Zenon

\* The marks of a whole file silence two categories.
LEMMA GlobalOfTwo ==
  ASSUME NEW path
  PROVE  GlobalOf(path) \subseteq {"readability/casting", "whitespace/tab"}
<1>1. PICK marks : marks = UNION {TextLines(path)[k].marks : k \in DOMAIN text[path]}
  OBVIOUS
<1>2. GlobalOf(path) = (IF "LINT_C_FILE" \in marks THEN {"readability/casting"} ELSE {})
                       \cup (IF "LINT_KERNEL_FILE" \in marks THEN {"whitespace/tab"} ELSE {})
  BY <1>1, Zenon DEF GlobalOf
<1>3. QED
  BY <1>2

\* A file begins with its own filters, with the comments of no line in force but those that the
\* check of the header guard has read, and with a report that is right until then.
LEMMA BeginReports ==
  ASSUME LintTyped, LintTyped', DocInv, Afresh, Afresh', ProcessFile, NEW cfg, cfg = ProcessConfigOverrides(file'),
         _valid_extensions' = cfg.valid, _hpp_headers' = cfg.hpp, NEW head, Begun(cfg, head)
  PROVE  ReportsInv'
<1>1. PICK path, lines, f, extensions : /\ path = file' /\ lines = TextLines(path) /\ f = files[path]
                                        /\ extensions = GetHeaderExtensions(cfg.valid, cfg.hpp)
  OBVIOUS
<1>2. PICK was : was = Filtered(cfg)
  OBVIOUS
<1>3. PICK log : log = [state |-> was, found |-> << >>, reported |-> << >>]
  OBVIOUS
<1>4. log.state = was /\ log.found = << >> /\ log.reported = << >>
  BY <1>3
<1>5. path \in Reachable(scenario) /\ path = Head(filenames) /\ UNCHANGED lintInput
  BY <1>1, FileIsReachable, FileBegins
<1>6. scenario' = scenario /\ text' = text /\ options' = options /\ configs' = configs /\ files' = files
  BY <1>5 DEF lintInput, options, configs, files
<1>7. /\ head = CheckHead(log, f, lines, extensions) /\ ~cfg.excluded /\ ~BadFilter(was.filters)
      /\ pc' = "lines" /\ linenum' = 1 /\ doc' = head.doc /\ suppress' = head.suppress /\ state' = head.log.state
      /\ found' = head.log.found /\ reported' = head.log.reported
  BY <1>1, <1>2, <1>3, Zenon DEF Begun
<1>8. PICK v : v = View'
  OBVIOUS
<1>9. FiltersOf(file)' = FiltersOf(path) /\ GlobalOf(file)' = GlobalOf(path) /\ headers' = extensions
  <2>1. FiltersOf(file)' = FiltersOf(path) /\ GlobalOf(file)' = GlobalOf(path)
    BY <1>1, <1>6, ZenonT(40) DEF FiltersOf, GlobalOf, TextLines
  <2>2. headers' = extensions
    BY <1>1, Zenon DEF headers
  <2>3. QED
    BY <2>1, <2>2
<1>10. /\ v.doc = head.doc /\ v.cppvar = f.cppvar /\ (v.guarded <=> f.ext \in extensions)
       /\ v.global = GlobalOf(path) /\ v.filters = FiltersOf(path) /\ v.verbose = options.verbose
  <2>1. files[file]' = f
    BY <1>1, <1>6
  <2>2. QED
    BY <1>6, <1>7, <1>8, <1>9, <2>1, ViewPartsNext
<1>11. lines \in Seq({Line[k] : k \in DOMAIN Line})
  BY <1>1, <1>5, LinesOfText
<1>12. PICK N : N = Len(lines)
  OBVIOUS
<1>13. head.doc = CleansedLines(RemoveMultiLineComments(lines).lines)
  <2>1. PICK copyright, global, start, errors, guard, d :
             HeadIn(head, log, f, lines, extensions, copyright, global, start, errors, guard, d)
    BY <1>7, HeadParts, Zenon
  <2>2. QED
    BY <2>1, Zenon DEF HeadIn
<1>14. N \in Nat /\ DOMAIN v.doc.raw_lines = 1 .. N /\ DOMAIN v.doc.elided = 1 .. N
  BY <1>10, <1>11, <1>12, <1>13, DocFacts
<1>15. \A j \in 1 .. N : v.doc.elided[j].dir # "" => v.doc.elided[j].nolint = v.doc.raw_lines[j].nolint
  BY <1>10, <1>11, <1>13, <1>14, ElidedLine, ZenonT(40)
<1>16. ProcessGlobalSuppresions(lines) = v.global
  BY <1>1, <1>5, <1>10, GlobalIs
<1>17. v.global \subseteq {"readability/casting", "whitespace/tab"}
  BY <1>10, GlobalOfTwo, Zenon
<1>18. state'.filters = FiltersOf(path) /\ state'.verbose_level = options.verbose
  BY <1>6, <1>7, <1>9 DEF Afresh, FilesStartAfresh
<1>19. /\ was.filters = FiltersOf(path) /\ was.verbose_level = options.verbose /\ DOMAIN was = Fields
       /\ \E U : was.filters \in Seq(U)
  <2>1. PICK base, backed : base = _DEFAULT_FILTERS \o options.filters /\ backed = BackupFilters(state)
    OBVIOUS
  <2>2. DOMAIN state = Fields /\ state.filters = base /\ state.verbose_level = options.verbose
    BY <2>1 DEF Afresh, FreshInv, Fields, ProcessFile
  <2>3. DOMAIN backed = Fields /\ backed.filters = base /\ backed.verbose_level = options.verbose
    BY <2>1, <2>2 DEF BackupFilters, Fields
  <2>4. DOMAIN was = Fields /\ was.filters = base \o cfg.filters /\ was.verbose_level = options.verbose
    BY <1>2, <2>1, <2>3 DEF Filtered, Fields
  <2>5. path \in Seq(STRING)
    BY <1>5, LintAssumption DEF LintTyped, Reachable, ToSet
  <2>6. cfg.filters = FlattenSeq(Added(path)) /\ cfg.filters \in Seq(Rule)
    BY <1>1, <1>7, <2>5, OverridesAreRight
  <2>7. was.filters = FiltersOf(path)
    BY <2>1, <2>4, <2>6, FiltersOfIs, Zenon
  <2>8. IsSeq(was.filters)
    <3>1. options.filters \in Seq(Rule)
      BY LintAssumption DEF LintTyped, options
    <3>2. IsSeq(options.filters) /\ IsSeq(cfg.filters)
      BY <2>6, <3>1, Zenon DEF IsSeq
    <3>3. IsSeq(_DEFAULT_FILTERS)
      BY SeqShort DEF _DEFAULT_FILTERS
    <3>4. IsSeq(_DEFAULT_FILTERS \o options.filters)
      BY <3>2, <3>3, SeqBoth, Zenon
    <3>5. IsSeq(base)
      BY <2>1, <3>4, Zenon
    <3>6. IsSeq(base \o cfg.filters)
      BY <3>2, <3>5, SeqBoth, Zenon
    <3>7. QED
      BY <2>4, <3>6, Zenon
  <2>9. QED
    BY <2>4, <2>7, <2>8, Zenon DEF IsSeq
<1>20. SettingsOf(v, was) /\ Alike(log.state, was)
  <2>1. SettingsOf(v, was)
    BY <1>7, <1>10, <1>19, Zenon DEF SettingsOf
  <2>2. Alike(log.state, was)
    BY <1>4, <1>19, Zenon DEF Alike
  <2>3. QED
    BY <2>1, <2>2
<1>21. Right(v, log)
  <2>1. PICK U : U = {}
    OBVIOUS
  <2>2. log.found \in Seq(U) /\ log.reported \in Seq(U)
    BY <1>4, <2>1
  <2>3. Only(<< >>, {e \in ToSet(<< >>) : JudgedIn(v, e)}) = Only(<< >>, {e \in ToSet(<< >>) : DueIn(v, e)})
    <3>1. ToSet(<< >>) = {}
      BY DEF ToSet
    <3>2. PICK none : none = << >>
      OBVIOUS
    <3>3. {e \in ToSet(none) : JudgedIn(v, e)} = {e \in ToSet(none) : DueIn(v, e)}
      BY <3>1, <3>2
    <3>4. QED
      BY <3>2, <3>3
  <2>4. ReportedIn(v, log.found, log.reported)
    BY <1>4, <2>3, Zenon DEF ReportedIn
  <2>5. QED
    BY <2>2, <2>4, Zenon DEF LogOf, Right
<1>22. Right(v, head.log) /\ Alike(head.log.state, was) /\ Known(v, head.suppress, 0)
  <2>1. head = CheckHead(log, f, lines, extensions) /\ v.doc = head.doc /\ v.cppvar = f.cppvar
    BY <1>7, <1>10
  <2>2. f.ext \in extensions => v.guarded
    BY <1>10
  <2>3. SettingsOf(v, was) /\ Right(v, log) /\ Alike(log.state, was)
    BY <1>20, <1>21
  <2>4. N \in Nat /\ DOMAIN v.doc.raw_lines = 1 .. N /\ DOMAIN v.doc.elided = 1 .. N
    BY <1>14
  <2>5. QED
    BY ONLY <1>12, <1>15, <1>16, <1>17, <2>1, <2>2, <2>3, <2>4, HeadRight, Zenon
<1>23. /\ found' \in Seq(ToSet(found')) /\ reported' \in Seq(ToSet(reported')) /\ DueAreReported'
  <2>1. PICK log2 : log2 = head.log
    OBVIOUS
  <2>2. /\ log2.found \in Seq(ToSet(log2.found)) /\ log2.reported \in Seq(ToSet(log2.reported))
        /\ ReportedIn(v, log2.found, log2.reported)
    BY <1>22, <2>1, RightIs
  <2>3. ReportedIn(View', found', reported')
    BY <1>7, <1>8, <2>1, <2>2
  <2>4. DueAreReported'
    BY <2>3, ViewIsNext
  <2>5. QED
    BY <1>7, <2>1, <2>2, <2>4
<1>24. state'.filters \in Seq(ToSet(state'.filters)) /\ ~BadFilter(state'.filters)
  <2>1. PICK st, fs : st = state' /\ fs = st.filters
    OBVIOUS
  <2>2. fs = was.filters
    BY <1>7, <1>22, <2>1, Zenon DEF Alike
  <2>3. PICK U : fs \in Seq(U)
    BY <1>19, <2>2
  <2>4. fs \in Seq(ToSet(fs))
    BY <2>3, OwnElements
  <2>5. QED
    BY <1>7, <2>1, <2>2, <2>4
<1>25. InForce'
  <2>1. PICK sup, K : sup = suppress' /\ Said(v, sup, K)
    BY <1>7, <1>22, Zenon DEF Known
  <2>2. sup = [lines |-> sup.lines, global |-> v.global]
    BY <2>1, Zenon DEF Said
  <2>3. suppress' = [lines |-> suppress'.lines, global |-> GlobalOf(file)']
    BY <1>9, <1>10, <2>1, <2>2
  <2>4. NumLines(doc') = N
    BY <1>7, <1>11, <1>12, <1>13, DocFacts
  <2>5. DOMAIN doc'.raw_lines = 1 .. N /\ linenum' \in 1 .. N + 1 /\ linenum' - 1 = 0
    BY <1>7, <1>10, <1>14
  <2>6. Lined'
    BY <1>14, <2>3, <2>4, <2>5, Zenon DEF Lined
  <2>7. Known(View, suppress, linenum - 1)'
    BY <1>7, <1>8, <1>22, <2>5
  <2>8. QED
    BY <2>6, <2>7, KnownIsNext
<1>26. QED
  BY <1>23, <1>24, <1>25, Zenon DEF ReportsInv, InForce

------------------------------------------------------------------------------
(* Every error is reported exactly. *)

Reports == ReportsInv /\ ReportsExactly

\* Every step keeps the report right.
LEMMA ReportsStep ==
  ASSUME LintTyped, LintTyped', DocInv, NestingInv, Afresh, Afresh', Reports, [LintNext]_lintVars
  PROVE  Reports'
<1>1. CASE ParseArguments
  <2>1. pc = "args" /\ pc' # "lines" /\ found' = found
    BY <1>1 DEF ParseArguments
  <2>2. found' = << >>
    BY <2>1 DEF DocInv
  <2>3. QED
    BY <2>1, <2>2, Zenon DEF Reports, ReportsInv, ReportsExactly
<1>2. CASE ProcessFile
  <2>1. PICK cfg : /\ cfg = ProcessConfigOverrides(file')
                   /\ _valid_extensions' = cfg.valid /\ _hpp_headers' = cfg.hpp
                   /\ pc' = "crash" \/ PassedOver(cfg) \/ \E head : Begun(cfg, head)
    BY <1>2, FileBegins
  <2>2. CASE pc' = "crash"
    <3>1. pc' # "lines" /\ pc' # "files"
      BY <2>2
    <3>2. QED
      BY <3>1, Zenon DEF Reports, ReportsInv, ReportsExactly
  <2>3. CASE PassedOver(cfg)
    <3>1. pc' # "lines" /\ found' = << >>
      BY <2>3 DEF PassedOver
    <3>2. QED
      BY <3>1, Zenon DEF Reports, ReportsInv, ReportsExactly
  <2>4. CASE \E head : Begun(cfg, head)
    <3>1. PICK head : Begun(cfg, head)
      BY <2>4
    <3>2. ReportsInv'
      BY <1>2, <2>1, <3>1, BeginReports
    <3>3. pc' # "files"
      BY <3>1 DEF Begun
    <3>4. QED
      BY <3>2, <3>3, Zenon DEF Reports, ReportsExactly
  <2>5. QED
    BY <2>1, <2>2, <2>3, <2>4
<1>3. CASE ProcessLine
  <2>1. pc' # "files"
    BY <1>3 DEF ProcessLine
  <2>2. ReportsInv'
    BY <1>3, LineReports DEF Reports
  <2>3. QED
    BY <2>1, <2>2, Zenon DEF Reports, ReportsExactly
<1>4. CASE FinishFile
  <2>1. pc' # "lines"
    BY <1>4 DEF FinishFile
  <2>2. DueAreReported'
    BY <1>4, EndReports DEF Reports
  <2>3. QED
    BY <2>1, <2>2, Zenon DEF Reports, ReportsInv, ReportsExactly
<1>5. CASE MainEnds
  <2>1. pc' # "lines" /\ pc' # "files"
    BY <1>5 DEF MainEnds
  <2>2. QED
    BY <2>1, Zenon DEF Reports, ReportsInv, ReportsExactly
<1>6. CASE UNCHANGED lintVars
  <2>1. /\ UNCHANGED <<lintInput, file, doc, settings>>
        /\ pc' = pc /\ state' = state /\ suppress' = suppress /\ found' = found /\ reported' = reported /\ linenum' = linenum /\ doc' = doc
    BY <1>6 DEF lintVars, perFile
  <2>2. View' = View
    BY <2>1, SameView
  <2>3. DueAreReported <=> DueAreReported'
    BY <2>1, <2>2, ViewIs, ViewIsNext
  <2>4. ReportsExactly'
    BY <2>1, <2>3 DEF Reports, ReportsExactly
  <2>5. ReportsInv'
    <3>1. headers' = headers /\ files' = files
      BY <2>1 DEF lintInput, settings, headers, files
    <3>2. \A k : ReadAhead(k)' <=> ReadAhead(k)
      BY <2>1, <3>1 DEF ReadAhead, GuardLine
    <3>3. \A K : SaidIn(K)' = SaidIn(K)
      BY <2>1 DEF SaidIn
    <3>4. InForce => InForce'
      BY <2>1, <3>2, <3>3, Zenon DEF InForce
    <3>5. pc = "lines" => InForce'
      BY <3>4 DEF Reports, ReportsInv, InForce
    <3>6. QED
      BY <2>1, <2>3, <3>5 DEF Reports, ReportsInv, InForce
  <2>6. QED
    BY <2>4, <2>5 DEF Reports
<1>7. QED
  BY <1>1, <1>2, <1>3, <1>4, <1>5, <1>6 DEF LintNext

\* What any file of any tree is reported for is what the checks found in it with at least the
\* confidence asked for, let through by the last filter that matches, and not silenced by a NOLINT
\* comment of the text as a whole, for every command line, configuration and text: whatever
\* the checks read ahead of its turn, no error is lost, or printed, because ParseNolintSuppressions
\* met the comment after the error, or because of a file before; but for the header guard and the
\* empty body of a condition of several lines, which are judged by the comments read until then.
THEOREM LintReportsExactly == LintSpec => []ReportsExactly
<1>1. LintInit => Reports /\ NestingInv /\ Afresh
  <2>1. LintInit => pc = "args"
    BY DEF LintInit
  <2>2. pc = "args" => Reports
    BY Zenon DEF Reports, ReportsInv, ReportsExactly
  <2>3. LintInit => Afresh
    BY DEF LintInit, Afresh, FreshInv, FilesStartAfresh
  <2>4. QED
    BY <2>1, <2>2, <2>3, DocStarts
<1>2. LintTyped /\ LintTyped' /\ DocInv /\ Afresh /\ [LintNext]_lintVars => Afresh'
  BY AfreshStep
<1>3. LintTyped /\ DocInv /\ NestingInv /\ [LintNext]_lintVars => NestingInv'
  BY NestingKept
<1>4. LintTyped /\ LintTyped' /\ DocInv /\ NestingInv /\ Afresh /\ Afresh' /\ Reports /\ [LintNext]_lintVars => Reports'
  BY ReportsStep
<1>5. Reports => ReportsExactly
  BY DEF Reports
<1>6. QED
  BY <1>1, <1>2, <1>3, <1>4, <1>5, LintAlwaysTyped, LintAlwaysInText, PTL DEF LintSpec

------------------------------------------------------------------------------
(* Without inline assembly in the text no block is one. *)

CalmBlock(b) == DOMAIN b = DOMAIN _BlockInfo(0, TRUE) /\ b.inline_asm = "NO"
Calm(s) == IsSeq(s) /\ \A u \in DOMAIN s : CalmBlock(s[u])
QuietLine(toks) == \A u \in DOMAIN toks : toks[u] # "asm"

\* The blocks that a line opens are no assembly, but for that of an asm.
LEMMA NewBlocks ==
  ASSUME NEW n, NEW x, NEW y, NEW d
  PROVE  /\ CalmBlock([_NamespaceInfo(x, n) EXCEPT !.seen_open_brace = y]) /\ CalmBlock(_ClassInfo(x, d, n))
         /\ CalmBlock(_ExternCInfo(n)) /\ CalmBlock([_BlockInfo(n, TRUE) EXCEPT !.inline_asm = "NO"])
<1>1. CalmBlock([_NamespaceInfo(x, n) EXCEPT !.seen_open_brace = y])
  BY DEF CalmBlock, _NamespaceInfo, _BlockInfo
<1>2. CalmBlock(_ClassInfo(x, d, n))
  <2>1. PICK u, l : _ClassInfo(x, d, n) =
            [_BlockInfo(n, FALSE) EXCEPT !.kind = "class", !.name = x, !.check_namespace_indentation = TRUE,
                                         !.class_indent = u, !.last_line = l]
    BY Zenon DEF _ClassInfo
  <2>2. QED
    BY <2>1 DEF CalmBlock, _BlockInfo
<1>3. CalmBlock(_ExternCInfo(n)) /\ CalmBlock([_BlockInfo(n, TRUE) EXCEPT !.inline_asm = "NO"])
  BY DEF CalmBlock, _ExternCInfo, _BlockInfo
<1>4. QED
  BY <1>1, <1>2, <1>3

\* A sequence by its elements, its length and its domain.
LEMMA SeqOver ==
  ASSUME NEW s, IsSeq(s)
  PROVE  \E U : \E n \in Nat : s \in Seq(U) /\ n = Len(s) /\ DOMAIN s = 1 .. n
<1>1. PICK U : s \in Seq(U)
  BY DEF IsSeq
<1>2. PICK n \in Nat : n = Len(s) /\ DOMAIN s = 1 .. n
  BY SeqLen
<1>3. QED
  BY <1>1, <1>2

\* With no block open there is no assembly.
LEMMA CalmNone == Calm(<< >>)
<1>1. DOMAIN << >> = {}
  OBVIOUS
<1>2. QED
  BY <1>1, SeqNone DEF Calm

\* One stack put upon the other.
LEMMA CalmBoth ==
  ASSUME NEW s, NEW t, Calm(s), Calm(t)
  PROVE  Calm(s \o t)
<1>1. PICK m \in Nat, n \in Nat : /\ m = Len(s) /\ n = Len(t) /\ DOMAIN s = 1 .. m /\ DOMAIN t = 1 .. n
                                 /\ IsSeq(s) /\ IsSeq(t)
  BY SeqLen DEF Calm
<1>2. PICK U, W : s \in Seq(U) /\ t \in Seq(W)
  BY <1>1 DEF IsSeq
<1>3. PICK V : V = U \cup W
  OBVIOUS
<1>4. s \in Seq(V) /\ t \in Seq(V)
  BY <1>2, <1>3
<1>5. PICK r : r = s \o t
  OBVIOUS
<1>6. r \in Seq(V) /\ Len(r) = m + n /\ \A u \in 1 .. m + n : r[u] = IF u <= m THEN s[u] ELSE t[u - m]
  BY <1>1, <1>4, <1>5, ConcatProperties
<1>7. DOMAIN r = 1 .. m + n
  BY <1>1, <1>6
<1>8. ASSUME NEW u \in 1 .. m + n
      PROVE  CalmBlock(r[u])
  <2>1. CASE u <= m
    <3>1. u \in DOMAIN s /\ r[u] = s[u]
      BY <1>1, <1>6, <2>1
    <3>2. QED
      BY <3>1 DEF Calm
  <2>2. CASE ~(u <= m)
    <3>1. u - m \in DOMAIN t /\ r[u] = t[u - m]
      BY <1>1, <1>6, <2>2
    <3>2. QED
      BY <3>1 DEF Calm
  <2>3. QED
    BY <2>1, <2>2
<1>9. IsSeq(r)
  BY <1>6 DEF IsSeq
<1>10. QED
  BY <1>5, <1>7, <1>8, <1>9 DEF Calm

\* A single block.
LEMMA CalmShort ==
  ASSUME NEW e, CalmBlock(e)
  PROVE  Calm(<<e>>)
<1>1. PICK s : s = <<e>>
  OBVIOUS
<1>2. DOMAIN s = {1} /\ s[1] = e
  BY <1>1
<1>3. IsSeq(s)
  BY <1>1, SeqShort
<1>4. QED
  BY <1>1, <1>2, <1>3 DEF Calm

\* One block more.
LEMMA CalmMore ==
  ASSUME NEW s, Calm(s), NEW e, CalmBlock(e)
  PROVE  Calm(Append(s, e))
<1>1. PICK U, n : n \in Nat /\ s \in Seq(U) /\ n = Len(s) /\ DOMAIN s = 1 .. n
  BY SeqOver DEF Calm
<1>2. PICK t : t = Append(s, e)
  OBVIOUS
<1>3. DOMAIN t = 1 .. n + 1 /\ (\A u \in 1 .. n : t[u] = s[u]) /\ t[n + 1] = e
  BY <1>1, <1>2
<1>4. \A u \in 1 .. n + 1 : u \in 1 .. n \/ u = n + 1
  BY <1>1
<1>5. IsSeq(t)
  BY <1>2, SeqMore DEF Calm
<1>6. \A u \in DOMAIN t : CalmBlock(t[u])
  BY <1>1, <1>3, <1>4, Zenon DEF Calm
<1>7. QED
  BY <1>2, <1>5, <1>6 DEF Calm

\* One block less.
LEMMA CalmPop ==
  ASSUME NEW s, Calm(s), s # << >>
  PROVE  Calm(Pop(s))
<1>1. PICK U, n : n \in Nat /\ s \in Seq(U) /\ n = Len(s) /\ DOMAIN s = 1 .. n
  BY SeqOver DEF Calm
<1>2. PICK t : t = Pop(s)
  OBVIOUS
<1>3. t \in Seq(U) /\ Len(t) = n - 1 /\ \A u \in 1 .. n - 1 : t[u] = s[u]
  BY <1>1, <1>2, PopIs
<1>4. DOMAIN t = 1 .. n - 1 /\ \A u \in 1 .. n - 1 : u \in 1 .. n
  BY <1>1, <1>3
<1>5. \A u \in DOMAIN t : CalmBlock(t[u])
  BY <1>1, <1>3, <1>4, Zenon DEF Calm
<1>6. IsSeq(t)
  BY <1>3 DEF IsSeq
<1>7. QED
  BY <1>2, <1>5, <1>6 DEF Calm

\* The block on top.
LEMMA CalmTop ==
  ASSUME NEW s, Calm(s), s # << >>
  PROVE  Len(s) \in DOMAIN s /\ CalmBlock(s[Len(s)]) /\ Top(s) = s[Len(s)]
<1>1. PICK U, n : n \in Nat /\ s \in Seq(U) /\ n = Len(s) /\ DOMAIN s = 1 .. n
  BY SeqOver DEF Calm
<1>2. n > 0
  BY <1>1
<1>3. n \in DOMAIN s
  BY <1>1, <1>2
<1>4. QED
  BY <1>1, <1>3 DEF Calm, Top

\* One block replaced.
LEMMA CalmOther ==
  ASSUME NEW s, Calm(s), NEW k, NEW e, CalmBlock(e)
  PROVE  Calm([s EXCEPT ![k] = e])
<1>1. PICK t : t = [s EXCEPT ![k] = e]
  OBVIOUS
<1>2. DOMAIN t = DOMAIN s /\ \A u \in DOMAIN s : t[u] = e \/ t[u] = s[u]
  BY <1>1
<1>3. IsSeq(t)
  BY <1>1, SeqOther DEF Calm
<1>4. QED
  BY <1>1, <1>2, <1>3 DEF Calm

\* The rest of a line without asm has none.
LEMMA QuietPart ==
  ASSUME NEW toks, IsSeq(toks), QuietLine(toks), NEW m \in Nat, m # 0
  PROVE  IsSeq(SubSeq(toks, m, Len(toks))) /\ QuietLine(SubSeq(toks, m, Len(toks)))
<1>1. PICK U, n : n \in Nat /\ toks \in Seq(U) /\ n = Len(toks) /\ DOMAIN toks = 1 .. n
  BY SeqOver
<1>2. PICK r : r = SubSeq(toks, m, n)
  OBVIOUS
<1>3. IsSeq(r)
  <2>1. n \in Int /\ n <= Len(toks)
    BY <1>1
  <2>2. QED
    BY <1>2, <2>1, SeqPart
<1>4. \A u \in DOMAIN r : r[u] \in {toks[w] : w \in 1 .. n}
  <2>1. \A u \in m .. n : toks[u] \in U
    BY <1>1
  <2>2. /\ Len(r) = (IF m <= n THEN n - m + 1 ELSE 0) /\ r \in Seq(U)
        /\ \A u \in 1 .. n - m + 1 : r[u] = toks[m + u - 1]
    BY <1>1, <1>2, <2>1, SubSeqProperties
  <2>3. \A u \in DOMAIN r : u \in 1 .. n - m + 1 /\ m + u - 1 \in 1 .. n
    <3>1. PICK k : k = Len(r)
      OBVIOUS
    <3>2. k \in Nat /\ DOMAIN r = 1 .. k
      BY <2>2, <3>1
    <3>3. k = IF m <= n THEN n - m + 1 ELSE 0
      BY <2>2, <3>1
    <3>4. \A u \in 1 .. k : u \in 1 .. n - m + 1 /\ m + u - 1 \in 1 .. n
      BY <1>1, <3>2, <3>3
    <3>5. QED
      BY <3>2, <3>4
  <2>4. QED
    BY <2>2, <2>3
<1>5. QED
  BY <1>1, <1>2, <1>3, <1>4 DEF QuietLine

\* A line without asm starts no assembly.
LEMMA NoneStarts ==
  ASSUME NEW toks, IsSeq(toks), QuietLine(toks)
  PROVE  ~StartsAsm(toks)
<1>1. Len(toks) \in Nat /\ DOMAIN toks = 1 .. Len(toks)
  BY SeqLen
<1>2. Len(toks) > 1 => 1 \in DOMAIN toks
  BY <1>1
<1>3. QED
  BY <1>2 DEF QuietLine, StartsAsm

\* Counting parentheses opens no assembly.
LEMMA ParenthesesCalm ==
  ASSUME NEW stack, Calm(stack), NEW toks, IsSeq(toks), QuietLine(toks)
  PROVE  Calm(CountParentheses(stack, toks))
<1>1. CASE stack = << >>
  BY <1>1 DEF CountParentheses
<1>2. CASE stack # << >>
  <2>1. PICK n, b : n = Len(stack) /\ b = stack[n]
    OBVIOUS
  <2>2. n \in DOMAIN stack /\ CalmBlock(b) /\ Top(stack) = b
    BY <1>2, <2>1, CalmTop
  <2>3. Top(stack).inline_asm = "NO" /\ ~StartsAsm(toks)
    BY <2>2, NoneStarts DEF CalmBlock
  <2>4. PICK x : CountParentheses(stack, toks) =
                   [stack EXCEPT ![Len(stack)].open_parentheses = x, ![Len(stack)].inline_asm = "NO"]
    BY <1>2, <2>3 DEF CountParentheses
  <2>5. PICK e : e = [[b EXCEPT !.open_parentheses = x] EXCEPT !.inline_asm = "NO"]
    OBVIOUS
  <2>6. CountParentheses(stack, toks) = [stack EXCEPT ![n] = e]
    BY <2>1, <2>2, <2>4, <2>5
  <2>7. CalmBlock(e)
    BY <2>2, <2>5 DEF CalmBlock, _BlockInfo
  <2>8. Calm([stack EXCEPT ![n] = e])
    BY <2>7, CalmOther
  <2>9. QED
    BY <2>6, <2>8
<1>3. QED
  BY <1>1, <1>2

\* The namespaces at the head of a line.
LEMMA NamespacesCalm ==
  ASSUME NEW stack, Calm(stack), NEW toks, IsSeq(toks), QuietLine(toks), NEW n, NEW r, r = ConsumeNamespaces(stack, toks, n)
  PROVE  Calm(r.stack) /\ IsSeq(r.toks) /\ QuietLine(r.toks)
<1>1. PICK N \in Nat : N = Len(toks)
  BY SeqLen
<1>2. PICK f : /\ NamespacesFrom(f, toks, n, 1)
               /\ r = [stack |-> stack \o f[1].opened, toks |-> SubSeq(toks, f[1].rest, N)]
  BY <1>1, NamespacesDef
<1>3. \A p \in 1 .. N + 1 : f[p] = NamespaceStep(f[NamespaceNext(toks, p)], toks, n, p)
  BY <1>1, <1>2, Zenon DEF NamespacesFrom
<1> DEFINE OK(x) == \E o, q : x = [opened |-> o, rest |-> q] /\ Calm(o) /\ q \in Nat /\ q # 0
           T == {k \in Nat : k <= N => \A p \in N + 1 - k .. N + 1 : OK(f[p])}
<1>4. ASSUME NEW p \in 1 .. N + 1, p \in 1 .. N => OK(f[NamespaceNext(toks, p)])
      PROVE  OK(f[p])
  <2>1. PICK was : was = f[NamespaceNext(toks, p)]
    OBVIOUS
  <2>2. f[p] = NamespaceStep(was, toks, n, p)
    BY <1>3, <2>1
  <2>3. CASE p > Len(toks) \/ toks[p] # "namespace"
    <3>1. f[p] = [opened |-> << >>, rest |-> p]
      BY <2>2, <2>3 DEF NamespaceStep
    <3>2. Calm(<< >>) /\ p \in Nat /\ p # 0
      BY CalmNone
    <3>3. QED
      BY <3>1, <3>2
  <2>4. CASE ~(p > Len(toks) \/ toks[p] # "namespace")
    <3>1. PICK name, seen, new : /\ new = [_NamespaceInfo(name, n) EXCEPT !.seen_open_brace = seen]
                                 /\ f[p] = [was EXCEPT !.opened = <<new>> \o @]
      BY <2>2, <2>4 DEF NamespaceStep
    <3>2. p \in 1 .. N
      BY <1>1, <2>4
    <3>3. PICK o, q : was = [opened |-> o, rest |-> q] /\ Calm(o) /\ q \in Nat /\ q # 0
      BY <1>4, <2>1, <3>2
    <3>4. PICK l, b : l = <<new>> /\ b = l \o o
      OBVIOUS
    <3>5. CalmBlock(new)
      BY <3>1, NewBlocks
    <3>6. Calm(l)
      BY <3>4, <3>5, CalmShort
    <3>7. Calm(b)
      BY <3>3, <3>4, <3>6, CalmBoth
    <3>8. f[p] = [opened |-> b, rest |-> q]
      BY <3>1, <3>3, <3>4
    <3>9. QED
      BY <3>3, <3>7, <3>8
  <2>5. QED
    BY <2>3, <2>4
<1> HIDE DEF OK
<1>5. 0 \in T
  <2>1. ASSUME NEW p \in N + 1 .. N + 1
        PROVE  OK(f[p])
    BY <1>4
  <2>2. N + 1 - 0 = N + 1
    OBVIOUS
  <2>3. QED
    BY <2>1, <2>2
<1>6. ASSUME NEW k \in T
      PROVE  k + 1 \in T
  <2>1. SUFFICES ASSUME k + 1 <= N, NEW p \in N + 1 - (k + 1) .. N + 1
                 PROVE  OK(f[p])
    OBVIOUS
  <2>2. \A q \in N + 1 - k .. N + 1 : OK(f[q])
    BY <2>1
  <2>3. CASE p \in N + 1 - k .. N + 1
    BY <2>2, <2>3
  <2>4. CASE p = N + 1 - (k + 1)
    <3>1. p \in 1 .. N /\ p \in 1 .. N + 1
      BY <2>1, <2>4
    <3>2. NamespaceNext(toks, p) \in p + 1 .. N + 1
      BY <1>1, <3>1, NamespaceNextIs
    <3>3. NamespaceNext(toks, p) \in N + 1 - k .. N + 1
      BY <2>4, <3>2
    <3>4. QED
      BY <1>4, <2>2, <3>1, <3>3
  <2>5. p \in N + 1 - k .. N + 1 \/ p = N + 1 - (k + 1)
    BY <2>1
  <2>6. QED
    BY <2>3, <2>4, <2>5
<1>7. N \in T
  <2>1. T = Nat
    BY <1>5, <1>6, AllNumbers
  <2>2. QED
    BY <2>1
<1>8. OK(f[1])
  <2>1. 1 \in N + 1 - N .. N + 1
    OBVIOUS
  <2>2. QED
    BY <1>7, <2>1
<1>9. PICK o, q : f[1] = [opened |-> o, rest |-> q] /\ Calm(o) /\ q \in Nat /\ q # 0
  BY <1>8 DEF OK
<1>10. r.stack = stack \o o /\ r.toks = SubSeq(toks, q, N)
  BY <1>2, <1>9
<1>11. IsSeq(SubSeq(toks, q, N)) /\ QuietLine(SubSeq(toks, q, N))
  BY <1>1, <1>9, QuietPart
<1>12. Calm(stack \o o)
  BY <1>9, CalmBoth
<1>13. QED
  BY <1>10, <1>11, <1>12

\* Nor does the head of a class.
LEMMA ClassCalm ==
  ASSUME NEW r, Calm(r.stack), IsSeq(r.toks), QuietLine(r.toks), NEW d, NEW n, NEW c, c = ConsumeClass(r, d, n)
  PROVE  Calm(c.stack) /\ IsSeq(c.toks) /\ QuietLine(c.toks)
<1>1. PICK toks, stack, h : toks = r.toks /\ stack = r.stack /\ h = ClassHead(toks)
  OBVIOUS
<1>2. PICK info, rest : info = _ClassInfo(toks[h + 1], d, n) /\ rest = SubSeq(toks, h + 2, Len(toks))
  OBVIOUS
<1>3. c = r \/ c = [stack |-> Append(stack, info), toks |-> rest]
  BY <1>1, <1>2, Zenon DEF ConsumeClass
<1>4. IsSeq(rest) /\ QuietLine(rest)
  <2>1. IsSeq(toks) /\ QuietLine(toks)
    BY <1>1
  <2>2. h \in Nat
    BY <1>1, <2>1, ClassHeadIs
  <2>3. h + 2 \in Nat /\ h + 2 # 0
    BY <2>2
  <2>4. QED
    BY <1>2, <2>1, <2>3, QuietPart
<1>5. Calm(Append(stack, info))
  <2>1. CalmBlock(info)
    BY <1>2, NewBlocks
  <2>2. Calm(stack)
    BY <1>1
  <2>3. QED
    BY <2>1, <2>2, CalmMore
<1>6. CASE c = r
  BY <1>6
<1>7. CASE c = [stack |-> Append(stack, info), toks |-> rest]
  <2>1. c.stack = Append(stack, info) /\ c.toks = rest
    BY <1>7
  <2>2. QED
    BY <1>4, <1>5, <2>1
<1>8. QED
  BY <1>3, <1>6, <1>7

\* The braces, semicolons and parentheses.
LEMMA RestQuiet ==
  ASSUME NEW toks, IsSeq(toks), QuietLine(toks), NEW p \in 1 .. Len(toks)
  PROVE  ~StartsAsm(Rest(toks, p))
<1>1. PICK N \in Nat : N = Len(toks) /\ DOMAIN toks = 1 .. N
  BY SeqLen
<1>2. PICK S, k : S = {u \in Marks(toks) : u < p} /\ k = Latest(S, 0)
  OBVIOUS
<1>3. k \in Nat
  <2>1. S \subseteq 1 .. N
    BY <1>1, <1>2 DEF Marks
  <2>2. k \in 0 .. N
    BY <1>2, <2>1, GreatestOf
  <2>3. QED
    BY <2>2
<1>4. k + 1 \in Nat /\ k + 1 # 0
  BY <1>3
<1>5. PICK m, r : m = k + 1 /\ r = SubSeq(toks, m, Len(toks))
  OBVIOUS
<1>6. IsSeq(r) /\ QuietLine(r)
  BY <1>4, <1>5, QuietPart
<1>7. ~StartsAsm(r)
  BY <1>6, NoneStarts
<1>8. Rest(toks, p) = r
  BY <1>2, <1>5 DEF Rest
<1>9. QED
  BY <1>7, <1>8

\* Nor does a brace or semicolon of such a line.
LEMMA MarkCalm ==
  ASSUME NEW s, Calm(s), NEW toks, IsSeq(toks), QuietLine(toks), NEW n, NEW p \in 1 .. Len(toks)
  PROVE  Calm(AfterMark(s, toks, n, p))
<1>1. Calm(OpenedBy(s, Rest(toks, p), n))
  <2>1. PICK r : r = Rest(toks, p)
    OBVIOUS
  <2>2. ~StartsAsm(r)
    BY <2>1, RestQuiet
  <2>3. CASE ~SeenOpenBrace(s)
    <3>1. s # << >>
      BY <2>3 DEF SeenOpenBrace
    <3>2. PICK k, b, e : k = Len(s) /\ b = s[k] /\ e = [b EXCEPT !.seen_open_brace = TRUE]
      OBVIOUS
    <3>3. k \in DOMAIN s /\ CalmBlock(b)
      BY <3>1, <3>2, CalmTop
    <3>4. OpenedBy(s, r, n) = [s EXCEPT ![k] = e]
      BY <2>3, <3>2, <3>3 DEF OpenedBy
    <3>5. CalmBlock(e)
      BY <3>2, <3>3 DEF CalmBlock, _BlockInfo
    <3>6. Calm([s EXCEPT ![k] = e])
      BY <3>5, CalmOther
    <3>7. QED
      BY <2>1, <3>4, <3>6
  <2>4. CASE SeenOpenBrace(s)
    <3>1. PICK e : OpenedBy(s, r, n) = Append(s, e) /\ CalmBlock(e)
      <4>1. CASE Len(r) > 2 /\ SubSeq(r, 1, 3) = <<"extern", "str", "{">>
        BY <2>4, <4>1, NewBlocks DEF OpenedBy
      <4>2. CASE ~(Len(r) > 2 /\ SubSeq(r, 1, 3) = <<"extern", "str", "{">>)
        <5>1. OpenedBy(s, r, n) = Append(s, [_BlockInfo(n, TRUE) EXCEPT !.inline_asm = "NO"])
          BY <2>2, <2>4, <4>2 DEF OpenedBy
        <5>2. QED
          BY <5>1, NewBlocks
      <4>3. QED
        BY <4>1, <4>2
    <3>2. Calm(Append(s, e))
      BY <3>1, CalmMore
    <3>3. QED
      BY <2>1, <3>1, <3>2
  <2>5. QED
    BY <2>3, <2>4
<1>2. Calm(IF SeenOpenBrace(s) THEN s ELSE Pop(s))
  BY CalmPop DEF SeenOpenBrace
<1>3. Calm(IF s = << >> THEN s ELSE Pop(s))
  BY CalmPop
<1>4. PICK a, b, c : a = OpenedBy(s, Rest(toks, p), n) /\ b = (IF SeenOpenBrace(s) THEN s ELSE Pop(s))
                     /\ c = IF s = << >> THEN s ELSE Pop(s)
  OBVIOUS
<1>5. AfterMark(s, toks, n, p) = a \/ AfterMark(s, toks, n, p) = b \/ AfterMark(s, toks, n, p) = c
  BY <1>4 DEF AfterMark
<1>6. QED
  BY <1>1, <1>2, <1>3, <1>4, <1>5

\* Nor do all of them.
LEMMA BracesCalm ==
  ASSUME NEW stack, Calm(stack), NEW toks, IsSeq(toks), QuietLine(toks), NEW d, NEW n,
         NEW b, b = ConsumeBraces(stack, toks, d, n)
  PROVE  Calm(b.stack) /\ b = [stack |-> b.stack, errors |-> b.errors]
<1>1. PICK m \in Nat : m = Len(toks) /\ DOMAIN toks = 1 .. m
  BY SeqLen
<1>2. PICK start : start = [stack |-> stack, errors |-> << >>]
  OBVIOUS
<1>3. \E f : BracesUpto(f, start, toks, d, n, m)
  BY <1>1, BracesExist
<1>4. PICK g : g = CHOOSE f : BracesUpto(f, [stack |-> stack, errors |-> << >>], toks, d, n, Len(toks))
  OBVIOUS
<1>5. BracesUpto(g, start, toks, d, n, m)
  <2>1. \E f : BracesUpto(f, [stack |-> stack, errors |-> << >>], toks, d, n, Len(toks))
    BY <1>1, <1>2, <1>3, Zenon
  <2>2. BracesUpto(g, [stack |-> stack, errors |-> << >>], toks, d, n, Len(toks))
    BY <1>4, <2>1, Zenon
  <2>3. QED
    BY <1>1, <1>2, <2>2, Zenon
<1>6. b = g[m]
  BY <1>1, <1>4, Zenon DEF ConsumeBraces, BracesUpto, BraceStep, AfterMark, ClosedBy, OpenedBy, Rest, Marks
<1>7. \A k \in 0 .. m : g[k] = IF k = 0 THEN start ELSE BraceStep(g[k - 1], toks, d, n, k)
  BY <1>5, Zenon DEF BracesUpto
<1> DEFINE P(x) == \E s, e : x = [stack |-> s, errors |-> e] /\ Calm(s)
           T == {k \in Nat : k <= m => P(g[k])}
<1>8. 0 \in T
  <2>1. g[0] = start
    BY <1>7
  <2>2. P(g[0])
    BY <1>2, <2>1
  <2>3. QED
    BY <2>2
<1> HIDE DEF P
<1>9. ASSUME NEW k \in T
      PROVE  k + 1 \in T
  <2>1. SUFFICES ASSUME k + 1 <= m
                 PROVE  P(g[k + 1])
    OBVIOUS
  <2>2. PICK s, e : g[k] = [stack |-> s, errors |-> e] /\ Calm(s)
    <3>1. P(g[k])
      BY <2>1
    <3>2. QED
      BY <3>1 DEF P
  <2>3. PICK p : p = k + 1
    OBVIOUS
  <2>4. g[p] = BraceStep([stack |-> s, errors |-> e], toks, d, n, p)
    BY <1>7, <2>1, <2>2, <2>3
  <2>5. PICK s1, e1 : s1 = AfterMark(s, toks, n, p) /\ e1 = e \o ClosedBy(s, toks, d, n, p)
    OBVIOUS
  <2>6. g[p] = [stack |-> s, errors |-> e] \/ g[p] = [stack |-> s1, errors |-> e1]
    BY <2>4, <2>5 DEF BraceStep
  <2>7. Calm(s1)
    <3>1. p \in 1 .. Len(toks)
      BY <1>1, <2>1, <2>3
    <3>2. QED
      BY <2>2, <2>5, <3>1, MarkCalm
  <2>8. QED
    BY <2>2, <2>3, <2>6, <2>7 DEF P
<1>10. T = Nat
  BY <1>8, <1>9, AllNumbers
<1>11. P(b)
  BY <1>6, <1>10
<1>12. PICK s, e : b = [stack |-> s, errors |-> e] /\ Calm(s)
  BY <1>11 DEF P
<1>13. QED
  BY <1>12

\* Nor does the line as a whole.
LEMMA BlocksCalm ==
  ASSUME NEW stack, Calm(stack), NEW d, NEW n, IsSeq(d.elided[n].toks), QuietLine(d.elided[n].toks)
  PROVE  Calm(UpdateBlocks(stack, d, n).stack)
<1>1. PICK toks, s : toks = d.elided[n].toks /\ s = CountParentheses(stack, toks)
  OBVIOUS
<1>2. PICK r : r = ConsumeNamespaces(s, toks, n)
  OBVIOUS
<1>3. PICK c : c = ConsumeClass(r, d, n)
  OBVIOUS
<1>4. PICK cs, ct, f, A : cs = c.stack /\ ct = c.toks /\ f = ConsumeBraces(cs, ct, d, n) /\ A = CheckAccess(cs, ct, d.elided[n], n)
  OBVIOUS
<1>5. UpdateBlocks(stack, d, n) = ConsumeRest(c, d, n)
  BY <1>1, <1>2, <1>3, Zenon DEF UpdateBlocks
<1>6. UpdateBlocks(stack, d, n) = [f EXCEPT !.errors = A \o @]
  BY <1>4, <1>5 DEF ConsumeRest
<1>7. Calm(s) /\ IsSeq(toks) /\ QuietLine(toks)
  BY <1>1, ParenthesesCalm
<1>8. Calm(r.stack) /\ IsSeq(r.toks) /\ QuietLine(r.toks)
  BY <1>2, <1>7, NamespacesCalm
<1>9. Calm(cs) /\ IsSeq(ct) /\ QuietLine(ct)
  BY <1>3, <1>4, <1>8, ClassCalm
<1>10. Calm(f.stack) /\ f = [stack |-> f.stack, errors |-> f.errors]
  BY <1>4, <1>9, BracesCalm
<1>11. QED
  BY <1>6, <1>10

\* The blocks of a text without inline assembly.
LEMMA NoAssembly ==
  ASSUME NEW d, NEW N \in Nat, N = NumLines(d), \A k \in 1 .. N : IsSeq(d.elided[k].toks) /\ QuietLine(d.elided[k].toks),
         NEW now, NEW m \in 0 .. N
  PROVE  Calm(BlocksOf(d, now)[m])
<1>1. PICK f : f = BlocksOf(d, now)
  OBVIOUS
<1>2. \A k \in 0 .. N : f[k] = IF k = 0 THEN << >> ELSE BlocksStep(f[k - 1], d, now, k)
  BY <1>1, BlocksDef
<1> DEFINE T == {k \in Nat : k <= N => Calm(f[k])}
<1>3. 0 \in T
  <2>1. f[0] = << >>
    BY <1>2
  <2>2. QED
    BY <2>1, CalmNone
<1>4. ASSUME NEW k \in T
      PROVE  k + 1 \in T
  <2>1. SUFFICES ASSUME k + 1 <= N
                 PROVE  Calm(f[k + 1])
    OBVIOUS
  <2>2. PICK p : p = k + 1
    OBVIOUS
  <2>3. p \in 1 .. N /\ p \in 0 .. N /\ p # 0 /\ p - 1 = k
    BY <2>1, <2>2
  <2>4. f[p] = BlocksStep(f[k], d, now, p) /\ Calm(f[k])
    BY <1>2, <2>1, <2>3
  <2>5. Calm(UpdateBlocks(f[k], d, p).stack)
    BY <2>3, <2>4, BlocksCalm
  <2>6. Calm(f[p])
    BY <2>4, <2>5 DEF BlocksStep
  <2>7. QED
    BY <2>2, <2>6
<1>5. m \in T
  <2>1. T = Nat
    BY <1>3, <1>4, AllNumbers
  <2>2. QED
    BY <2>1
<1>6. QED
  BY <1>1, <1>5

------------------------------------------------------------------------------
(* Text whose #if groups are not nested. *)

\* What a line does to the group that is open.
LEMMA FlatShape ==
  ASSUME NEW d, NumLines(d) \in Nat, Flat(d), NEW n \in Nat, n + 1 <= NumLines(d),
         NEW b, NEW c, NEW dir, b = Branches(d)[n], c = Branches(d)[n + 1], dir = d.elided[n + 1].dir
  PROVE  /\ b # << >> => b[1][1] \in 1 .. n
         /\ IfDir(dir) => b = << >> /\ c # << >> /\ c[1][1] = n + 1
         /\ ElseDir(dir) => b # << >> /\ c # << >> /\ c[1][1] = b[1][1]
         /\ EndDir(dir) => b # << >> /\ c = << >>
         /\ ~IfDir(dir) /\ ~ElseDir(dir) /\ ~EndDir(dir) => c = b
<1>1. n \in 0 .. NumLines(d) /\ n + 1 \in 0 .. NumLines(d) /\ n + 1 \in 1 .. NumLines(d) /\ n + 1 # 0 /\ n + 1 - 1 = n
  OBVIOUS
<1>2. c = Branched(b, dir, n + 1)
  BY <1>1, BranchesDef
<1>3. InOrder(b, n)
  BY <1>1, AlwaysWellBranched DEF WellBranched
<1>4. b \in Groups
  BY <1>3 DEF InOrder
<1>5. /\ c \in Groups
      /\ IfDir(dir) => Opens(b, c, n + 1)
      /\ ElseDir(dir) /\ b # << >> => Turns(b, c)
      /\ EndDir(dir) /\ b # << >> => Closes(b, c)
      /\ ~IfDir(dir) /\ ~(b # << >> /\ (ElseDir(dir) \/ EndDir(dir))) => c = b
  BY <1>1, <1>2, <1>4, BranchedShape
<1>6. /\ Len(b) \in Nat /\ DOMAIN b = 1 .. Len(b) /\ (b # << >> => Len(b) > 0) /\ (Len(b) = 0 => b = << >>)
      /\ Len(c) \in Nat /\ (c # << >> => Len(c) > 0) /\ (Len(c) = 0 => c = << >>)
  BY <1>4, <1>5, GroupsTyped DEF Groups
<1>7. Len(c) <= 1 /\ (dir \in {"else", "elif", "endif"} => b # << >>)
  BY <1>1 DEF Flat
<1>8. Len(b) <= 1
  <2>1. CASE n = 0
    <3>1. b = << >>
      BY <1>1, <2>1, BranchesDef
    <3>2. QED
      BY <3>1
  <2>2. CASE n # 0
    <3>1. n \in 1 .. NumLines(d)
      BY <1>1, <2>2
    <3>2. QED
      BY <3>1 DEF Flat
  <2>3. QED
    BY <2>1, <2>2
<1>9. b # << >> => Len(b) = 1 /\ b[1][1] \in 1 .. n
  <2>1. SUFFICES ASSUME b # << >>
                 PROVE  Len(b) = 1 /\ b[1][1] \in 1 .. n
    OBVIOUS
  <2>2. Len(b) = 1
    <3>1. PICK l \in Nat : l = Len(b)
      BY <1>6
    <3>2. l <= 1 /\ l > 0
      BY <1>6, <1>8, <2>1, <3>1
    <3>3. l = 1
      BY <3>2
    <3>4. QED
      BY <3>1, <3>3
  <2>3. QED
    BY <1>3, <1>6, <2>2 DEF InOrder
<1>10. CASE IfDir(dir)
  <2>1. Len(c) = Len(b) + 1 /\ c[Len(c)] = <<n + 1, 0>>
    BY <1>5, <1>10 DEF Opens
  <2>2. Len(c) = 1 /\ Len(b) = 0
    BY <1>6, <1>7, <2>1
  <2>3. c[1][1] = n + 1
    BY <2>1, <2>2
  <2>4. ~ElseDir(dir) /\ ~EndDir(dir)
    BY <1>10 DEF IfDir, ElseDir, EndDir
  <2>5. QED
    BY <1>6, <1>9, <1>10, <2>2, <2>3, <2>4
<1>11. CASE ElseDir(dir)
  <2>1. b # << >>
    BY <1>7, <1>11 DEF ElseDir
  <2>2. Len(c) = Len(b) /\ c[Len(c)] = <<b[Len(b)][1], b[Len(b)][2] + 1>> /\ Len(b) = 1
    BY <1>5, <1>9, <1>11, <2>1 DEF Turns
  <2>3. c[1][1] = b[1][1] /\ c # << >>
    BY <1>6, <2>2
  <2>4. ~IfDir(dir) /\ ~EndDir(dir)
    BY <1>11 DEF IfDir, ElseDir, EndDir
  <2>5. QED
    BY <1>9, <1>11, <2>1, <2>3, <2>4
<1>12. CASE EndDir(dir)
  <2>1. b # << >>
    BY <1>7, <1>12 DEF EndDir
  <2>2. Len(c) = Len(b) - 1 /\ Len(b) = 1
    BY <1>5, <1>9, <1>12, <2>1 DEF Closes
  <2>3. c = << >>
    BY <1>6, <2>2
  <2>4. ~IfDir(dir) /\ ~ElseDir(dir)
    BY <1>12 DEF IfDir, ElseDir, EndDir
  <2>5. QED
    BY <1>9, <1>12, <2>1, <2>3, <2>4
<1>13. CASE ~IfDir(dir) /\ ~ElseDir(dir) /\ ~EndDir(dir)
  BY <1>5, <1>9, <1>13
<1>14. QED
  BY <1>10, <1>11, <1>12, <1>13

\* The lines from the #if on, and no others, are in the group that is open.
GroupsAt(d, k) == {g[1] : g \in ToSet(Branches(d)[k])}
\* A line is in the open group if it comes after the #if.
LEMMA FlatGroup ==
  ASSUME NEW d, NumLines(d) \in Nat, Flat(d), NEW n \in 1 .. NumLines(d),
         NEW b, b = Branches(d)[n], b # << >>, NEW k \in 1 .. n
  PROVE  GroupsAt(d, k) = {b[1][1]} <=> k >= b[1][1]
<1>1. n \in 0 .. NumLines(d) /\ k \in 0 .. NumLines(d) /\ k \in 1 .. NumLines(d)
  OBVIOUS
<1>2. PICK a : a = Branches(d)[k]
  OBVIOUS
<1>3. InOrder(b, n) /\ InOrder(a, k) /\ (\A m \in DOMAIN b : Since(d, b[m], n))
  BY <1>1, <1>2, AlwaysWellBranched DEF WellBranched
<1>4. a \in Groups /\ b \in Groups
  BY <1>3 DEF InOrder
<1>5. /\ Len(a) \in Nat /\ DOMAIN a = 1 .. Len(a) /\ Len(b) \in Nat /\ DOMAIN b = 1 .. Len(b) /\ Len(b) > 0
      /\ Len(a) <= 1 /\ Len(b) <= 1
  BY <1>1, <1>2, <1>4, GroupsTyped DEF Flat
<1>6. 1 \in DOMAIN b /\ b[1][1] \in 1 .. n
  BY <1>3, <1>5 DEF InOrder
<1>7. PICK g : g = b[1][1]
  OBVIOUS
<1>8. GroupsAt(d, k) = {a[m][1] : m \in DOMAIN a}
  BY <1>2 DEF GroupsAt, ToSet
<1>9. CASE k >= g
  <2>1. k \in g .. n
    BY <1>6, <1>7, <1>9
  <2>2. PICK m \in DOMAIN a : a[m][1] = g
    BY <1>2, <1>3, <1>6, <1>7, <2>1 DEF Since
  <2>3. \A q \in DOMAIN a : q = m
    BY <1>5
  <2>4. GroupsAt(d, k) = {g}
    BY <1>8, <2>2, <2>3
  <2>5. QED
    BY <1>7, <1>9, <2>4
<1>10. CASE ~(k >= g)
  <2>1. \A m \in DOMAIN a : a[m][1] <= k
    BY <1>3 DEF InOrder
  <2>2. g \notin GroupsAt(d, k)
    BY <1>6, <1>7, <1>8, <1>10, <2>1
  <2>3. QED
    BY <1>7, <1>10, <2>2
<1>11. QED
  BY <1>9, <1>10

------------------------------------------------------------------------------
(* Duplicates, by its recursive definition. *)

Repeats(f, v, k) ==
  IsInclude(v, k) /\ \E u \in 1 .. k - 1 : /\ IsInclude(v, u) /\ ~f[u] /\ ~Elsewhere(v, u) /\ ~Foreign(v, u)
                                           /\ v.doc.elided[u].inc = v.doc.elided[k].inc
                                           /\ ~Parted(v, u, k)
RepeatsUpto(f, v, n) == f = [k \in 1 .. n |-> Repeats(f, v, k)]

\* The recursion over the lines has a solution.
LEMMA RepeatsExist ==
  ASSUME NEW v
  PROVE  \A n \in Nat : \E f : RepeatsUpto(f, v, n)
<1> DEFINE T == {n \in Nat : \E f : RepeatsUpto(f, v, n)}
<1>1. 0 \in T
  <2>1. PICK f : f = [k \in 1 .. 0 |-> TRUE]
    OBVIOUS
  <2>2. 1 .. 0 = {}
    OBVIOUS
  <2>3. f = [k \in 1 .. 0 |-> Repeats(f, v, k)]
    BY <2>1, <2>2, Zenon
  <2>4. QED
    BY <2>3 DEF RepeatsUpto
<1>2. ASSUME NEW n \in T
      PROVE  n + 1 \in T
  <2>1. PICK f : RepeatsUpto(f, v, n)
    OBVIOUS
  <2>2. PICK last : last = Repeats(f, v, n + 1)
    OBVIOUS
  <2>3. PICK g : g = [k \in 1 .. n + 1 |-> IF k = n + 1 THEN last ELSE f[k]]
    OBVIOUS
  <2>4. g[n + 1] = last /\ (\A k \in 1 .. n : g[k] = f[k]) /\ g = [k \in 1 .. n + 1 |-> g[k]]
    BY <2>3
  <2>5. ASSUME NEW k \in 1 .. n + 1
        PROVE  Repeats(g, v, k) = Repeats(f, v, k)
    <3>1. \A u \in 1 .. k - 1 : u \in 1 .. n
      OBVIOUS
    <3>2. \A u \in 1 .. k - 1 : g[u] = f[u]
      BY <2>4, <3>1
    <3>3. QED
      BY <3>2, Zenon DEF Repeats
  <2>6. ASSUME NEW k \in 1 .. n + 1
        PROVE  g[k] = Repeats(g, v, k)
    <3>1. CASE k = n + 1
      BY <2>2, <2>4, <2>5, <3>1, Zenon
    <3>2. CASE k \in 1 .. n
      <4>1. f[k] = Repeats(f, v, k)
        BY <2>1, <3>2, Zenon DEF RepeatsUpto
      <4>2. QED
        BY <2>4, <2>5, <3>2, <4>1, Zenon
    <3>3. QED
      BY <3>1, <3>2
  <2>7. g = [k \in 1 .. n + 1 |-> Repeats(g, v, k)]
    BY <2>4, <2>6, Zenon
  <2>8. QED
    BY <2>7 DEF RepeatsUpto
<1>3. QED
  BY <1>1, <1>2, AllNumbers

\* So the definition of Duplicates may be used as an equation.
LEMMA DuplicatesDef ==
  ASSUME NEW v, NumLines(v.doc) \in Nat, NEW k \in 1 .. NumLines(v.doc)
  PROVE  Duplicates(v)[k] = Repeats(Duplicates(v), v, k)
<1>1. PICK n \in Nat : n = NumLines(v.doc)
  OBVIOUS
<1>2. \E f : RepeatsUpto(f, v, n)
  BY RepeatsExist
<1>3. Duplicates(v) = CHOOSE f : RepeatsUpto(f, v, n)
  BY <1>1, Zenon DEF Duplicates, Repeats, RepeatsUpto
<1>4. RepeatsUpto(Duplicates(v), v, n)
  BY <1>2, <1>3, Zenon
<1>5. PICK f : f = Duplicates(v)
  OBVIOUS
<1>6. f = [q \in 1 .. n |-> Repeats(f, v, q)]
  BY <1>4, <1>5, Zenon DEF RepeatsUpto
<1>7. f[k] = Repeats(f, v, k)
  BY <1>1, <1>6, Zenon
<1>8. QED
  BY <1>5, <1>7

\* The text with the branches of its lines.
Viewed(v, N) ==
  /\ N \in Nat /\ N = NumLines(v.doc) /\ Flat(v.doc) /\ v.branches = Branches(v.doc)

\* A line is a duplicate if one of the lines that are listed before it is of its header.
LEMMA DuplicateIs ==
  ASSUME NEW v, NEW N, Viewed(v, N), NEW n \in Nat, n + 1 <= N, IsInclude(v, n + 1)
  PROVE  Duplicates(v)[n + 1] <=> \E u \in Listed(v, n) : v.doc.elided[u].inc = v.doc.elided[n + 1].inc
<1>1. PICK k : k = n + 1
  OBVIOUS
<1>2. k \in 1 .. N /\ N = NumLines(v.doc) /\ N \in Nat /\ k - 1 = n
  BY <1>1 DEF Viewed
<1>3. PICK f : f = Duplicates(v)
  OBVIOUS
<1>4. f[k] <=> Repeats(f, v, k)
  BY <1>2, <1>3, DuplicatesDef
<1>5. v.doc.elided[k].dir \notin {"else", "elif"}
  BY <1>1 DEF IsInclude
<1>6. ASSUME NEW u \in 1 .. n
      PROVE  Parted(v, u, k) <=> Parted(v, u, n)
  <2>1. \A e : e \in u + 1 .. n => e \in u + 1 .. k
    BY <1>1
  <2>2. \A e : e \in u + 1 .. k => e \in u + 1 .. n \/ e = k
    BY <1>1
  <2>3. QED
    BY <1>5, <2>1, <2>2 DEF Parted
<1>7. Repeats(f, v, k) <=> \E u \in 1 .. n : CountsAt(v, u) /\ ~Parted(v, u, n) /\ v.doc.elided[u].inc = v.doc.elided[k].inc
  <2>1. IsInclude(v, k)
    BY <1>1
  <2>2. \A u \in 1 .. n : CountsAt(v, u) <=> IsInclude(v, u) /\ ~f[u] /\ ~Elsewhere(v, u) /\ ~Foreign(v, u)
    BY <1>3, Zenon DEF CountsAt
  <2>3. QED
    BY <1>2, <1>6, <2>1, <2>2, Zenon DEF Repeats
<1>8. QED
  BY <1>1, <1>3, <1>4, <1>7, Zenon DEF Listed

------------------------------------------------------------------------------
(* The lists of includes. *)

\* What is known from the lists, but for the last, and from the last.
LEMMA KnownSplit ==
  ASSUME NEW list, NEW m \in Nat, m > 0
  PROVE  KnownUpto(list, m) = KnownUpto(list, m - 1) \cup ToSet(list[m])
<1>1. \A u : u \in 1 .. m <=> u \in 1 .. m - 1 \/ u = m
  OBVIOUS
<1>2. QED
  BY <1>1 DEF KnownUpto

\* Lists that agree know the same.
LEMMA SameKnown ==
  ASSUME NEW list, NEW other, NEW m \in Nat, \A u \in 1 .. m : other[u] = list[u]
  PROVE  KnownUpto(other, m) = KnownUpto(list, m)
BY DEF KnownUpto

\* Another last list, and one more list.
LastIs(other, list, m, t) == other = [list EXCEPT ![m] = t]
EmptyLast(other, list) == other = Append(list, << >>)

\* The last list replaced.
LEMMA OtherLast ==
  ASSUME NEW P, NEW list \in Seq(Seq(P)), NEW m \in Nat, m = Len(list), m > 0, NEW t \in Seq(P),
         NEW other, LastIs(other, list, m, t)
  PROVE  other \in Seq(Seq(P)) /\ Len(other) = m /\ other[m] = t /\ KnownUpto(other, m - 1) = KnownUpto(list, m - 1)
<1>1. m \in Nat /\ m \in 1 .. m /\ DOMAIN list = 1 .. m /\ m - 1 \in Nat
  OBVIOUS
<1>2. other \in Seq(Seq(P)) /\ Len(other) = m
  BY <1>1 DEF LastIs
<1>3. other[m] = t /\ \A u \in 1 .. m - 1 : other[u] = list[u]
  BY <1>1 DEF LastIs
<1>4. KnownUpto(other, m - 1) = KnownUpto(list, m - 1)
  <2>1. PICK k \in Nat : k = m - 1
    BY <1>1
  <2>2. \A u \in 1 .. k : other[u] = list[u]
    BY <1>3, <2>1
  <2>3. KnownUpto(other, k) = KnownUpto(list, k)
    BY <2>2, SameKnown
  <2>4. QED
    BY <2>1, <2>3
<1>5. QED
  BY <1>2, <1>3, <1>4

\* An empty list more.
LEMMA OneListMore ==
  ASSUME NEW P, NEW list \in Seq(Seq(P)), NEW m \in Nat, m = Len(list), NEW other, EmptyLast(other, list)
  PROVE  other \in Seq(Seq(P)) /\ Len(other) = m + 1 /\ other[m + 1] = << >> /\ KnownUpto(other, m) = KnownUpto(list, m)
<1>1. m \in Nat /\ << >> \in Seq(P)
  OBVIOUS
<1>2. /\ other \in Seq(Seq(P)) /\ Len(other) = m + 1 /\ other[m + 1] = << >>
      /\ \A u \in 1 .. m : other[u] = list[u]
  BY <1>1, AppendProperties DEF EmptyLast
<1>3. KnownUpto(other, m) = KnownUpto(list, m)
  BY <1>1, <1>2, SameKnown
<1>4. QED
  BY <1>2, <1>3

\* A pair more in a list.
LEMMA OneIncludeMore ==
  ASSUME NEW P, NEW t \in Seq(P), NEW p \in P
  PROVE  Append(t, p) \in Seq(P) /\ ToSet(Append(t, p)) = ToSet(t) \cup {p}
<1>1. PICK n \in Nat : n = Len(t) /\ DOMAIN t = 1 .. n
  OBVIOUS
<1>2. PICK s : s = Append(t, p)
  OBVIOUS
<1>3. s \in Seq(P) /\ Len(s) = n + 1 /\ DOMAIN s = 1 .. n + 1 /\ (\A k \in 1 .. n : s[k] = t[k]) /\ s[n + 1] = p
  BY <1>1, <1>2, AppendProperties
<1>4. \A k : k \in 1 .. n + 1 <=> k \in 1 .. n \/ k = n + 1
  BY <1>1
<1>5. ToSet(s) = ToSet(t) \cup {p}
  BY <1>1, <1>3, <1>4 DEF ToSet
<1>6. QED
  BY <1>2, <1>3, <1>5

\* What is listed after a line.
LEMMA ListedNext ==
  ASSUME NEW v, NEW N, Viewed(v, N), NEW n \in Nat, n + 1 <= N, NEW dir, dir = v.doc.elided[n + 1].dir
  PROVE  /\ ~ElseDir(dir) => Listed(v, n + 1) = Listed(v, n) \cup {u \in {n + 1} : CountsAt(v, u)}
         /\ ElseDir(dir) => Listed(v, n + 1) = {u \in Listed(v, n) : ~(u >= v.branches[n][1][1])}
<1>1. \A u : u \in 1 .. n + 1 <=> u \in 1 .. n \/ u = n + 1
  OBVIOUS
<1>2. ~Parted(v, n + 1, n + 1)
  <2>1. n + 1 + 1 .. n + 1 = {}
    OBVIOUS
  <2>2. QED
    BY <2>1, Zenon DEF Parted
<1>3. ASSUME NEW u \in 1 .. n
      PROVE  Parted(v, u, n + 1) <=> Parted(v, u, n) \/ (ElseDir(dir) /\ GroupsAt(v.doc, u) = GroupsAt(v.doc, n + 1))
  <2>1. \A e : e \in u + 1 .. n + 1 <=> e \in u + 1 .. n \/ e = n + 1
    OBVIOUS
  <2>2. v.branches = Branches(v.doc)
    BY DEF Viewed
  <2>3. QED
    BY <2>1, <2>2, Zenon DEF Parted, ElseDir, GroupsAt
<1>4. CASE ~ElseDir(dir)
  <2>1. \A u \in 1 .. n : Parted(v, u, n + 1) <=> Parted(v, u, n)
    BY <1>3, <1>4
  <2>2. ASSUME NEW u
        PROVE  u \in Listed(v, n + 1) <=> u \in Listed(v, n) \/ u \in {w \in {n + 1} : CountsAt(v, w)}
    <3>1. CASE u \in 1 .. n
      <4>1. u # n + 1
        BY <3>1
      <4>2. QED
        BY <1>1, <2>1, <3>1, <4>1, Zenon DEF Listed
    <3>2. CASE u = n + 1
      <4>1. u \notin 1 .. n
        BY <3>2
      <4>2. QED
        BY <1>1, <1>2, <3>2, <4>1, Zenon DEF Listed
    <3>3. CASE u \notin 1 .. n /\ u # n + 1
      BY <1>1, <3>3, Zenon DEF Listed
    <3>4. QED
      BY <3>1, <3>2, <3>3
  <2>3. QED
    BY <1>4, <2>2
<1>5. CASE ElseDir(dir)
  <2>1. PICK g : g = v.branches[n][1][1]
    OBVIOUS
  <2>2. NumLines(v.doc) \in Nat /\ Flat(v.doc) /\ N = NumLines(v.doc) /\ v.branches = Branches(v.doc)
    BY DEF Viewed
  <2>3. /\ Branches(v.doc)[n] # << >> /\ g \in 1 .. n
        /\ Branches(v.doc)[n + 1] # << >> /\ Branches(v.doc)[n + 1][1][1] = g
    <3>1. PICK d, b, c : d = v.doc /\ b = Branches(d)[n] /\ c = Branches(d)[n + 1]
      OBVIOUS
    <3>2. NumLines(d) \in Nat /\ Flat(d) /\ n + 1 <= NumLines(d) /\ dir = d.elided[n + 1].dir
      BY <2>2, <3>1
    <3>3. (b # << >> => b[1][1] \in 1 .. n) /\ b # << >> /\ c # << >> /\ c[1][1] = b[1][1]
      BY <1>5, <3>1, <3>2, FlatShape
    <3>4. QED
      BY <2>1, <2>2, <3>1, <3>3
  <2>4. GroupsAt(v.doc, n + 1) = {g}
    <3>1. n + 1 \in 1 .. NumLines(v.doc) /\ n + 1 \in 1 .. n + 1 /\ n + 1 >= g
      BY <2>2, <2>3
    <3>2. QED
      BY <2>2, <2>3, <3>1, FlatGroup
  <2>5. \A u \in 1 .. n : GroupsAt(v.doc, u) = {g} <=> u >= g
    <3>1. n \in 1 .. NumLines(v.doc)
      BY <2>2, <2>3
    <3>2. QED
      BY <2>1, <2>2, <2>3, <3>1, FlatGroup
  <2>6. \A u \in 1 .. n : Parted(v, u, n + 1) <=> Parted(v, u, n) \/ u >= g
    BY <1>3, <1>5, <2>4, <2>5
  <2>7. ~CountsAt(v, n + 1)
    BY <1>5 DEF CountsAt, IsInclude, ElseDir
  <2>8. ASSUME NEW u
        PROVE  u \in Listed(v, n + 1) <=> u \in Listed(v, n) /\ ~(u >= g)
    <3>1. CASE u \in 1 .. n
      BY <1>1, <2>6, <3>1, Zenon DEF Listed
    <3>2. CASE u \notin 1 .. n
      BY <1>1, <2>7, <3>2, Zenon DEF Listed
    <3>3. QED
      BY <3>1, <3>2
  <2>9. QED
    BY <1>5, <2>1, <2>8
<1>6. QED
  BY <1>4, <1>5

------------------------------------------------------------------------------
(* A line keeps the lists of includes right. *)

\* The lists are right for the lines of S that are listed, when the group of b is open.
RightLists(v, list, m, S, b) ==
  /\ m = Len(list) /\ m \in Nat /\ m > 0 /\ list \in Seq(Seq(Pairs(v, 1 .. NumLines(v.doc))))
  /\ b = << >> => KnownUpto(list, m) = Pairs(v, S)
  /\ b # << >> => /\ ToSet(list[m]) = Pairs(v, {u \in S : u >= b[1][1]})
                  /\ KnownUpto(list, m - 1) = Pairs(v, {u \in S : ~(u >= b[1][1])})

\* The lists are right, by the group that is open.
LEMMA ListsAre ==
  ASSUME NEW v, NEW list, NEW n
  PROVE  Lists(v, list, n) <=> RightLists(v, list, Len(list), Listed(v, n), v.branches[n])
<1>1. PICK S, b, m : S = Listed(v, n) /\ b = v.branches[n] /\ m = Len(list)
  OBVIOUS
<1>2. PICK g : g = b[1][1]
  OBVIOUS
<1>3. S \ {u \in S : u >= g} = {u \in S : ~(u >= g)}
  OBVIOUS
<1>4. list \in Seq(Seq(Pairs(v, 1 .. NumLines(v.doc)))) => m \in Nat
  BY <1>1
<1>5. CASE b = << >>
  BY <1>1, <1>4, <1>5, Zenon DEF Lists, RightLists
<1>6. CASE b # << >>
  <2>1. PICK T : T = {u \in S : u >= g}
    OBVIOUS
  <2>2. S \ T = {u \in S : ~(u >= g)}
    BY <1>3, <2>1
  <2>3. Lists(v, list, n) <=> /\ m > 0 /\ list \in Seq(Seq(Pairs(v, 1 .. NumLines(v.doc))))
                             /\ ToSet(list[m]) = Pairs(v, T) /\ KnownUpto(list, m - 1) = Pairs(v, S \ T)
    BY <1>1, <1>2, <1>6, <2>1, Zenon DEF Lists
  <2>4. RightLists(v, list, m, S, b) <=> /\ m \in Nat /\ m > 0 /\ list \in Seq(Seq(Pairs(v, 1 .. NumLines(v.doc))))
                                        /\ ToSet(list[m]) = Pairs(v, T) /\ KnownUpto(list, m - 1) = Pairs(v, S \ T)
    BY <1>1, <1>2, <1>6, <2>1, <2>2, Zenon DEF RightLists
  <2>5. QED
    BY <1>1, <1>4, <2>3, <2>4
<1>7. QED
  BY <1>5, <1>6

\* All that is known, when a group is open.
LEMMA AllKnown ==
  ASSUME NEW v, NEW list, NEW m, NEW S, NEW b, RightLists(v, list, m, S, b)
  PROVE  KnownUpto(list, m) = Pairs(v, S)
<1>1. CASE b = << >>
  BY <1>1 DEF RightLists
<1>2. CASE b # << >>
  <2>1. KnownUpto(list, m) = KnownUpto(list, m - 1) \cup ToSet(list[m])
    BY KnownSplit DEF RightLists
  <2>2. PICK g : g = b[1][1]
    OBVIOUS
  <2>3. KnownUpto(list, m) = Pairs(v, {u \in S : ~(u >= g)}) \cup Pairs(v, {u \in S : u >= g})
    BY <1>2, <2>1, <2>2 DEF RightLists
  <2>4. QED
    BY <2>3 DEF Pairs
<1>3. QED
  BY <1>1, <1>2

\* No line comes from beyond the last.
LEMMA NoneFrom ==
  ASSUME NEW n \in Nat, NEW S \in SUBSET (1 .. n)
  PROVE  {u \in S : u >= n + 1} = {} /\ {u \in S : ~(u >= n + 1)} = S
<1>1. \A u \in S : u \in 1 .. n
  OBVIOUS
<1>2. \A u \in 1 .. n : ~(u >= n + 1)
  OBVIOUS
<1>3. QED
  BY <1>1, <1>2, Zenon

\* A group opens, its branch changes, it ends.
Begins(b, g) == b # << >> /\ b[1][1] = g
Outside(b) == b = << >>
From(S, g) == {u \in S : u >= g}
UpTo(S, g) == {u \in S : ~(u >= g)}
Emptied(other, list, m) == other = [list EXCEPT ![m] = << >>]

\* The lists are right within a group, and
LEMMA RightInGroup ==
  ASSUME NEW v, NEW list, NEW m, NEW S, NEW b, NEW g, Begins(b, g)
  PROVE  RightLists(v, list, m, S, b) <=>
           /\ m = Len(list) /\ m \in Nat /\ m > 0 /\ list \in Seq(Seq(Pairs(v, 1 .. NumLines(v.doc))))
           /\ ToSet(list[m]) = Pairs(v, From(S, g))
           /\ KnownUpto(list, m - 1) = Pairs(v, UpTo(S, g))
BY Zenon DEF RightLists, Begins, From, UpTo

\* outside of groups.
LEMMA RightOutside ==
  ASSUME NEW v, NEW list, NEW m, NEW S, NEW b, Outside(b)
  PROVE  RightLists(v, list, m, S, b) <=>
           /\ m = Len(list) /\ m \in Nat /\ m > 0 /\ list \in Seq(Seq(Pairs(v, 1 .. NumLines(v.doc))))
           /\ KnownUpto(list, m) = Pairs(v, S)
BY Zenon DEF RightLists, Outside

\* An empty list knows no pair.
LEMMA NoPairs ==
  ASSUME NEW v, NEW t, t = << >>
  PROVE  ToSet(t) = Pairs(v, {})
BY DEF ToSet, Pairs

\* An #if opens a list.
LEMMA ListsOpen ==
  ASSUME NEW v, NEW list, NEW m, NEW n \in Nat, NEW S \in SUBSET (1 .. n),
         NEW b, Outside(b), RightLists(v, list, m, S, b),
         NEW c, Begins(c, n + 1), NEW other, EmptyLast(other, list)
  PROVE  RightLists(v, other, m + 1, S, c)
<1>1. PICK P, g : P = Pairs(v, 1 .. NumLines(v.doc)) /\ g = n + 1
  OBVIOUS
<1>2. m = Len(list) /\ m \in Nat /\ m > 0 /\ list \in Seq(Seq(P)) /\ KnownUpto(list, m) = Pairs(v, S)
  BY <1>1, RightOutside
<1>3. PICK k, e : k = m + 1 /\ e = other[k]
  OBVIOUS
<1>4. other \in Seq(Seq(P)) /\ Len(other) = k /\ e = << >> /\ KnownUpto(other, m) = KnownUpto(list, m)
  BY <1>2, <1>3, OneListMore
<1>5. From(S, g) = {} /\ UpTo(S, g) = S
  BY <1>1, NoneFrom DEF From, UpTo
<1>6. k \in Nat /\ k > 0 /\ k - 1 = m
  BY <1>2, <1>3
<1>7. ToSet(e) = Pairs(v, {})
  BY <1>4, NoPairs
<1>8. ToSet(other[k]) = Pairs(v, From(S, g)) /\ KnownUpto(other, k - 1) = Pairs(v, UpTo(S, g))
  BY <1>2, <1>3, <1>4, <1>5, <1>6, <1>7, Zenon
<1>9. RightLists(v, other, k, S, c)
  BY <1>1, <1>4, <1>6, <1>8, RightInGroup
<1>10. QED
  BY <1>3, <1>9

\* An #else or #elif empties the last.
LEMMA ListsTurn ==
  ASSUME NEW v, NEW list, NEW m, NEW S, NEW b, NEW g, Begins(b, g), RightLists(v, list, m, S, b),
         NEW c, Begins(c, g), NEW other, Emptied(other, list, m), NEW T, T = UpTo(S, g)
  PROVE  RightLists(v, other, m, T, c)
<1>1. PICK P, t : P = Pairs(v, 1 .. NumLines(v.doc)) /\ t = << >>
  OBVIOUS
<1>2. /\ m = Len(list) /\ m \in Nat /\ m > 0 /\ list \in Seq(Seq(P))
      /\ KnownUpto(list, m - 1) = Pairs(v, T)
  <2>1. /\ m = Len(list) /\ m \in Nat /\ m > 0 /\ list \in Seq(Seq(Pairs(v, 1 .. NumLines(v.doc))))
        /\ KnownUpto(list, m - 1) = Pairs(v, UpTo(S, g))
    <3>1. Begins(b, g) /\ RightLists(v, list, m, S, b)
      OBVIOUS
    <3>2. QED
      BY <3>1, Zenon DEF RightLists, Begins, UpTo
  <2>2. QED
    BY <1>1, <2>1, Zenon
<1>3. t \in Seq(P) /\ LastIs(other, list, m, t)
  BY <1>1 DEF LastIs, Emptied
<1>4. other \in Seq(Seq(P)) /\ Len(other) = m /\ other[m] = t /\ KnownUpto(other, m - 1) = KnownUpto(list, m - 1)
  BY <1>2, <1>3, OtherLast
<1>5. From(T, g) = {} /\ UpTo(T, g) = T
  BY DEF From, UpTo
<1>6. ToSet(t) = Pairs(v, {})
  BY <1>1, NoPairs
<1>7. ToSet(other[m]) = Pairs(v, From(T, g)) /\ KnownUpto(other, m - 1) = Pairs(v, UpTo(T, g))
  BY <1>2, <1>4, <1>5, <1>6, Zenon
<1>8. QED
  BY <1>1, <1>2, <1>4, <1>7, RightInGroup

\* An #endif leaves the lists as they are.
LEMMA ListsClose ==
  ASSUME NEW v, NEW list, NEW m, NEW S, NEW b, RightLists(v, list, m, S, b), NEW c, Outside(c)
  PROVE  RightLists(v, list, m, S, c)
<1>1. KnownUpto(list, m) = Pairs(v, S)
  BY AllKnown
<1>2. m = Len(list) /\ m \in Nat /\ m > 0 /\ list \in Seq(Seq(Pairs(v, 1 .. NumLines(v.doc))))
  BY DEF RightLists
<1>3. QED
  BY <1>1, <1>2, RightOutside

\* An #include is added.
PairAt(p, v, k) == p = <<v.doc.elided[k].inc, k>>

\* An #include that counts goes to the last list.
LEMMA ListsAdd ==
  ASSUME NEW v, NEW list, NEW m, NEW n \in Nat, n + 1 <= NumLines(v.doc), NumLines(v.doc) \in Nat,
         NEW S, NEW b, RightLists(v, list, m, S, b), b # << >> => b[1][1] \in 1 .. n,
         NEW p, PairAt(p, v, n + 1), NEW other, LastIs(other, list, m, Append(list[m], p))
  PROVE  RightLists(v, other, m, S \cup {n + 1}, b)
<1>1. PICK P, t : P = Pairs(v, 1 .. NumLines(v.doc)) /\ t = Append(list[m], p)
  OBVIOUS
<1>2. m = Len(list) /\ m \in Nat /\ m > 0 /\ list \in Seq(Seq(P))
  BY <1>1 DEF RightLists
<1>3. list[m] \in Seq(P)
  BY <1>2
<1>4. p \in P
  <2>1. n + 1 \in 1 .. NumLines(v.doc)
    OBVIOUS
  <2>2. QED
    BY <1>1, <2>1 DEF Pairs, PairAt
<1>5. t \in Seq(P) /\ ToSet(t) = ToSet(list[m]) \cup {p}
  BY <1>1, <1>3, <1>4, OneIncludeMore
<1>6. LastIs(other, list, m, t)
  BY <1>1
<1>7. other \in Seq(Seq(P)) /\ Len(other) = m /\ other[m] = t /\ KnownUpto(other, m - 1) = KnownUpto(list, m - 1)
  BY <1>2, <1>5, <1>6, OtherLast
<1>8. \A T : Pairs(v, T \cup {n + 1}) = Pairs(v, T) \cup {p}
  BY DEF Pairs, PairAt
<1>9. CASE b = << >>
  <2>1. KnownUpto(list, m) = KnownUpto(list, m - 1) \cup ToSet(list[m])
    BY <1>2, KnownSplit
  <2>2. KnownUpto(other, m) = KnownUpto(other, m - 1) \cup ToSet(other[m])
    BY <1>2, KnownSplit
  <2>3. KnownUpto(list, m) = Pairs(v, S)
    BY <1>9 DEF RightLists
  <2>4. KnownUpto(other, m) = Pairs(v, S \cup {n + 1})
    <3>1. KnownUpto(other, m) = KnownUpto(list, m - 1) \cup (ToSet(list[m]) \cup {p})
      BY <1>5, <1>7, <2>2
    <3>2. KnownUpto(other, m) = Pairs(v, S) \cup {p}
      BY <2>1, <2>3, <3>1
    <3>3. QED
      BY <1>8, <3>2
  <2>5. QED
    BY <1>1, <1>2, <1>7, <1>9, <2>4, Zenon DEF RightLists
<1>10. CASE b # << >>
  <2>1. PICK g : g = b[1][1] /\ g \in 1 .. n
    BY <1>10
  <2>2. PICK T, F : T = {u \in S : u >= g} /\ F = {u \in S : ~(u >= g)}
    OBVIOUS
  <2>3. /\ {u \in S \cup {n + 1} : u >= g} = T \cup {n + 1}
        /\ {u \in S \cup {n + 1} : ~(u >= g)} = F
    BY <2>1, <2>2
  <2>4. ToSet(list[m]) = Pairs(v, T) /\ KnownUpto(list, m - 1) = Pairs(v, F)
    BY <1>10, <2>1, <2>2 DEF RightLists
  <2>5. ToSet(other[m]) = Pairs(v, T \cup {n + 1}) /\ KnownUpto(other, m - 1) = Pairs(v, F)
    BY <1>5, <1>7, <1>8, <2>4
  <2>6. QED
    BY <1>1, <1>2, <1>7, <1>10, <2>1, <2>3, <2>5, Zenon DEF RightLists
<1>11. QED
  BY <1>9, <1>10

------------------------------------------------------------------------------
(* How far the order of the headers has come. *)

Kinds == {"C_SYS", "CPP_SYS", "LIKELY_MY", "POSSIBLE_MY", "OTHER"}

\* The kinds of headers.
LEMMA KindIs ==
  ASSUME NEW v, NEW k
  PROVE  KindAt(v, k) \in Kinds
<1>1. PICK x : x = KindAt(v, k)
  OBVIOUS
<1>2. x = "C_SYS" \/ x = "CPP_SYS" \/ x = "LIKELY_MY" \/ x = "POSSIBLE_MY" \/ x = "OTHER"
  BY <1>1, Zenon DEF KindAt, _ClassifyInclude
<1>3. QED
  BY <1>1, <1>2, Zenon DEF Kinds

\* What counts since the last directive of a group, after one line more.
LEMMA SinceNext ==
  ASSUME NEW v, NEW n \in Nat
  PROVE  /\ IsReset(v, n + 1) => SinceReset(v, n + 1) = {}
         /\ ~IsReset(v, n + 1) /\ ~CountsAt(v, n + 1) => SinceReset(v, n + 1) = SinceReset(v, n)
         /\ ~IsReset(v, n + 1) /\ CountsAt(v, n + 1) => SinceReset(v, n + 1) = SinceReset(v, n) \cup {n + 1}
<1>1. \A u : u \in 1 .. n + 1 <=> u \in 1 .. n \/ u = n + 1
  OBVIOUS
<1>2. \A u \in 1 .. n : u # n + 1
  OBVIOUS
<1>3. ASSUME NEW u \in 1 .. n + 1
      PROVE  \A e : e \in u .. n + 1 <=> e \in u .. n \/ e = n + 1
  OBVIOUS
<1>4. ASSUME NEW u
      PROVE  u = n + 1 => \A e : e \notin u .. n
  OBVIOUS
<1>5. ASSUME NEW u
      PROVE  u \in SinceReset(v, n + 1) <=> /\ u \in SinceReset(v, n) \/ (u = n + 1 /\ CountsAt(v, u))
                                            /\ ~IsReset(v, n + 1)
  <2>1. CASE u \in 1 .. n
    BY <1>1, <1>2, <1>3, <2>1, Zenon DEF SinceReset
  <2>2. CASE u = n + 1
    <3>1. u \notin 1 .. n /\ u \in 1 .. n + 1
      BY <2>2
    <3>2. \A e : e \in u .. n + 1 <=> e = n + 1
      BY <1>3, <1>4, <2>2, <3>1
    <3>3. (\A e \in u .. n + 1 : ~IsReset(v, e)) <=> ~IsReset(v, n + 1)
      BY <3>2, Zenon
    <3>4. u \in SinceReset(v, n + 1) <=> CountsAt(v, u) /\ ~IsReset(v, n + 1)
      BY <3>1, <3>3, Zenon DEF SinceReset
    <3>5. u \notin SinceReset(v, n)
      BY <3>1, Zenon DEF SinceReset
    <3>6. QED
      BY <2>2, <3>4, <3>5
  <2>3. CASE u \notin 1 .. n /\ u # n + 1
    BY <1>1, <2>3, Zenon DEF SinceReset
  <2>4. QED
    BY <2>1, <2>2, <2>3
<1>6. QED
  BY <1>5

\* What CheckNextIncludeOrder makes of a section.
LateIn(section, kind) == \/ kind = "C_SYS" /\ section > CSys
                         \/ kind = "CPP_SYS" /\ section > CppSys
NextIn(section, kind) ==
  IF LateIn(section, kind) THEN section
  ELSE CASE kind = "C_SYS" -> CSys
         [] kind = "CPP_SYS" -> CppSys
         [] kind \in {"LIKELY_MY", "POSSIBLE_MY"} /\ section <= MyH -> MyH
         [] OTHER -> OtherH

TwoChanged(t, s, next, h) == t = [s EXCEPT !.section = next, !.last_header = h]

\* The state with its section and its last header replaced.
LEMMA TwoFields ==
  ASSUME NEW s, NEW list, NEW section, NEW header, s = [include_list |-> list, section |-> section, last_header |-> header],
         NEW next, NEW h, NEW t, TwoChanged(t, s, next, h)
  PROVE  t = [include_list |-> list, section |-> next, last_header |-> h]
<1>1. PICK a, b : a = t /\ b = [include_list |-> list, section |-> next, last_header |-> h]
  OBVIOUS
<1>2. DOMAIN s = {"include_list", "section", "last_header"} /\ s.include_list = list
  OBVIOUS
<1>3. /\ DOMAIN a = {"include_list", "section", "last_header"} /\ a = [x \in DOMAIN a |-> a[x]]
      /\ a.include_list = list /\ a.section = next /\ a.last_header = h
  BY <1>1, <1>2 DEF TwoChanged
<1>4. /\ DOMAIN b = {"include_list", "section", "last_header"} /\ b = [x \in DOMAIN b |-> b[x]]
      /\ b.include_list = list /\ b.section = next /\ b.last_header = h
  BY <1>1
<1>5. \A x \in DOMAIN a : a[x] = b[x]
  BY <1>3, <1>4
<1>6. a = b
  BY <1>3, <1>4, <1>5
<1>7. QED
  BY <1>1, <1>6

StateIs(t, list, section, h) == t = [include_list |-> list, section |-> section, last_header |-> h]
OrderIs(r, s, kind) == r = CheckNextIncludeOrder(s, kind)

\* CheckNextIncludeOrder, by the section it is in.
LEMMA NextOrder ==
  ASSUME NEW s, NEW list, NEW section, NEW header, StateIs(s, list, section, header),
         NEW kind, NEW r, OrderIs(r, s, kind)
  PROVE  (r.late <=> LateIn(section, kind)) /\ \E h : StateIs(r.state, list, NextIn(section, kind), h)
<1>0. s = [include_list |-> list, section |-> section, last_header |-> header] /\ r = CheckNextIncludeOrder(s, kind)
  BY DEF StateIs, OrderIs
<1>1. PICK late, next : late = LateIn(s.section, kind) /\ next = NextIn(s.section, kind)
  OBVIOUS
<1>2. r = [late |-> late, state |-> [s EXCEPT !.section = next,
                                              !.last_header = IF late \/ next # s.section THEN 0 ELSE @]]
  BY <1>0, <1>1, Zenon DEF CheckNextIncludeOrder, LateIn, NextIn
<1>3. s.section = section
  BY <1>0
<1>4. PICK h : h = IF late \/ next # s.section THEN 0 ELSE s.last_header
  OBVIOUS
<1>9. PICK t : t = r.state
  OBVIOUS
<1>8. TwoChanged(t, s, next, h)
  BY <1>2, <1>4, <1>9 DEF TwoChanged
<1>5. t = [include_list |-> list, section |-> next, last_header |-> h]
  BY <1>0, <1>8, TwoFields, Zenon
<1>6. r.late = late
  BY <1>2
<1>7. QED
  BY <1>1, <1>3, <1>5, <1>6, <1>9 DEF StateIs

\* The section after the next header, by the section before and its kind.
OwnKind(kind) == kind \in {"LIKELY_MY", "POSSIBLE_MY"}

\* How far it moves the section.
LEMMA SectionMoves ==
  ASSUME NEW section \in 0 .. 4, NEW kind \in Kinds, NEW t, t = NextIn(section, kind)
  PROVE  /\ t \in 0 .. 4
         /\ t > MyH <=> section > MyH \/ ~OwnKind(kind)
         /\ t > CSys <=> section > CSys \/ kind = "OTHER" \/ (OwnKind(kind) /\ section > MyH) \/ kind = "CPP_SYS"
         /\ t > CppSys <=> section > CppSys \/ kind = "OTHER" \/ (OwnKind(kind) /\ section > MyH)
<1>1. CASE kind = "C_SYS"
  <2>1. t = IF section > 2 THEN section ELSE 2
    BY <1>1 DEF NextIn, LateIn, CSys, CppSys
  <2>2. ~OwnKind(kind)
    BY <1>1 DEF OwnKind
  <2>3. QED
    BY <1>1, <2>1, <2>2 DEF MyH, CSys, CppSys
<1>2. CASE kind = "CPP_SYS"
  <2>1. t = IF section > 3 THEN section ELSE 3
    BY <1>2 DEF NextIn, LateIn, CSys, CppSys
  <2>2. ~OwnKind(kind)
    BY <1>2 DEF OwnKind
  <2>3. QED
    BY <1>2, <2>1, <2>2 DEF MyH, CSys, CppSys
<1>3. CASE OwnKind(kind)
  <2>1. t = IF section <= 1 THEN 1 ELSE 4
    BY <1>3 DEF NextIn, LateIn, MyH, OtherH, OwnKind
  <2>2. kind # "OTHER" /\ kind # "CPP_SYS"
    BY <1>3 DEF OwnKind
  <2>3. QED
    BY <1>3, <2>1, <2>2 DEF MyH, CSys, CppSys
<1>4. CASE kind = "OTHER"
  <2>1. t = 4
    BY <1>4 DEF NextIn, LateIn, OtherH
  <2>2. ~OwnKind(kind)
    BY <1>4 DEF OwnKind
  <2>3. QED
    BY <1>4, <2>1, <2>2 DEF MyH, CSys, CppSys
<1>5. QED
  BY <1>1, <1>2, <1>3, <1>4 DEF Kinds, OwnKind

\* Sections, with what it is about by name.
AnyOf(v, S) == \E u \in S : ~Own(v, u)
CppOf(v, S) == \E u \in S : Other(v, u) \/ KindAt(v, u) = "CPP_SYS"
OtherOf(v, S) == \E u \in S : Other(v, u)

\* The section by the headers since the last directive.
LEMMA SectionsAre ==
  ASSUME NEW v, NEW section, NEW n, NEW S, S = SinceReset(v, n)
  PROVE  Sections(v, section, n) <=> /\ section \in 0 .. 4
                                     /\ section > MyH <=> AnyOf(v, S)
                                     /\ section > CSys <=> CppOf(v, S)
                                     /\ section > CppSys <=> OtherOf(v, S)
BY Zenon DEF Sections, AnyOf, CppOf, OtherOf

\* A line keeps the section right, and an #include that counts is late if it is misplaced.
LEMMA SectionsNext ==
  ASSUME NEW v, NEW n \in Nat, NEW section, Sections(v, section, n)
  PROVE  /\ IsReset(v, n + 1) => Sections(v, Initial, n + 1)
         /\ ~IsReset(v, n + 1) /\ ~CountsAt(v, n + 1) => Sections(v, section, n + 1)
         /\ ~IsReset(v, n + 1) /\ CountsAt(v, n + 1) =>
              /\ Sections(v, NextIn(section, KindAt(v, n + 1)), n + 1)
              /\ Misplaced(v, n + 1) <=> LateIn(section, KindAt(v, n + 1))
         /\ ~CountsAt(v, n + 1) => ~Misplaced(v, n + 1)
<1>1. PICK S, T, p : S = SinceReset(v, n) /\ p = n + 1 /\ T = SinceReset(v, p)
  OBVIOUS
<1>2. /\ IsReset(v, p) => T = {}
      /\ ~IsReset(v, p) /\ ~CountsAt(v, p) => T = S
      /\ ~IsReset(v, p) /\ CountsAt(v, p) => T = S \cup {p}
  BY <1>1, SinceNext
<1>3. /\ section \in 0 .. 4 /\ (section > MyH <=> AnyOf(v, S))
      /\ (section > CSys <=> CppOf(v, S)) /\ (section > CppSys <=> OtherOf(v, S))
  BY <1>1, SectionsAre
<1>4. ~CountsAt(v, p) => ~Misplaced(v, p)
  BY Zenon DEF Misplaced
<1>5. ASSUME IsReset(v, p)
      PROVE  Sections(v, Initial, p)
  <2>1. ~AnyOf(v, T) /\ ~CppOf(v, T) /\ ~OtherOf(v, T)
    BY <1>2, <1>5 DEF AnyOf, CppOf, OtherOf
  <2>2. Initial \in 0 .. 4 /\ ~(Initial > MyH) /\ ~(Initial > CSys) /\ ~(Initial > CppSys)
    BY DEF Initial, MyH, CSys, CppSys
  <2>3. QED
    BY <1>1, <2>1, <2>2, SectionsAre
<1>6. ASSUME ~IsReset(v, p), ~CountsAt(v, p)
      PROVE  Sections(v, section, p)
  BY <1>1, <1>2, <1>3, <1>6, SectionsAre
<1>7. ASSUME ~IsReset(v, p), CountsAt(v, p)
      PROVE  /\ Sections(v, NextIn(section, KindAt(v, p)), p)
             /\ Misplaced(v, p) <=> LateIn(section, KindAt(v, p))
  <2>1. PICK kind, t : kind = KindAt(v, p) /\ t = NextIn(section, kind)
    OBVIOUS
  <2>2. kind \in Kinds /\ (Own(v, p) <=> OwnKind(kind))
    BY <2>1, KindIs DEF Own, OwnKind
  <2>3. p - 1 = n
    BY <1>1
  <2>4. Other(v, p) <=> kind = "OTHER" \/ (Own(v, p) /\ AnyOf(v, S))
    BY <1>1, <2>1, <2>3, Zenon DEF Other, AnyOf
  <2>5. /\ AnyOf(v, T) <=> AnyOf(v, S) \/ ~Own(v, p)
        /\ CppOf(v, T) <=> CppOf(v, S) \/ Other(v, p) \/ kind = "CPP_SYS"
        /\ OtherOf(v, T) <=> OtherOf(v, S) \/ Other(v, p)
    <3>1. T = S \cup {p}
      BY <1>2, <1>7
    <3>2. QED
      BY <2>1, <3>1, Zenon DEF AnyOf, CppOf, OtherOf
  <2>6. /\ t \in 0 .. 4
        /\ t > MyH <=> section > MyH \/ ~OwnKind(kind)
        /\ t > CSys <=> section > CSys \/ kind = "OTHER" \/ (OwnKind(kind) /\ section > MyH) \/ kind = "CPP_SYS"
        /\ t > CppSys <=> section > CppSys \/ kind = "OTHER" \/ (OwnKind(kind) /\ section > MyH)
    BY <1>3, <2>1, <2>2, SectionMoves
  <2>7. /\ t > MyH <=> AnyOf(v, T)
        /\ t > CSys <=> CppOf(v, T)
        /\ t > CppSys <=> OtherOf(v, T)
    BY <1>3, <2>2, <2>4, <2>5, <2>6
  <2>9. Sections(v, t, p)
    BY <1>1, <2>6, <2>7, SectionsAre
  <2>10. Misplaced(v, p) <=> LateIn(section, kind)
    <3>1. (section > CSys <=> CppOf(v, S)) /\ (section > CppSys <=> OtherOf(v, S))
      BY <1>3
    <3>2. Misplaced(v, p) <=> \E u \in S : (kind \in {"C_SYS", "CPP_SYS"} /\ Other(v, u))
                                           \/ (kind = "C_SYS" /\ KindAt(v, u) = "CPP_SYS")
      <4>1. SinceReset(v, p - 1) = S
        BY <1>1, <2>3
      <4>2. Misplaced(v, p) <=> \E u \in SinceReset(v, p - 1) : (KindAt(v, p) \in {"C_SYS", "CPP_SYS"} /\ Other(v, u))
                                                               \/ (KindAt(v, p) = "C_SYS" /\ KindAt(v, u) = "CPP_SYS")
        BY <1>7 DEF Misplaced
      <4>3. QED
        BY <2>1, <4>1, <4>2, Zenon
    <3>3. Misplaced(v, p) <=> \/ kind = "C_SYS" /\ CppOf(v, S)
                              \/ kind = "CPP_SYS" /\ OtherOf(v, S)
      <4>1. CASE kind = "C_SYS"
        <5>1. \A u : (kind \in {"C_SYS", "CPP_SYS"} /\ Other(v, u)) \/ (kind = "C_SYS" /\ KindAt(v, u) = "CPP_SYS")
                    <=> Other(v, u) \/ KindAt(v, u) = "CPP_SYS"
          BY <4>1
        <5>3. kind # "CPP_SYS"
          BY <4>1
        <5>2. QED
          BY <3>2, <4>1, <5>1, <5>3, Zenon DEF CppOf
      <4>2. CASE kind = "CPP_SYS"
        <5>1. \A u : (kind \in {"C_SYS", "CPP_SYS"} /\ Other(v, u)) \/ (kind = "C_SYS" /\ KindAt(v, u) = "CPP_SYS")
                    <=> Other(v, u)
          BY <4>2
        <5>3. kind # "C_SYS"
          BY <4>2
        <5>2. QED
          BY <3>2, <4>2, <5>1, <5>3, Zenon DEF OtherOf
      <4>3. CASE kind \notin {"C_SYS", "CPP_SYS"}
        BY <3>2, <4>3
      <4>4. QED
        BY <4>1, <4>2, <4>3
    <3>4. QED
      BY <3>1, <3>3 DEF LateIn
  <2>11. QED
    BY <2>1, <2>9, <2>10
<1>8. QED
  BY <1>1, <1>4, <1>5, <1>6, <1>7

------------------------------------------------------------------------------
(* What a line does to the includes. *)

\* What _IncludeState's lists become.
ListStep(v, list, other, n, dir) ==
  /\ IfDir(dir) => EmptyLast(other, list)
  /\ ElseDir(dir) => Emptied(other, list, Len(list))
  /\ ~IfDir(dir) /\ ~ElseDir(dir) /\ ~CountsAt(v, n + 1) => other = list
  /\ CountsAt(v, n + 1) => \E p : PairAt(p, v, n + 1) /\ LastIs(other, list, Len(list), Append(list[Len(list)], p))

\* A line keeps the lists right.
LEMMA ListsNext ==
  ASSUME NEW v, NEW N, Viewed(v, N), NEW n \in Nat, n + 1 <= N, NEW list, Lists(v, list, n),
         NEW dir, dir = v.doc.elided[n + 1].dir, NEW other, ListStep(v, list, other, n, dir)
  PROVE  Lists(v, other, n + 1)
<1>1. PICK d, b, c, p : d = v.doc /\ p = n + 1 /\ b = Branches(d)[n] /\ c = Branches(d)[p]
  OBVIOUS
<1>2. /\ N = NumLines(d) /\ N \in Nat /\ Flat(d) /\ v.branches[n] = b /\ v.branches[p] = c
      /\ dir = d.elided[p].dir
  BY <1>1 DEF Viewed
<1>3. /\ b # << >> => b[1][1] \in 1 .. n
      /\ IfDir(dir) => b = << >> /\ c # << >> /\ c[1][1] = p
      /\ ElseDir(dir) => b # << >> /\ c # << >> /\ c[1][1] = b[1][1]
      /\ EndDir(dir) => b # << >> /\ c = << >>
      /\ ~IfDir(dir) /\ ~ElseDir(dir) /\ ~EndDir(dir) => c = b
  BY <1>1, <1>2, FlatShape
<1>4. PICK S, T, m : S = Listed(v, n) /\ T = Listed(v, p) /\ m = Len(list)
  OBVIOUS
<1>5. RightLists(v, list, m, S, b)
  BY <1>2, <1>4, ListsAre
<1>6. /\ ~ElseDir(dir) => T = S \cup {u \in {p} : CountsAt(v, u)}
      /\ ElseDir(dir) => T = {u \in S : ~(u >= b[1][1])}
  BY <1>1, <1>2, <1>4, ListedNext
<1>7. CountsAt(v, p) => ~IfDir(dir) /\ ~ElseDir(dir) /\ ~EndDir(dir)
  BY <1>1, <1>2 DEF CountsAt, IsInclude, IfDir, ElseDir, EndDir
<1>8. ~CountsAt(v, p) /\ ~ElseDir(dir) => T = S
  BY <1>6
<1>9. \E k : RightLists(v, other, k, T, c)
  <2>1. CASE IfDir(dir)
    <3>1. EmptyLast(other, list) /\ T = S
      <4>1. ~ElseDir(dir) /\ ~CountsAt(v, p)
        BY <1>7, <2>1 DEF IfDir, ElseDir
      <4>2. QED
        BY <1>8, <2>1, <4>1 DEF ListStep
    <3>2. Outside(b) /\ Begins(c, n + 1)
      BY <1>1, <1>3, <2>1 DEF Outside, Begins
    <3>3. S \in SUBSET (1 .. n)
      BY <1>4 DEF Listed
    <3>4. RightLists(v, other, m + 1, S, c)
      BY <1>5, <3>1, <3>2, <3>3, ListsOpen
    <3>5. QED
      BY <3>1, <3>4
  <2>2. CASE ElseDir(dir)
    <3>1. PICK g : g = b[1][1]
      OBVIOUS
    <3>2. Begins(b, g) /\ Begins(c, g)
      BY <1>3, <2>2, <3>1 DEF Begins
    <3>3. Emptied(other, list, m)
      BY <1>4, <2>2 DEF ListStep
    <3>4. T = UpTo(S, g)
      BY <1>6, <2>2, <3>1 DEF UpTo
    <3>5. RightLists(v, other, m, T, c)
      BY <1>5, <3>2, <3>3, <3>4, ListsTurn
    <3>6. QED
      BY <3>5
  <2>3. CASE EndDir(dir)
    <3>1. other = list /\ T = S
      <4>1. ~IfDir(dir) /\ ~ElseDir(dir) /\ ~CountsAt(v, p)
        BY <1>7, <2>3 DEF IfDir, ElseDir, EndDir
      <4>2. QED
        BY <1>1, <1>8, <4>1 DEF ListStep
    <3>2. Outside(c)
      BY <1>3, <2>3 DEF Outside
    <3>3. RightLists(v, list, m, S, c)
      BY <1>5, <3>2, ListsClose
    <3>4. QED
      BY <3>1, <3>3
  <2>4. CASE ~IfDir(dir) /\ ~ElseDir(dir) /\ ~EndDir(dir) /\ ~CountsAt(v, p)
    <3>1. other = list /\ T = S /\ c = b
      BY <1>1, <1>3, <1>8, <2>4 DEF ListStep
    <3>2. QED
      BY <1>5, <3>1
  <2>5. CASE CountsAt(v, p)
    <3>1. PICK q : PairAt(q, v, n + 1) /\ LastIs(other, list, m, Append(list[m], q))
      BY <1>1, <1>4, <2>5 DEF ListStep
    <3>2. c = b /\ T = S \cup {n + 1}
      BY <1>1, <1>3, <1>6, <1>7, <2>5
    <3>3. n + 1 <= NumLines(v.doc) /\ NumLines(v.doc) \in Nat
      BY <1>1, <1>2
    <3>4. RightLists(v, other, m, S \cup {n + 1}, b)
      BY <1>3, <1>5, <3>1, <3>3, ListsAdd
    <3>5. QED
      BY <3>2, <3>4
  <2>6. QED
    BY <2>1, <2>2, <2>3, <2>4, <2>5
<1>10. PICK k : RightLists(v, other, k, T, c)
  BY <1>9
<1>11. k = Len(other)
  BY <1>10 DEF RightLists
<1>12. Lists(v, other, p)
  BY <1>2, <1>4, <1>10, <1>11, ListsAre
<1>13. QED
  BY <1>1, <1>12

\* The headers that are known.
LEMMA KnownHeaders ==
  ASSUME NEW v, NEW N, Viewed(v, N), NEW n \in Nat, n + 1 <= N, NEW s, Lists(v, s.include_list, n), IsInclude(v, n + 1)
  PROVE  FindHeader(s, v.doc.elided[n + 1].inc) <=> Duplicates(v)[n + 1]
<1>1. PICK list, m, h, S : list = s.include_list /\ m = Len(list) /\ h = v.doc.elided[n + 1].inc /\ S = Listed(v, n)
  OBVIOUS
<1>2. RightLists(v, list, m, S, v.branches[n])
  BY <1>1, ListsAre
<1>3. KnownUpto(list, m) = Pairs(v, S)
  BY <1>2, AllKnown
<1>4. PICK P : m \in Nat /\ list \in Seq(Seq(P)) /\ m = Len(list)
  BY <1>2 DEF RightLists
<1>5. Included(s) = KnownUpto(list, m)
  <2>1. DOMAIN list = 1 .. m
    BY <1>4
  <2>2. ASSUME NEW x
        PROVE  x \in Included(s) <=> \E k \in DOMAIN list : \E j \in DOMAIN list[k] : x = list[k][j]
    BY <1>1 DEF Included
  <2>3. ASSUME NEW x
        PROVE  x \in KnownUpto(list, m) <=> \E k \in 1 .. m : \E j \in DOMAIN list[k] : x = list[k][j]
    BY DEF KnownUpto, ToSet
  <2>4. QED
    BY <2>1, <2>2, <2>3
<1>6. FindHeader(s, h) <=> \E f \in Pairs(v, S) : f[1] = h
  BY <1>3, <1>5, Zenon DEF FindHeader
<1>7. (\E f \in Pairs(v, S) : f[1] = h) <=> \E u \in S : v.doc.elided[u].inc = h
  <2>1. \A u : <<v.doc.elided[u].inc, u>>[1] = v.doc.elided[u].inc
    OBVIOUS
  <2>2. QED
    BY <2>1 DEF Pairs
<1>8. Duplicates(v)[n + 1] <=> \E u \in S : v.doc.elided[u].inc = h
  BY <1>1, DuplicateIs
<1>9. QED
  BY <1>1, <1>6, <1>7, <1>8

------------------------------------------------------------------------------
(* What the includes are blamed for. *)

\* Of two lists of errors.
LEMMA AboutBoth ==
  ASSUME NEW E, NEW F, IsSeq(E), IsSeq(F)
  PROVE  AboutIncludes(E \o F) = AboutIncludes(E) \cup AboutIncludes(F)
<1>1. PICK U, W : E \in Seq(U) /\ F \in Seq(W)
  BY DEF IsSeq
<1>2. PICK V : V = U \cup W
  OBVIOUS
<1>3. E \in Seq(V) /\ F \in Seq(V)
  BY <1>1, <1>2
<1>4. PICK G, m, n : G = E \o F /\ m = Len(E) /\ n = Len(F)
  OBVIOUS
<1>5. m \in Nat /\ n \in Nat /\ DOMAIN E = 1 .. m /\ DOMAIN F = 1 .. n
  BY <1>1, <1>4
<1>6. G \in Seq(V) /\ Len(G) = m + n /\ \A u \in 1 .. m + n : G[u] = IF u <= m THEN E[u] ELSE F[u - m]
  BY <1>3, <1>4, ConcatProperties
<1>7. DOMAIN G = 1 .. m + n
  BY <1>5, <1>6
<1>8. \A u \in 1 .. m : u \in 1 .. m + n /\ G[u] = E[u]
  BY <1>5, <1>6
<1>9. \A u \in 1 .. n : u + m \in 1 .. m + n /\ G[u + m] = F[u]
  BY <1>5, <1>6
<1>10. \A u \in 1 .. m + n : (u \in 1 .. m /\ G[u] = E[u]) \/ (u - m \in 1 .. n /\ G[u] = F[u - m])
  BY <1>5, <1>6
<1>11. ToSet(G) = ToSet(E) \cup ToSet(F)
  <2>1. \A x \in ToSet(G) : x \in ToSet(E) \/ x \in ToSet(F)
    BY <1>5, <1>7, <1>10 DEF ToSet
  <2>2. \A x \in ToSet(E) : x \in ToSet(G)
    BY <1>5, <1>7, <1>8 DEF ToSet
  <2>3. \A x \in ToSet(F) : x \in ToSet(G)
    BY <1>5, <1>7, <1>9 DEF ToSet
  <2>4. QED
    BY <2>1, <2>2, <2>3
<1>12. QED
  BY <1>4, <1>11, Zenon DEF AboutIncludes

\* Of none.
LEMMA AboutNone == AboutIncludes(<< >>) = {} /\ IsSeq(<< >>)
<1>1. ToSet(<< >>) = {}
  BY DEF ToSet
<1>2. QED
  BY <1>1, SeqNone DEF AboutIncludes

\* Of one.
LEMMA AboutOne ==
  ASSUME NEW n, NEW category, NEW k, NEW e, e = <<n, category, k>>
  PROVE  /\ IsSeq(<<e>>) /\ (category \in {"build/include", "build/include_order"} => AboutIncludes(<<e>>) = {e})
         /\ category \notin {"build/include", "build/include_order"} => AboutIncludes(<<e>>) = {}
<1>1. PICK s : s = <<e>>
  OBVIOUS
<1>2. DOMAIN s = {1} /\ s[1] = e
  BY <1>1
<1>3. ToSet(s) = {e}
  BY <1>2 DEF ToSet
<1>4. e[2] = category
  OBVIOUS
<1>5. IsSeq(s)
  BY <1>1, SeqShort
<1>6. QED
  BY <1>1, <1>3, <1>4, <1>5 DEF AboutIncludes

\* Of errors of other categories.
LEMMA AboutOthers ==
  ASSUME NEW E, NEW n, NEW N, OfLines(E, n, N, Reserved)
  PROVE  AboutIncludes(E) = {} /\ IsSeq(E)
<1>1. PICK U : E \in Seq(U) /\ \A e \in U : e[2] \notin Reserved /\ Behind(e[1], n, N)
  BY DEF OfLines
<1>2. ToSet(E) \subseteq U
  BY <1>1, OwnElements
<1>3. \A e \in U : e[2] \notin {"build/include", "build/include_order"}
  BY <1>1 DEF Reserved, GuardsOwn
<1>4. QED
  BY <1>1, <1>2, <1>3 DEF AboutIncludes, IsSeq

\* What line k is blamed for.
BlamedAt(v, k) ==
  {e \in {<<k, "build/include", 4>>} : IsInclude(v, k) /\ (Duplicates(v)[k] \/ Elsewhere(v, k))}
    \cup {e \in {<<k, "build/include_order", 4>>} : Misplaced(v, k)}

\* The blame of one line more.
LEMMA BlamedNext ==
  ASSUME NEW v, NEW n \in Nat
  PROVE  Blamed(v, n + 1) = Blamed(v, n) \cup BlamedAt(v, n + 1)
<1>1. \A u : u \in 1 .. n + 1 <=> u \in 1 .. n \/ u = n + 1
  OBVIOUS
<1> DEFINE A(u) == IsInclude(v, u) /\ (Duplicates(v)[u] \/ Elsewhere(v, u))
           B(u) == Misplaced(v, u)
           P(u) == <<u, "build/include", 4>>
           Q(u) == <<u, "build/include_order", 4>>
<1>2. \A x : x \in Blamed(v, n + 1) <=> (\E u \in 1 .. n + 1 : A(u) /\ x = P(u)) \/ (\E u \in 1 .. n + 1 : B(u) /\ x = Q(u))
  BY Zenon DEF Blamed
<1>3. \A x : x \in Blamed(v, n) <=> (\E u \in 1 .. n : A(u) /\ x = P(u)) \/ (\E u \in 1 .. n : B(u) /\ x = Q(u))
  BY Zenon DEF Blamed
<1>4. \A x : x \in BlamedAt(v, n + 1) <=> (A(n + 1) /\ x = P(n + 1)) \/ (B(n + 1) /\ x = Q(n + 1))
  BY Zenon DEF BlamedAt
<1> HIDE DEF A, B, P, Q
<1>5. ASSUME NEW x
      PROVE  x \in Blamed(v, n + 1) <=> x \in Blamed(v, n) \/ x \in BlamedAt(v, n + 1)
  <2>1. PICK p : p = n + 1
    OBVIOUS
  <2>2. (\E u \in 1 .. p : A(u) /\ x = P(u)) <=> (\E u \in 1 .. n : A(u) /\ x = P(u)) \/ (A(p) /\ x = P(p))
    BY <1>1, <2>1, Zenon
  <2>3. (\E u \in 1 .. p : B(u) /\ x = Q(u)) <=> (\E u \in 1 .. n : B(u) /\ x = Q(u)) \/ (B(p) /\ x = Q(p))
    BY <1>1, <2>1, Zenon
  <2>4. QED
    BY <1>2, <1>3, <1>4, <2>1, <2>2, <2>3, Zenon
<1>6. QED
  BY <1>5


\* CheckIncludeLine, by what the line is: rest are errors of other categories.
IncludeLine(r, v, s, p, bare, alpha) ==
  LET order == CheckNextIncludeOrder(s, KindAt(v, p))
      recorded == [order.state EXCEPT !.include_list[Len(s.include_list)] = Append(@, <<v.doc.elided[p].inc, p>>)]
  IN r = IF FindHeader(s, v.doc.elided[p].inc) \/ Elsewhere(v, p)
         THEN [state |-> s, errors |-> Append(bare, <<p, "build/include", 4>>)]
         ELSE IF Foreign(v, p) THEN [state |-> s, errors |-> bare]
         ELSE [state |-> [recorded EXCEPT !.last_header = HeaderAt(v, p).alpha],
               errors |-> bare \o (IF order.late THEN <<<<p, "build/include_order", 4>>>> ELSE << >>) \o alpha]

LineOf(r, v, s, p) == r = CheckIncludeLine(s, v.f, v.doc, p, v.nonheaders, v.headers)

\* It does what that says.
LEMMA IncludeLineIs ==
  ASSUME NEW v, NEW s, NEW p, NEW r, LineOf(r, v, s, p)
  PROVE  \E bare, alpha :
           /\ IncludeLine(r, v, s, p, bare, alpha)
           /\ bare = << >> \/ bare = <<<<p, "build/include_subdir", 4>>>>
           /\ alpha = << >> \/ alpha = <<<<p, "build/include_alpha", 4>>>>
<1> DEFINE l == v.doc.elided[p]
           h == Header[l.inc]
           order == CheckNextIncludeOrder(s, _ClassifyInclude(v.f, h, l.sys))
<1>1. PICK bare : bare = IF ~l.sys /\ h.dir = "" /\ h.ext = "h" /\ ~h.third THEN <<<<p, "build/include_subdir", 4>>>> ELSE << >>
  OBVIOUS
<1>2. PICK alpha : alpha = IF IsInAlphabeticalOrder(order.state, v.doc, p, h) THEN << >> ELSE <<<<p, "build/include_alpha", 4>>>>
  OBVIOUS
<1>3. IncludeLine(r, v, s, p, bare, alpha)
  BY <1>1, <1>2, Zenon DEF LineOf, CheckIncludeLine, IncludeLine, KindAt, HeaderAt, Elsewhere, Foreign
<1>4. bare = << >> \/ bare = <<<<p, "build/include_subdir", 4>>>>
  BY <1>1, Zenon
<1>5. alpha = << >> \/ alpha = <<<<p, "build/include_alpha", 4>>>>
  BY <1>2, Zenon
<1>6. QED
  BY <1>3, <1>4, <1>5, Zenon

\* The state after an #include that counts.
PairRecorded(u, t, m, q, a) == u = [[t EXCEPT !.include_list[m] = Append(@, q)] EXCEPT !.last_header = a]

\* The state with the pair recorded.
LEMMA Recorded ==
  ASSUME NEW t, NEW list, NEW section, NEW h, StateIs(t, list, section, h),
         NEW m, NEW q, NEW a, NEW u, PairRecorded(u, t, m, q, a),
         NEW other, LastIs(other, list, m, Append(list[m], q))
  PROVE  StateIs(u, other, section, a)
<1>1. t.include_list = list /\ DOMAIN t = {"include_list", "section", "last_header"} /\ t.section = section
  BY DEF StateIs
<1>2. PICK w : w = [t EXCEPT !.include_list[m] = Append(@, q)]
  OBVIOUS
<1>3. w = [t EXCEPT !.include_list = [list EXCEPT ![m] = Append(@, q)]]
  BY <1>1, <1>2
<1>4. [list EXCEPT ![m] = Append(@, q)] = other
  BY DEF LastIs
<1>5. w = [t EXCEPT !.include_list = other]
  BY <1>3, <1>4
<1>6. DOMAIN w = {"include_list", "section", "last_header"} /\ w.include_list = other /\ w.section = section
  BY <1>1, <1>5
<1>7. /\ DOMAIN u = {"include_list", "section", "last_header"} /\ u = [x \in DOMAIN u |-> u[x]]
      /\ u.include_list = other /\ u.section = section /\ u.last_header = a
  BY <1>2, <1>6 DEF PairRecorded
<1>8. PICK b : b = [include_list |-> other, section |-> section, last_header |-> a]
  OBVIOUS
<1>9. /\ DOMAIN b = {"include_list", "section", "last_header"} /\ b = [x \in DOMAIN b |-> b[x]]
      /\ b.include_list = other /\ b.section = section /\ b.last_header = a
  BY <1>8
<1>10. \A x \in DOMAIN u : u[x] = b[x]
  BY <1>7, <1>9
<1>11. QED
  BY <1>7, <1>8, <1>9, <1>10 DEF StateIs

------------------------------------------------------------------------------
(* What is remembered after a line, and what it is blamed for. *)

\* An error more that is about the includes.
LEMMA AboutMore ==
  ASSUME NEW E, IsSeq(E), AboutIncludes(E) = {}, NEW n, NEW category, NEW k, NEW e, e = <<n, category, k>>,
         category \in {"build/include", "build/include_order"}
  PROVE  AboutIncludes(Append(E, e)) = {e}
<1>1. PICK U : E \in Seq(U)
  BY DEF IsSeq
<1>2. PICK V : V = U \cup {e}
  OBVIOUS
<1>3. E \in Seq(V) /\ e \in V
  BY <1>1, <1>2
<1>4. PICK F : F = Append(E, e)
  OBVIOUS
<1>5. ToSet(F) = ToSet(E) \cup {e}
  BY <1>3, <1>4, OneIncludeMore
<1>6. e[2] \in {"build/include", "build/include_order"}
  OBVIOUS
<1>7. AboutIncludes(F) = AboutIncludes(E) \cup {e}
  BY <1>5, <1>6 DEF AboutIncludes
<1>8. QED
  BY <1>4, <1>7

\* What is remembered, by its fields.
LEMMA RemembersIs ==
  ASSUME NEW v, NEW n, NEW t, NEW list, NEW section, NEW h,
         t = [include_list |-> list, section |-> section, last_header |-> h],
         Lists(v, list, n), Sections(v, section, n)
  PROVE  Remembers(v, t, n)
<1>1. t.include_list = list /\ t.section = section /\ t.last_header = h
  OBVIOUS
<1>2. t = [include_list |-> t.include_list, section |-> t.section, last_header |-> t.last_header]
  BY <1>1
<1>3. QED
  BY <1>1, <1>2, Zenon DEF Remembers

\* A directive.
LEMMA ResetIs ==
  ASSUME NEW s, NEW list, NEW section, NEW h, s = [include_list |-> list, section |-> section, last_header |-> h], NEW dir
  PROVE  \E other : /\ ResetSection(s, dir) = [include_list |-> other, section |-> Initial, last_header |-> 0]
                    /\ IfDir(dir) => EmptyLast(other, list)
                    /\ ElseDir(dir) => Emptied(other, list, Len(list))
                    /\ ~IfDir(dir) /\ ~ElseDir(dir) => other = list
<1>1. PICK other : other = CASE dir \in {"if", "ifdef", "ifndef"} -> Append(list, << >>)
                             [] Clears(dir) -> [list EXCEPT ![Len(list)] = << >>]
                             [] OTHER -> list
  OBVIOUS
<1>2. PICK t : t = ResetSection(s, dir)
  OBVIOUS
<1>3. t = [s EXCEPT !.section = Initial, !.last_header = 0, !.include_list = other]
  BY <1>1, <1>2 DEF ResetSection
<1>4. DOMAIN s = {"include_list", "section", "last_header"}
  OBVIOUS
<1>5. /\ DOMAIN t = {"include_list", "section", "last_header"} /\ t = [x \in DOMAIN t |-> t[x]]
      /\ t.include_list = other /\ t.section = Initial /\ t.last_header = 0
  BY <1>3, <1>4
<1>6. PICK b : b = [include_list |-> other, section |-> Initial, last_header |-> 0]
  OBVIOUS
<1>7. /\ DOMAIN b = {"include_list", "section", "last_header"} /\ b = [x \in DOMAIN b |-> b[x]]
      /\ b.include_list = other /\ b.section = Initial /\ b.last_header = 0
  BY <1>6
<1>8. \A x \in DOMAIN t : t[x] = b[x]
  BY <1>5, <1>7
<1>9. t = b
  BY <1>5, <1>7, <1>8
<1>10. IfDir(dir) => EmptyLast(other, list)
  BY <1>1 DEF IfDir, Clears, EmptyLast
<1>11. ElseDir(dir) => Emptied(other, list, Len(list))
  BY <1>1 DEF ElseDir, Clears, Emptied
<1>12. ~IfDir(dir) /\ ~ElseDir(dir) => other = list
  BY <1>1 DEF IfDir, ElseDir, Clears
<1>13. QED
  BY <1>2, <1>6, <1>9, <1>10, <1>11, <1>12

\* An #include.
LEMMA IncludeNext ==
  ASSUME NEW v, NEW N, Viewed(v, N), NEW n \in Nat, n + 1 <= N, NEW s, Remembers(v, s, n), IsInclude(v, n + 1),
         NEW r, r = CheckIncludeLine(s, v.f, v.doc, n + 1, v.nonheaders, v.headers)
  PROVE  Remembers(v, r.state, n + 1) /\ AboutIncludes(r.errors) = BlamedAt(v, n + 1)
<1>1. PICK p, dir, list, section, h :
        /\ p = n + 1 /\ dir = v.doc.elided[p].dir /\ list = s.include_list /\ section = s.section /\ h = s.last_header
  OBVIOUS
<1>2. /\ s = [include_list |-> list, section |-> section, last_header |-> h]
      /\ Lists(v, list, n) /\ Sections(v, section, n)
  BY <1>1 DEF Remembers
<1>3. dir = "include" /\ ~IsReset(v, p) /\ ~IfDir(dir) /\ ~ElseDir(dir) /\ IsInclude(v, p)
  BY <1>1 DEF IsInclude, IsReset, IfDir, ElseDir
<1>4. PICK bare, alpha :
        /\ IncludeLine(r, v, s, p, bare, alpha)
        /\ bare = << >> \/ bare = <<<<p, "build/include_subdir", 4>>>>
        /\ alpha = << >> \/ alpha = <<<<p, "build/include_alpha", 4>>>>
  <2>1. LineOf(r, v, s, p)
    BY <1>1 DEF LineOf
  <2>2. QED
    BY <2>1, IncludeLineIs
<1>5. AboutIncludes(bare) = {} /\ IsSeq(bare) /\ AboutIncludes(alpha) = {} /\ IsSeq(alpha)
  <2>1. PICK e, f : e = <<p, "build/include_subdir", 4>> /\ f = <<p, "build/include_alpha", 4>>
    OBVIOUS
  <2>2. IsSeq(<<e>>) /\ AboutIncludes(<<e>>) = {} /\ IsSeq(<<f>>) /\ AboutIncludes(<<f>>) = {}
    BY <2>1, AboutOne
  <2>3. (bare = << >> \/ bare = <<e>>) /\ (alpha = << >> \/ alpha = <<f>>)
    BY <1>4, <2>1
  <2>4. QED
    BY <2>2, <2>3, AboutNone
<1>6. PICK inc : inc = v.doc.elided[p].inc
  OBVIOUS
<1>7. FindHeader(s, inc) <=> Duplicates(v)[p]
  BY <1>1, <1>2, <1>6, KnownHeaders
<1>8. PICK e, f : e = <<p, "build/include", 4>> /\ f = <<p, "build/include_order", 4>>
  OBVIOUS
<1>9. BlamedAt(v, p) = {x \in {e} : Duplicates(v)[p] \/ Elsewhere(v, p)} \cup {x \in {f} : Misplaced(v, p)}
  BY <1>3, <1>8, Zenon DEF BlamedAt
<1>10. ~CountsAt(v, p) => Lists(v, list, p) /\ Sections(v, section, p) /\ ~Misplaced(v, p)
  <2>1. SUFFICES ASSUME ~CountsAt(v, p)
                 PROVE  Lists(v, list, p) /\ Sections(v, section, p) /\ ~Misplaced(v, p)
    OBVIOUS
  <2>2. ListStep(v, list, list, n, dir)
    BY <1>1, <1>3, <2>1 DEF ListStep
  <2>3. Lists(v, list, p)
    BY <1>1, <1>2, <2>2, ListsNext
  <2>4. QED
    BY <1>1, <1>2, <1>3, <2>1, <2>3, SectionsNext
<1>11. ~CountsAt(v, p) => Remembers(v, s, p)
  BY <1>2, <1>10, RemembersIs
<1>12. CASE FindHeader(s, inc) \/ Elsewhere(v, p)
  <2>1. r = [state |-> s, errors |-> Append(bare, e)]
    BY <1>4, <1>6, <1>8, <1>12, Zenon DEF IncludeLine
  <2>2. ~CountsAt(v, p)
    BY <1>7, <1>12 DEF CountsAt
  <2>3. AboutIncludes(Append(bare, e)) = {e}
    BY <1>5, <1>8, AboutMore
  <2>4. BlamedAt(v, p) = {e}
    BY <1>7, <1>9, <1>10, <1>12, <2>2
  <2>5. r.state = s /\ r.errors = Append(bare, e)
    BY <2>1
  <2>6. QED
    BY <1>1, <1>11, <2>2, <2>3, <2>4, <2>5
<1>13. CASE ~(FindHeader(s, inc) \/ Elsewhere(v, p)) /\ Foreign(v, p)
  <2>1. r = [state |-> s, errors |-> bare]
    BY <1>4, <1>6, <1>13, Zenon DEF IncludeLine
  <2>2. ~CountsAt(v, p)
    BY <1>13 DEF CountsAt
  <2>3. BlamedAt(v, p) = {}
    BY <1>7, <1>9, <1>10, <1>13, <2>2
  <2>4. r.state = s /\ r.errors = bare
    BY <2>1
  <2>5. QED
    BY <1>1, <1>5, <1>11, <2>2, <2>3, <2>4
<1>14. CASE ~(FindHeader(s, inc) \/ Elsewhere(v, p)) /\ ~Foreign(v, p)
  <2>1. CountsAt(v, p)
    BY <1>3, <1>7, <1>14 DEF CountsAt
  <2>2. PICK order, kind, q, m, late : /\ kind = KindAt(v, p) /\ order = CheckNextIncludeOrder(s, kind) /\ q = <<inc, p>> /\ m = Len(list)
                                       /\ late = IF order.late THEN <<f>> ELSE << >>
    OBVIOUS
  <2>3. PICK a, u : /\ u = [[order.state EXCEPT !.include_list[m] = Append(@, q)] EXCEPT !.last_header = a]
                    /\ r = [state |-> u, errors |-> bare \o late \o alpha]
    BY <1>1, <1>4, <1>6, <1>8, <1>14, <2>2, Zenon DEF IncludeLine
  <2>4. (order.late <=> LateIn(section, kind)) /\ \E x : StateIs(order.state, list, NextIn(section, kind), x)
    <3>1. OrderIs(order, s, kind) /\ StateIs(s, list, section, h)
      BY <1>2, <2>2 DEF OrderIs, StateIs
    <3>2. QED
      BY <3>1, NextOrder
  <2>5. PICK other : LastIs(other, list, m, Append(list[m], q))
    BY DEF LastIs
  <2>6. PICK t, next, x : t = order.state /\ next = NextIn(section, kind) /\ StateIs(t, list, next, x)
    BY <2>4
  <2>7. u = [include_list |-> other, section |-> next, last_header |-> a]
    <3>1. PairRecorded(u, t, m, q, a)
      BY <2>3, <2>6 DEF PairRecorded
    <3>2. StateIs(u, other, next, a)
      BY <2>5, <2>6, <3>1, Recorded
    <3>3. QED
      BY <3>2 DEF StateIs
  <2>8. ListStep(v, list, other, n, dir)
    <3>1. PairAt(q, v, n + 1)
      BY <1>1, <1>6, <2>2 DEF PairAt
    <3>2. QED
      BY <1>1, <1>3, <2>1, <2>2, <2>5, <3>1, Zenon DEF ListStep
  <2>9. Lists(v, other, p)
    BY <1>1, <1>2, <2>8, ListsNext
  <2>10. Sections(v, next, p) /\ (Misplaced(v, p) <=> LateIn(section, kind))
    BY <1>1, <1>2, <1>3, <2>1, <2>2, <2>6, SectionsNext
  <2>11. Remembers(v, u, p)
    BY <2>7, <2>9, <2>10, RemembersIs
  <2>12. AboutIncludes(late) = {y \in {f} : Misplaced(v, p)} /\ IsSeq(late)
    <3>1. CASE order.late
      <4>1. late = <<f>> /\ Misplaced(v, p)
        BY <2>2, <2>4, <2>10, <3>1
      <4>2. AboutIncludes(<<f>>) = {f} /\ IsSeq(<<f>>)
        BY <1>8, AboutOne
      <4>3. QED
        BY <4>1, <4>2
    <3>2. CASE ~order.late
      <4>1. late = << >> /\ ~Misplaced(v, p)
        BY <2>2, <2>4, <2>10, <3>2
      <4>2. QED
        BY <4>1, AboutNone
    <3>3. QED
      BY <3>1, <3>2
  <2>13. AboutIncludes(bare \o late \o alpha) = {y \in {f} : Misplaced(v, p)}
    <3>1. PICK E : E = bare \o late
      OBVIOUS
    <3>2. AboutIncludes(E) = AboutIncludes(bare) \cup AboutIncludes(late) /\ IsSeq(E)
      BY <1>5, <2>12, <3>1, AboutBoth, SeqBoth
    <3>3. AboutIncludes(E \o alpha) = AboutIncludes(E) \cup AboutIncludes(alpha)
      BY <1>5, <3>2, AboutBoth
    <3>4. QED
      BY <1>5, <2>12, <3>1, <3>2, <3>3
  <2>14. BlamedAt(v, p) = {y \in {f} : Misplaced(v, p)}
    BY <1>7, <1>9, <1>14
  <2>15. r.state = u /\ r.errors = bare \o late \o alpha
    BY <2>3
  <2>16. QED
    BY <1>1, <2>11, <2>13, <2>14, <2>15
<1>15. QED
  BY <1>12, <1>13, <1>14

\* Any line.
LEMMA IncludesNext ==
  ASSUME NEW v, NEW N, Viewed(v, N), NEW n \in Nat, n + 1 <= N, NEW s, Remembers(v, s, n),
         NEW r, r = UpdateIncludes(s, v.f, v.doc, n + 1, v.nonheaders, v.headers)
  PROVE  Remembers(v, r.state, n + 1) /\ AboutIncludes(r.errors) = BlamedAt(v, n + 1)
<1>1. PICK p, dir, list, section, h :
        /\ p = n + 1 /\ dir = v.doc.elided[p].dir /\ list = s.include_list /\ section = s.section /\ h = s.last_header
  OBVIOUS
<1>2. /\ s = [include_list |-> list, section |-> section, last_header |-> h]
      /\ Lists(v, list, n) /\ Sections(v, section, n)
  BY <1>1 DEF Remembers
<1>3. CASE dir = "include"
  <2>1. IsInclude(v, n + 1) /\ r = CheckIncludeLine(s, v.f, v.doc, n + 1, v.nonheaders, v.headers)
    BY <1>1, <1>3 DEF IsInclude, UpdateIncludes
  <2>2. QED
    BY <2>1, IncludeNext
<1>4. CASE dir # "include"
  <2>1. ~IsInclude(v, p) /\ ~CountsAt(v, p)
    BY <1>1, <1>4 DEF IsInclude, CountsAt
  <2>2. BlamedAt(v, p) = {}
    BY <2>1 DEF BlamedAt, Misplaced
  <2>3. CASE IsReset(v, p)
    <3>1. r = [state |-> ResetSection(s, dir), errors |-> << >>]
      BY <1>1, <1>4, <2>3 DEF UpdateIncludes, IsReset
    <3>2. PICK other : /\ ResetSection(s, dir) = [include_list |-> other, section |-> Initial, last_header |-> 0]
                       /\ IfDir(dir) => EmptyLast(other, list)
                       /\ ElseDir(dir) => Emptied(other, list, Len(list))
                       /\ ~IfDir(dir) /\ ~ElseDir(dir) => other = list
      BY <1>2, ResetIs
    <3>3. ListStep(v, list, other, n, dir)
      BY <1>1, <2>1, <3>2 DEF ListStep
    <3>4. Lists(v, other, p) /\ Sections(v, Initial, p)
      BY <1>1, <1>2, <2>3, <3>3, ListsNext, SectionsNext
    <3>5. Remembers(v, ResetSection(s, dir), p)
      BY <3>2, <3>4, RemembersIs
    <3>6. r.state = ResetSection(s, dir) /\ r.errors = << >>
      BY <3>1
    <3>7. QED
      BY <1>1, <2>2, <3>5, <3>6, AboutNone
  <2>4. CASE ~IsReset(v, p)
    <3>1. r = [state |-> s, errors |-> << >>]
      BY <1>1, <1>4, <2>4 DEF UpdateIncludes, IsReset
    <3>2. ~IfDir(dir) /\ ~ElseDir(dir)
      BY <1>1, <2>4 DEF IsReset, IfDir, ElseDir
    <3>3. ListStep(v, list, list, n, dir)
      BY <1>1, <2>1, <3>2 DEF ListStep
    <3>4. Lists(v, list, p) /\ Sections(v, section, p)
      BY <1>1, <1>2, <2>1, <2>4, <3>3, ListsNext, SectionsNext
    <3>5. Remembers(v, s, p)
      BY <1>2, <3>4, RemembersIs
    <3>6. r.state = s /\ r.errors = << >>
      BY <3>1
    <3>7. QED
      BY <1>1, <2>2, <3>5, <3>6, AboutNone
  <2>5. QED
    BY <2>3, <2>4
<1>5. QED
  BY <1>3, <1>4

------------------------------------------------------------------------------
(* Ahead of the first line no include is blamed. *)

Clean(log) == IsSeq(log.found) /\ AboutIncludes(log.found) = {}

\* Error adds what is found.
LEMMA FoundMore ==
  ASSUME NEW log, NEW sup, NEW E
  PROVE  Error(log, sup, E).found = log.found \o E
<1>1. PICK x, y, z : z = Error(log, sup, E) /\ z = [state |-> x, found |-> log.found \o E, reported |-> y]
  BY Zenon DEF Error
<1>2. z.found = log.found \o E
  BY <1>1
<1>3. QED
  BY <1>1, <1>2

\* Errors of other categories.
LEMMA CleanMore ==
  ASSUME NEW log, Clean(log), NEW sup, NEW E, IsSeq(E), AboutIncludes(E) = {}
  PROVE  Clean(Error(log, sup, E))
<1>1. PICK F, z : F = log.found /\ z = Error(log, sup, E)
  OBVIOUS
<1>2. z.found = F \o E
  BY <1>1, FoundMore
<1>3. IsSeq(F) /\ AboutIncludes(F) = {}
  BY <1>1 DEF Clean
<1>4. AboutIncludes(F \o E) = {}
  BY <1>3, AboutBoth
<1>5. IsSeq(F \o E)
  BY <1>3, SeqBoth
<1>6. QED
  BY <1>1, <1>2, <1>4, <1>5 DEF Clean

\* At most one error, of this category.
AtMost(E, n, category, k) == E = << >> \/ E = <<<<n, category, k>>>>

\* Such an error, or none.
LEMMA CleanOne ==
  ASSUME NEW log, Clean(log), NEW sup, NEW E, NEW n, NEW category, NEW k,
         category \notin {"build/include", "build/include_order"}, AtMost(E, n, category, k)
  PROVE  Clean(Error(log, sup, E))
<1>1. PICK e : e = <<n, category, k>>
  OBVIOUS
<1>2. IsSeq(<<e>>) /\ AboutIncludes(<<e>>) = {}
  BY <1>1, AboutOne
<1>3. E = << >> \/ E = <<e>>
  BY <1>1 DEF AtMost
<1>4. IsSeq(E) /\ AboutIncludes(E) = {}
  BY <1>2, <1>3, AboutNone
<1>5. QED
  BY <1>4, CleanMore

\* A step of the check of the header guard.
LEMMA CleanParse ==
  ASSUME NEW a, Clean(a.log), NEW j, NEW d
  PROVE  Clean(GuardStep(a, ParseOf(j), d).log)
<1>1. PICK l, sup, log : l = (IF j = 0 THEN Plain ELSE d.elided[j]) /\ sup = a.suppress /\ log = a.log
  OBVIOUS
<1>2. PICK now : now = ParseNolintSuppressions(sup, l, j)
  OBVIOUS
<1>3. now.errors = << >> \/ now.errors = <<<<j, "readability/nolint", 5>>>>
  <2>1. PICK x, y : now = [state |-> x, errors |-> << >>] \/ now = [state |-> y, errors |-> <<<<j, "readability/nolint", 5>>>>]
    BY <1>2, Zenon DEF ParseNolintSuppressions
  <2>2. QED
    BY <2>1
<1>4. PICK E : E = now.errors
  OBVIOUS
<1>5. Clean(Error(log, now.state, E))
  <2>1. AtMost(E, j, "readability/nolint", 5)
    BY <1>3, <1>4 DEF AtMost
  <2>2. Clean(log)
    BY <1>1
  <2>3. QED
    BY <2>1, <2>2, CleanOne
<1>6. PICK z : z = GuardStep(a, <<"parse", j>>, d)
  OBVIOUS
<1>7. z = [log |-> Error(log, now.state, E), suppress |-> now.state]
  BY <1>1, <1>2, <1>4, <1>6 DEF GuardStep, AheadStep
<1>8. z.log = Error(log, now.state, E)
  BY <1>7
<1>9. QED
  BY <1>5, <1>6, <1>8, Zenon DEF ParseOf

\* An error of the check.
LEMMA CleanBlame ==
  ASSUME NEW a, Clean(a.log), NEW j, NEW c, NEW d
  PROVE  Clean(GuardStep(a, Blame(j, c), d).log)
<1>1. PICK e, sup, log : e = <<j, "build/header_guard", c>> /\ sup = a.suppress /\ log = a.log
  OBVIOUS
<1>2. PICK z, E : z = GuardStep(a, <<"error", e>>, d) /\ E = <<e>>
  OBVIOUS
<1>3. z = [log |-> Error(log, sup, E), suppress |-> sup]
  BY <1>1, <1>2 DEF GuardStep, AheadStep
<1>4. z.log = Error(log, sup, E)
  BY <1>3
<1>5. Clean(Error(log, sup, E))
  <2>1. AtMost(E, j, "build/header_guard", c) /\ Clean(log)
    BY <1>1, <1>2 DEF AtMost
  <2>2. QED
    BY <2>1, CleanOne
<1>6. QED
  BY <1>1, <1>2, <1>4, <1>5, Zenon DEF Blame

\* The check as a whole.
LEMMA CleanGuard ==
  ASSUME NEW start, Clean(start.log), NEW d, NEW cppvar, NEW guard, guard = CheckForHeaderGuard(d, cppvar)
  PROVE  /\ Len(guard) \in Nat
         /\ \A g : HeadUpto(g, start, guard, d, Len(guard)) => Clean(g[Len(guard)].log)
<1>1. PICK at, q, n : at = IfndefAt(d.elided) /\ q = EndifAt(d.elided) /\ n = Len(guard)
  OBVIOUS
<1>2. PICK c1, c2 : GuardIsOneOf(guard, d, cppvar, at, q, c1, c2)
  BY <1>1, GuardShape, Zenon
<1>3. n \in 0 .. 4
  BY <1>1, <1>2 DEF GuardIsOneOf
<1>4. \A k \in 1 .. n : \E j, c : guard[k] = ParseOf(j) \/ guard[k] = Blame(j, c)
  <2>1. SUFFICES ASSUME NEW k \in 1 .. n
                 PROVE  \E j, c : guard[k] = ParseOf(j) \/ guard[k] = Blame(j, c)
    OBVIOUS
  <2>2. (k = 1 /\ n >= 1) \/ (k = 2 /\ n >= 2) \/ (k = 3 /\ n >= 3) \/ (k = 4 /\ n = 4)
    BY <1>3
  <2>3. QED
    BY <1>1, <1>2, <1>3, <2>2 DEF GuardIsOneOf
<1>5. ASSUME NEW g, HeadUpto(g, start, guard, d, n)
      PROVE  Clean(g[n].log)
  <2>1. n \in Nat
    BY <1>3
  <2>2. g[0] = start /\ \A k \in Nat : k + 1 <= n => g[k + 1] = GuardStep(g[k], guard[k + 1], d)
    BY <1>5, <2>1, HeadSteps
  <2>3. ASSUME NEW k \in Nat, k + 1 <= n, Clean(g[k].log)
        PROVE  Clean(g[k + 1].log)
    <3>1. k + 1 \in 1 .. n
      BY <2>1, <2>3
    <3>2. PICK j, c : guard[k + 1] = ParseOf(j) \/ guard[k + 1] = Blame(j, c)
      BY <1>4, <3>1
    <3>3. PICK a : a = g[k]
      OBVIOUS
    <3>4. Clean(GuardStep(a, ParseOf(j), d).log) /\ Clean(GuardStep(a, Blame(j, c), d).log)
      BY <2>3, <3>3, CleanParse, CleanBlame
    <3>5. g[k + 1] = GuardStep(a, guard[k + 1], d)
      BY <2>2, <2>3, <3>3
    <3>6. QED
      BY <3>2, <3>4, <3>5, Zenon
  <2> DEFINE C(k) == Clean(g[k].log)
  <2>4. C(0)
    BY <2>2
  <2>5. \A k \in Nat : k + 1 <= n /\ C(k) => C(k + 1)
    BY <2>3
  <2> HIDE DEF C
  <2>6. n >= 1 => C(0 + 1)
    BY <1>3, <2>4, <2>5
  <2>7. n >= 2 => C(1 + 1)
    BY <1>3, <2>5, <2>6
  <2>8. n >= 3 => C(2 + 1)
    BY <1>3, <2>5, <2>7
  <2>9. n >= 4 => C(3 + 1)
    BY <1>3, <2>5, <2>8
  <2>10. C(n)
    BY <1>3, <2>4, <2>6, <2>7, <2>8, <2>9
  <2>11. QED
    BY <2>10 DEF C
<1>6. QED
  BY <1>1, <1>3, <1>5

\* All errors up to the first line.
LEMMA CleanHead ==
  ASSUME NEW log, Clean(log), NEW f, NEW lines, Len(lines) \in Nat, NEW extensions, NEW head,
         head = CheckHead(log, f, lines, extensions)
  PROVE  Clean(head.log)
<1>1. PICK copyright, global, start, errors, guard, d :
         HeadIn(head, log, f, lines, extensions, copyright, global, start, errors, guard, d)
  BY HeadParts, Zenon
<1>2. /\ copyright = Error(log, NoSuppressions, CheckForCopyright(lines))
      /\ start = [log |-> Error(copyright, global, errors), suppress |-> global]
      /\ errors = RemoveMultiLineComments(lines).errors
      /\ guard = << >> \/ (guard = CheckForHeaderGuard(d, f.cppvar) /\ f.ext \in extensions)
      /\ Len(guard) \in Nat => \E g : /\ HeadUpto(g, start, guard, d, Len(guard))
                                      /\ head.log = g[Len(guard)].log /\ head.suppress = g[Len(guard)].suppress
  BY <1>1, Zenon DEF HeadIn
<1>3. Clean(copyright)
  <2>1. PICK E, none : E = CheckForCopyright(lines) /\ none = NoSuppressions
    OBVIOUS
  <2>2. AtMost(E, 0, "legal/copyright", 5)
    BY <2>1, Zenon DEF CheckForCopyright, AtMost
  <2>3. Clean(Error(log, none, E))
    BY <2>2, CleanOne
  <2>4. QED
    BY <1>2, <2>1, <2>3
<1>4. Clean(Error(copyright, global, errors))
  <2>1. PICK j : AtMost(errors, j, "readability/multiline_comment", 5)
    BY <1>2, CommentErrors, Zenon DEF AtMost
  <2>2. QED
    BY <1>3, <2>1, CleanOne
<1>5. Clean(start.log)
  <2>1. start.log = Error(copyright, global, errors)
    BY <1>2
  <2>2. QED
    BY <1>4, <2>1
<1>6. CASE guard = << >>
  <2>1. PICK n : n = Len(guard)
    OBVIOUS
  <2>2. n = 0
    BY <1>6, <2>1
  <2>3. n \in Nat
    BY <2>2
  <2>4. PICK g : HeadUpto(g, start, guard, d, n) /\ head.log = g[n].log
    BY <1>2, <2>1, <2>3, Zenon
  <2>5. g[0] = start
    BY <2>3, <2>4, HeadFirst, Zenon
  <2>6. QED
    BY <1>5, <2>2, <2>4, <2>5, Zenon
<1>7. CASE guard = CheckForHeaderGuard(d, f.cppvar)
  <2>1. PICK cppvar : cppvar = f.cppvar
    OBVIOUS
  <2>2. Len(guard) \in Nat /\ \A g : HeadUpto(g, start, guard, d, Len(guard)) => Clean(g[Len(guard)].log)
    BY <1>5, <1>7, <2>1, CleanGuard, Zenon
  <2>3. QED
    BY <1>2, <2>2, Zenon
<1>8. QED
  BY <1>2, <1>6, <1>7, Zenon

------------------------------------------------------------------------------
(* Every #include is judged as the text has it. *)

\* The text, its lines and their number.
TextIs == pc = "lines" => /\ NumLines(doc) \in Nat /\ linenum \in 1 .. NumLines(doc) + 1
                          /\ \A k \in 1 .. NumLines(doc) : IsSeq(doc.elided[k].toks)

\* They are those of the file.
LEMMA TextIsIt == LintTyped /\ DocInv => TextIs
<1>1. SUFFICES ASSUME LintTyped, DocInv, pc = "lines"
               PROVE  TextIs
  BY DEF TextIs
<1>2. /\ NumLines(doc) \in Nat /\ DOMAIN doc.elided = 1 .. NumLines(doc)
      /\ linenum \in 1 .. NumLines(doc) + 1
  BY <1>1, DocOfText DEF DocInv, InText
<1>3. PICK lines : lines = TextLines(file)
  OBVIOUS
<1>4. lines \in Seq({Line[k] : k \in DOMAIN Line}) /\ doc = CleansedLines(RemoveMultiLineComments(lines).lines)
  BY <1>1, <1>3, LinesOfText DEF DocInv, InText
<1>5. \A k \in 1 .. NumLines(doc) : IsSeq(doc.elided[k].toks)
  BY <1>2, <1>4, ElidedLine DEF LineOK
<1>6. QED
  BY <1>2, <1>5 DEF TextIs

\* The same one step later.
LEMMA TextIsNext == LintTyped' /\ DocInv' => TextIs'
BY TextIsIt, PTL

\* The includes of the text as they are seen.
LEMMA IncludesOfText ==
  /\ IncludesOf.doc = doc /\ IncludesOf.branches = Branches(doc) /\ IncludesOf.f = files[file]
  /\ IncludesOf.nonheaders = nonheaders /\ IncludesOf.headers = headers
BY DEF IncludesOf

\* The same one step later.
LEMMA IncludesOfTextNext ==
  (/\ IncludesOf.doc = doc /\ IncludesOf.branches = Branches(doc) /\ IncludesOf.f = files[file]
   /\ IncludesOf.nonheaders = nonheaders /\ IncludesOf.headers = headers)'
BY IncludesOfText, PTL

\* What is remembered before the first line.
LEMMA RemembersNone ==
  ASSUME NEW v, NEW N, Viewed(v, N)
  PROVE  Remembers(v, NewIncludeState, 0) /\ Blamed(v, 0) = {}
<1>1. N \in Nat /\ N = NumLines(v.doc) /\ v.branches[0] = << >>
  <2>1. PICK d : d = v.doc
    OBVIOUS
  <2>2. NumLines(d) \in Nat /\ 0 \in 0 .. NumLines(d)
    BY <2>1 DEF Viewed
  <2>3. Branches(d)[0] = << >>
    BY <2>2, BranchesDef
  <2>4. QED
    BY <2>1, <2>3 DEF Viewed
<1>2. PICK list : list = <<<< >>>>
  OBVIOUS
<1>3. NewIncludeState = [include_list |-> list, section |-> 0, last_header |-> 0]
  BY <1>2 DEF NewIncludeState, Initial
<1>4. \A k : ~(k \in 1 .. 0)
  OBVIOUS
<1>5. Listed(v, 0) = {} /\ SinceReset(v, 0) = {} /\ Blamed(v, 0) = {}
  <2>1. Listed(v, 0) = {}
    BY <1>4, Zenon DEF Listed
  <2>2. SinceReset(v, 0) = {}
    BY <1>4, Zenon DEF SinceReset
  <2>3. Blamed(v, 0) = {}
    BY <1>4, Zenon DEF Blamed
  <2>4. QED
    BY <2>1, <2>2, <2>3
<1>6. Lists(v, list, 0)
  <2>1. PICK P : P = Pairs(v, 1 .. NumLines(v.doc))
    OBVIOUS
  <2>2. list \in Seq(Seq(P)) /\ Len(list) = 1 /\ list[1] = << >>
    BY <1>2
  <2>3. KnownUpto(list, 1) = {}
    <3>1. ToSet(<< >>) = {}
      BY DEF ToSet
    <3>2. 1 .. 1 = {1}
      OBVIOUS
    <3>3. QED
      BY <2>2, <3>1, <3>2 DEF KnownUpto
  <2>4. Pairs(v, Listed(v, 0)) = {}
    BY <1>5 DEF Pairs
  <2>5. PICK m : m = Len(list)
    OBVIOUS
  <2>6. /\ m > 0 /\ KnownUpto(list, m) = Pairs(v, Listed(v, 0)) /\ list \in Seq(Seq(Pairs(v, 1 .. NumLines(v.doc))))
    <3>1. m = 1
      BY <2>2, <2>5
    <3>2. m > 0
      BY <3>1
    <3>3. KnownUpto(list, m) = Pairs(v, Listed(v, 0))
      BY <2>3, <2>4, <3>1, Zenon
    <3>4. list \in Seq(Seq(Pairs(v, 1 .. NumLines(v.doc))))
      BY <2>1, <2>2, Zenon
    <3>5. QED
      BY <3>2, <3>3, <3>4
  <2>7. QED
    BY <1>1, <2>5, <2>6, Zenon DEF Lists
<1>7. Sections(v, 0, 0)
  BY <1>5 DEF Sections, MyH, CSys, CppSys
<1>8. PICK t : t = NewIncludeState
  OBVIOUS
<1>9. Remembers(v, t, 0)
  BY <1>3, <1>6, <1>7, <1>8, RemembersIs
<1>10. QED
  BY <1>5, <1>8, <1>9

\* A file that begins.
LEMMA BeginIncludes ==
  ASSUME LintTyped, LintTyped', DocInv', ProcessFile, NEW cfg, NEW head, Begun(cfg, head)
  PROVE  IncludesInv'
<1>1. PICK path, lines, f, extensions, was :
        /\ path = file' /\ lines = TextLines(path) /\ f = files[path]
        /\ extensions = GetHeaderExtensions(cfg.valid, cfg.hpp) /\ was = Filtered(cfg)
  OBVIOUS
<1>2. PICK log : log = [state |-> was, found |-> << >>, reported |-> << >>]
  OBVIOUS
<1>3. /\ head = CheckHead(log, f, lines, extensions)
      /\ pc' = "lines" /\ linenum' = 1 /\ found' = head.log.found /\ include_state' = NewIncludeState
  BY <1>1, <1>2, Zenon DEF Begun
<1>4. Len(lines) \in Nat
  <2>1. path \in Reachable(scenario)
    BY <1>1, FileIsReachable, FileBegins
  <2>2. lines \in Seq({Line[k] : k \in DOMAIN Line})
    BY <1>1, <2>1, LinesOfText
  <2>3. QED
    BY <2>2
<1>5. Clean(log)
  <2>1. log.found = << >>
    BY <1>2
  <2>2. QED
    BY <2>1, AboutNone DEF Clean
<1>6. Clean(head.log)
  BY <1>3, <1>4, <1>5, CleanHead
<1>7. AboutIncludes(found') = {}
  BY <1>3, <1>6 DEF Clean
<1>8. PICK v : v = IncludesOf'
  OBVIOUS
<1>9. v.doc = doc' /\ v.branches = Branches(doc)'
  BY <1>8, IncludesOfTextNext
<1>10. SUFFICES ASSUME Flat(doc)'
                PROVE  Remembers(v, include_state', linenum' - 1) /\ AboutIncludes(found') = Blamed(v, linenum' - 1)
  BY <1>8 DEF IncludesInv
<1>11. Viewed(v, NumLines(v.doc))
  BY <1>3, <1>9, <1>10, TextIsNext DEF Viewed, TextIs
<1>12. linenum' - 1 = 0
  BY <1>3
<1>13. QED
  BY <1>3, <1>7, <1>11, <1>12, RemembersNone

\* What is found by looking ahead is not about the includes.
SameAbout(log, F) == IsSeq(log.found) /\ AboutIncludes(log.found) = AboutIncludes(F)

\* At most one error of another category.
LEMMA AboutNoMore ==
  ASSUME NEW F, NEW log, SameAbout(log, F), NEW sup, NEW E, NEW n, NEW category, NEW k,
         category \notin {"build/include", "build/include_order"}, AtMost(E, n, category, k)
  PROVE  SameAbout(Error(log, sup, E), F)
<1>1. PICK e : e = <<n, category, k>>
  OBVIOUS
<1>2. IsSeq(<<e>>) /\ AboutIncludes(<<e>>) = {}
  BY <1>1, AboutOne
<1>3. E = << >> \/ E = <<e>>
  BY <1>1 DEF AtMost
<1>4. IsSeq(E) /\ AboutIncludes(E) = {}
  BY <1>2, <1>3, AboutNone
<1>5. PICK G, z : G = log.found /\ z = Error(log, sup, E)
  OBVIOUS
<1>6. z.found = G \o E
  BY <1>5, FoundMore
<1>7. IsSeq(G) /\ AboutIncludes(G) = AboutIncludes(F)
  BY <1>5 DEF SameAbout
<1>8. IsSeq(G \o E) /\ AboutIncludes(G \o E) = AboutIncludes(F)
  BY <1>4, <1>7, AboutBoth, SeqBoth
<1>9. QED
  BY <1>5, <1>6, <1>8 DEF SameAbout

\* A comment that is read ahead.
LEMMA AboutParse ==
  ASSUME NEW F, NEW a, SameAbout(a.log, F), NEW j, NEW lines
  PROVE  SameAbout(AheadStep(a, <<"parse", j>>, lines).log, F)
<1>1. PICK l, sup, log : l = (IF j = 0 THEN Plain ELSE lines[j]) /\ sup = a.suppress /\ log = a.log
  OBVIOUS
<1>2. PICK now, E : now = ParseNolintSuppressions(sup, l, j) /\ E = now.errors
  OBVIOUS
<1>3. E = << >> \/ E = <<<<j, "readability/nolint", 5>>>>
  <2>1. PICK x, y : now = [state |-> x, errors |-> << >>] \/ now = [state |-> y, errors |-> <<<<j, "readability/nolint", 5>>>>]
    BY <1>2, Zenon DEF ParseNolintSuppressions
  <2>2. QED
    BY <1>2, <2>1
<1>4. SameAbout(Error(log, now.state, E), F)
  <2>1. AtMost(E, j, "readability/nolint", 5)
    BY <1>3 DEF AtMost
  <2>2. QED
    BY <1>1, <2>1, AboutNoMore
<1>5. PICK z : z = AheadStep(a, <<"parse", j>>, lines)
  OBVIOUS
<1>6. z = [log |-> Error(log, now.state, E), suppress |-> now.state]
  BY <1>1, <1>2, <1>5 DEF AheadStep
<1>7. z.log = Error(log, now.state, E)
  BY <1>6
<1>8. QED
  BY <1>4, <1>5, <1>7

\* What is reported ahead.
LEMMA AboutBlame ==
  ASSUME NEW F, NEW a, SameAbout(a.log, F), NEW n, NEW category, NEW k, NEW lines,
         category \notin {"build/include", "build/include_order"}
  PROVE  SameAbout(AheadStep(a, <<"error", <<n, category, k>>>>, lines).log, F)
<1>1. PICK sup, log, one : sup = a.suppress /\ log = a.log /\ one = <<<<n, category, k>>>>
  OBVIOUS
<1>2. PICK z : z = AheadStep(a, <<"error", <<n, category, k>>>>, lines)
  OBVIOUS
<1>3. z = [log |-> Error(log, sup, one), suppress |-> sup]
  BY <1>1, <1>2 DEF AheadStep
<1>4. z.log = Error(log, sup, one)
  BY <1>3
<1>5. SameAbout(Error(log, sup, one), F)
  <2>1. AtMost(one, n, category, k)
    BY <1>1 DEF AtMost
  <2>2. QED
    BY <1>1, <2>1, AboutNoMore
<1>6. QED
  BY <1>2, <1>4, <1>5

\* Both checks.
LEMMA AheadAbout ==
  ASSUME NEW own, NEW F, F = own.log.found, IsSeq(F)
  PROVE  AboutIncludes(CheckAhead(own).log.found) = AboutIncludes(F)
<1>1. PICK s, raw, e : s = TrailingSemicolon(doc, linenum) /\ raw = doc.raw_lines /\ e = <<s, "readability/braces", 4>>
  OBVIOUS
<1>2. PICK before, there, blamed, now :
        /\ before = AheadStep(own, <<"parse", s - 1>>, raw) /\ there = AheadStep(before, <<"parse", s>>, raw)
        /\ blamed = AheadStep(there, <<"error", e>>, raw)
        /\ (s = 0 /\ now = own) \/ (s # 0 /\ now = blamed)
        /\ CheckAhead(own) = [log |-> Error(now.log, now.suppress, CheckEmptyBlockBody(doc, linenum)),
                              suppress |-> now.suppress]
  BY <1>1, AheadIs
<1>3. SameAbout(own.log, F)
  BY DEF SameAbout
<1>4. SameAbout(before.log, F)
  BY <1>2, <1>3, AboutParse
<1>5. SameAbout(there.log, F)
  BY <1>2, <1>4, AboutParse
<1>6. SameAbout(blamed.log, F)
  <2>1. PICK category : category = "readability/braces" /\ category \notin {"build/include", "build/include_order"}
    OBVIOUS
  <2>2. SameAbout(AheadStep(there, <<"error", <<s, category, 4>>>>, raw).log, F)
    BY <1>5, <2>1, AboutBlame
  <2>3. QED
    BY <1>1, <1>2, <2>1, <2>2
<1>7. SameAbout(now.log, F)
  BY <1>2, <1>3, <1>6
<1>8. PICK E, log, sup, b : E = CheckEmptyBlockBody(doc, linenum) /\ log = now.log /\ sup = now.suppress /\ b = CheckAhead(own)
  OBVIOUS
<1>9. PICK end : end = CloseExpression(doc, linenum, 2)
  OBVIOUS
<1>10. SameAbout(Error(log, sup, E), F)
  <2>1. \/ AtMost(E, end.linenum, "whitespace/empty_conditional_body", 5)
        \/ AtMost(E, end.linenum, "whitespace/empty_loop_body", 5)
        \/ AtMost(E, end.linenum, "whitespace/empty_if_body", 4)
    BY <1>8, <1>9, Zenon DEF CheckEmptyBlockBody, EmptyBody, AtMost
  <2>2. ASSUME NEW n, NEW category, NEW k, AtMost(E, n, category, k),
               category \notin {"build/include", "build/include_order"}
        PROVE  SameAbout(Error(log, sup, E), F)
    BY <1>7, <1>8, <2>2, AboutNoMore
  <2>3. QED
    BY <2>1, <2>2
<1>11. b = [log |-> Error(log, sup, E), suppress |-> sup]
  BY <1>1, <1>2, <1>8, Zenon
<1>12. b.log = Error(log, sup, E)
  BY <1>11
<1>13. QED
  BY <1>8, <1>10, <1>12 DEF SameAbout

\* One line.
LEMMA LineIncludes ==
  ASSUME LintTyped, DocInv, NestingInv', ReportsInv, IncludesInv, ProcessLine
  PROVE  IncludesInv'
<1>0. PICK own, a, nolint, functions, includes, nesting : LineStep(nolint, functions, includes, nesting, own, a)
  BY LineIs, Zenon
<1>1. PICK N, n, p, v : N = NumLines(doc) /\ n = linenum - 1 /\ p = linenum /\ v = IncludesOf
  OBVIOUS
<1>2. pc = "lines" /\ linenum <= NumLines(doc)
  BY DEF ProcessLine
<1>3. N \in Nat /\ n \in Nat /\ p = n + 1 /\ p \in 1 .. N /\ p <= N /\ \A k \in 1 .. N : IsSeq(doc.elided[k].toks)
  BY <1>1, <1>2, TextIsIt DEF TextIs
<1>4. /\ nolint = ParseNolintSuppressions(suppress, doc.raw_lines[linenum], linenum)
      /\ functions = CheckForFunctionLengths(function_state, doc, linenum, state.verbose_level)
      /\ includes = UpdateIncludes(include_state, files[file], doc, linenum, nonheaders, headers)
      /\ nesting = Update(nesting_state, doc, linenum)
  BY <1>0, Zenon DEF LineStep
<1>5. PICK L, log, sup : /\ L = LineErrors(nolint, nesting, functions, includes) /\ sup = nolint.state
                         /\ log = [state |-> state, found |-> found, reported |-> reported]
  OBVIOUS
<1>6. /\ include_state' = IF InAsmBlock(nesting.state) THEN include_state ELSE includes.state
      /\ nesting_state' = nesting.state /\ linenum' = linenum + 1 /\ pc' = pc /\ UNCHANGED <<lintInput, file, doc, settings>>
  <2>1. linenum' = linenum + 1 /\ pc' = pc /\ UNCHANGED <<lintInput, file, doc, settings>>
    BY DEF ProcessLine
  <2>2. nesting_state' = nesting.state
    BY <1>4, Zenon DEF ProcessLine
  <2>3. QED
    BY <1>0, <2>1, <2>2, Zenon DEF LineStep
<1>7. found' = a.log.found /\ own.log.found = found \o L /\ (a = own \/ a = CheckAhead(own))
  <2>1. own = [log |-> Error(log, sup, L), suppress |-> sup]
    BY <1>0, <1>5, Zenon DEF LineStep
  <2>2. own.log = Error(log, sup, L)
    BY <2>1
  <2>3. log.found = found
    BY <1>5
  <2>4. Error(log, sup, L).found = log.found \o L
    BY FoundMore
  <2>5. own.log.found = found \o L
    BY <2>2, <2>3, <2>4
  <2>6. QED
    BY <1>0, <2>5, Zenon DEF LineStep
<1>8. linenum' - 1 = p /\ doc' = doc
  <2>1. linenum' = linenum + 1 /\ doc' = doc
    BY <1>6
  <2>2. p = linenum /\ p \in Nat
    BY <1>1, <1>3
  <2>3. QED
    BY <2>1, <2>2
<1>9. IncludesOf' = v
  <2>1. scenario' = scenario /\ file' = file /\ doc' = doc /\ UNCHANGED settings
    BY <1>6 DEF lintInput
  <2>2. headers' = headers /\ nonheaders' = nonheaders /\ files' = files
    BY <2>1 DEF settings, headers, nonheaders, files
  <2>3. QED
    BY <1>1, <2>1, <2>2 DEF IncludesOf
<1>10. SUFFICES ASSUME Flat(doc)
                PROVE  Remembers(v, include_state', p) /\ AboutIncludes(found') = Blamed(v, p)
  BY <1>8, <1>9 DEF IncludesInv
<1>11. Remembers(v, include_state, n) /\ AboutIncludes(found) = Blamed(v, n)
  BY <1>1, <1>2, <1>10 DEF IncludesInv
<1>12. /\ v.doc = doc /\ v.branches = Branches(doc) /\ v.f = files[file]
       /\ v.nonheaders = nonheaders /\ v.headers = headers
  BY <1>1, IncludesOfText
<1>13. Viewed(v, N)
  BY <1>1, <1>3, <1>10, <1>12 DEF Viewed
<1>14. Remembers(v, includes.state, p) /\ AboutIncludes(includes.errors) = BlamedAt(v, p)
  <2>1. includes = UpdateIncludes(include_state, v.f, v.doc, n + 1, v.nonheaders, v.headers)
    BY <1>1, <1>3, <1>4, <1>12
  <2>2. QED
    BY <1>3, <1>11, <1>13, <2>1, IncludesNext
<1>15. ~InAsmBlock(nesting.state)
  <2>1. PICK d, now : d = doc /\ nesting.state.stack = BlocksOf(d, now)[p]
    <3>1. Checkpoints(doc, nesting.state, p)
      BY <1>2, <1>6, <1>8 DEF NestingInv
    <3>2. QED
      BY <3>1 DEF Checkpoints
  <2>2. \A k \in 1 .. N : IsSeq(d.elided[k].toks) /\ QuietLine(d.elided[k].toks)
    BY <1>1, <1>3, <1>10, <2>1 DEF Flat, QuietLine
  <2>3. N = NumLines(d) /\ p \in 0 .. N
    BY <1>1, <1>3, <2>1
  <2>4. PICK s : s = nesting.state.stack
    OBVIOUS
  <2>5. Calm(s)
    BY <1>3, <2>1, <2>2, <2>3, <2>4, NoAssembly
  <2>6. s # << >> => Top(s).inline_asm = "NO"
    BY <2>5, CalmTop DEF CalmBlock
  <2>7. QED
    BY <2>4, <2>6 DEF InAsmBlock
<1>16. include_state' = includes.state
  BY <1>6, <1>15
<1>17. AboutIncludes(L) = BlamedAt(v, p) /\ IsSeq(L)
  <2>1. PICK E : E = includes.errors
    OBVIOUS
  <2>2. Parts(L, E, InAsmBlock(nesting.state), p, N)
    BY <1>1, <1>2, <1>4, <1>5, <2>1, LineParts
  <2>3. PICK A, B, F, G : /\ OfLines(A, p, N, Reserved) /\ OfLines(B, p, N, Reserved) /\ OfLines(G, p, N, Reserved)
                          /\ L = A \o (B \o E \o G)
    BY <1>15, <2>2, Zenon DEF Parts
  <2>4. /\ AboutIncludes(A) = {} /\ AboutIncludes(B) = {} /\ AboutIncludes(G) = {}
        /\ IsSeq(A) /\ IsSeq(B) /\ IsSeq(G)
    BY <2>3, AboutOthers
  <2>5. IsSeq(E)
    <3>1. OfLines(E, p, N, GuardsOwn)
      BY <1>1, <1>3, <1>4, <2>1, IncludeErrors
    <3>2. QED
      BY <3>1 DEF OfLines, IsSeq
  <2>6. PICK H, K : H = B \o E /\ K = H \o G
    OBVIOUS
  <2>7. IsSeq(H) /\ AboutIncludes(H) = AboutIncludes(E)
    <3>1. IsSeq(B \o E)
      BY <2>4, <2>5, SeqBoth
    <3>2. AboutIncludes(B \o E) = AboutIncludes(B) \cup AboutIncludes(E)
      BY <2>4, <2>5, AboutBoth
    <3>3. QED
      BY <2>4, <2>6, <3>1, <3>2
  <2>8. IsSeq(K) /\ AboutIncludes(K) = AboutIncludes(E)
    <3>1. IsSeq(H \o G)
      BY <2>4, <2>7, SeqBoth
    <3>2. AboutIncludes(H \o G) = AboutIncludes(H) \cup AboutIncludes(G)
      BY <2>4, <2>7, AboutBoth
    <3>3. QED
      BY <2>4, <2>6, <2>7, <3>1, <3>2
  <2>9. IsSeq(A \o K) /\ AboutIncludes(A \o K) = AboutIncludes(E)
    BY <2>4, <2>8, AboutBoth, SeqBoth
  <2>10. QED
    BY <1>14, <2>1, <2>3, <2>6, <2>9
<1>18. IsSeq(found)
  BY <1>2 DEF ReportsInv, IsSeq
<1>19. AboutIncludes(found') = AboutIncludes(found) \cup AboutIncludes(L)
  <2>1. IsSeq(found \o L) /\ AboutIncludes(found \o L) = AboutIncludes(found) \cup AboutIncludes(L)
    BY <1>17, <1>18, AboutBoth, SeqBoth
  <2>2. PICK F : F = own.log.found
    OBVIOUS
  <2>3. AboutIncludes(CheckAhead(own).log.found) = AboutIncludes(F)
    BY <1>7, <2>1, <2>2, AheadAbout
  <2>4. QED
    BY <1>7, <2>1, <2>2, <2>3, Zenon
<1>20. Blamed(v, p) = Blamed(v, n) \cup BlamedAt(v, p)
  BY <1>3, BlamedNext
<1>21. QED
  BY <1>11, <1>14, <1>16, <1>17, <1>19, <1>20

\* Every step keeps what _IncludeState remembers, and what the includes are blamed for, right.
LEMMA IncludesStep ==
  ASSUME LintTyped, LintTyped', DocInv, DocInv', NestingInv', ReportsInv, IncludesInv, [LintNext]_lintVars
  PROVE  IncludesInv'
<1>1. CASE ParseArguments
  <2>1. pc' # "lines"
    BY <1>1 DEF ParseArguments
  <2>2. QED
    BY <2>1, Zenon DEF IncludesInv
<1>2. CASE ProcessFile
  <2>1. PICK cfg : pc' = "crash" \/ PassedOver(cfg) \/ \E head : Begun(cfg, head)
    BY <1>2, FileBegins
  <2>2. CASE pc' = "crash" \/ PassedOver(cfg)
    <3>1. pc' # "lines"
      BY <2>2 DEF PassedOver
    <3>2. QED
      BY <3>1, Zenon DEF IncludesInv
  <2>3. CASE \E head : Begun(cfg, head)
    <3>1. PICK head : Begun(cfg, head)
      BY <2>3
    <3>2. QED
      BY <1>2, <3>1, BeginIncludes
  <2>4. QED
    BY <2>1, <2>2, <2>3
<1>3. CASE ProcessLine
  BY <1>3, LineIncludes
<1>4. CASE FinishFile \/ MainEnds
  <2>1. pc' # "lines"
    BY <1>4 DEF FinishFile, MainEnds
  <2>2. QED
    BY <2>1, Zenon DEF IncludesInv
<1>5. CASE UNCHANGED lintVars
  <2>1. /\ scenario' = scenario /\ file' = file /\ doc' = doc /\ UNCHANGED settings /\ pc' = pc
        /\ include_state' = include_state /\ found' = found /\ linenum' = linenum
    BY <1>5 DEF lintVars, lintInput, perFile
  <2>2. headers' = headers /\ nonheaders' = nonheaders /\ files' = files
    BY <2>1 DEF settings, headers, nonheaders, files
  <2>3. IncludesOf' = IncludesOf
    BY <2>1, <2>2 DEF IncludesOf
  <2>4. QED
    BY <2>1, <2>3 DEF IncludesInv
<1>6. QED
  BY <1>1, <1>2, <1>3, <1>4, <1>5 DEF LintNext

\* What is remembered is what the text has it to be.
LEMMA IncludesAreJudged == IncludesInv => IncludesJudged
<1>1. SUFFICES ASSUME IncludesInv, pc = "lines", Flat(doc), NEW v, v = IncludesOf, NEW k \in 1 .. linenum - 1
               PROVE  /\ (\E u \in DOMAIN found : found[u] = <<k, "build/include", 4>>)
                           <=> IsInclude(v, k) /\ (Duplicates(v)[k] \/ Elsewhere(v, k))
                      /\ (\E u \in DOMAIN found : found[u] = <<k, "build/include_order", 4>>) <=> Misplaced(v, k)
  BY Zenon DEF IncludesJudged
<1>2. PICK n, e, f : n = linenum - 1 /\ e = <<k, "build/include", 4>> /\ f = <<k, "build/include_order", 4>>
  OBVIOUS
<1>3. \A x : x \in AboutIncludes(found) <=> x \in Blamed(v, n)
  BY <1>1, <1>2 DEF IncludesInv
<1>4. e[2] \in {"build/include", "build/include_order"} /\ f[2] \in {"build/include", "build/include_order"}
  BY <1>2
<1>5. e \in AboutIncludes(found) <=> \E u \in DOMAIN found : found[u] = e
  BY <1>4 DEF AboutIncludes, ToSet
<1>6. f \in AboutIncludes(found) <=> \E u \in DOMAIN found : found[u] = f
  BY <1>4 DEF AboutIncludes, ToSet
<1>7. e \in Blamed(v, n) <=> IsInclude(v, k) /\ (Duplicates(v)[k] \/ Elsewhere(v, k))
  <2>1. e \in Blamed(v, n) <=>
           \/ \E u \in 1 .. n : IsInclude(v, u) /\ (Duplicates(v)[u] \/ Elsewhere(v, u)) /\ e = <<u, "build/include", 4>>
           \/ \E u \in 1 .. n : Misplaced(v, u) /\ e = <<u, "build/include_order", 4>>
    BY Zenon DEF Blamed
  <2>2. \A u : (e = <<u, "build/include", 4>> <=> u = k) /\ e # <<u, "build/include_order", 4>>
    BY <1>2
  <2>3. k \in 1 .. n
    BY <1>2
  <2>4. QED
    BY <2>1, <2>2, <2>3, Zenon
<1>8. f \in Blamed(v, n) <=> Misplaced(v, k)
  <2>1. f \in Blamed(v, n) <=>
           \/ \E u \in 1 .. n : IsInclude(v, u) /\ (Duplicates(v)[u] \/ Elsewhere(v, u)) /\ f = <<u, "build/include", 4>>
           \/ \E u \in 1 .. n : Misplaced(v, u) /\ f = <<u, "build/include_order", 4>>
    BY Zenon DEF Blamed
  <2>2. \A u : (f = <<u, "build/include_order", 4>> <=> u = k) /\ f # <<u, "build/include", 4>>
    BY <1>2
  <2>3. k \in 1 .. n
    BY <1>2
  <2>4. QED
    BY <2>1, <2>2, <2>3, Zenon
<1>9. QED
  BY <1>2, <1>3, <1>5, <1>6, <1>7, <1>8, Zenon

\* In every text whose #if groups are not nested, and for any headers and file, an #include is
\* reported as a duplicate (build/include) or as misplaced (build/include_order) exactly if the
\* lines before it make it one: what _IncludeState keeps per #if group, and the section it has come
\* to, are neither ahead of the text nor behind it.
THEOREM LintIncludesJudged == LintSpec => []IncludesJudged
<1>1. LintInit => Reports /\ NestingInv /\ Afresh /\ IncludesInv
  <2>1. LintInit => pc = "args"
    BY DEF LintInit
  <2>2. pc = "args" => Reports
    BY Zenon DEF Reports, ReportsInv, ReportsExactly
  <2>3. LintInit => Afresh
    BY DEF LintInit, Afresh, FreshInv, FilesStartAfresh
  <2>4. pc = "args" => IncludesInv
    BY Zenon DEF IncludesInv
  <2>5. QED
    BY <2>1, <2>2, <2>3, <2>4, DocStarts
<1>2. LintTyped /\ LintTyped' /\ DocInv /\ Afresh /\ [LintNext]_lintVars => Afresh'
  BY AfreshStep
<1>3. LintTyped /\ DocInv /\ NestingInv /\ [LintNext]_lintVars => NestingInv'
  BY NestingKept
<1>4. LintTyped /\ LintTyped' /\ DocInv /\ NestingInv /\ Afresh /\ Afresh' /\ Reports /\ [LintNext]_lintVars => Reports'
  BY ReportsStep
<1>5. /\ LintTyped /\ LintTyped' /\ DocInv /\ DocInv' /\ NestingInv' /\ Reports /\ IncludesInv /\ [LintNext]_lintVars
      => IncludesInv'
  BY IncludesStep DEF Reports
<1>6. QED
  BY <1>1, <1>2, <1>3, <1>4, <1>5, IncludesAreJudged, LintAlwaysTyped, LintAlwaysInText, PTL DEF LintSpec
===============================================================================
