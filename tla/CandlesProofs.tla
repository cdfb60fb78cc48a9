---------------------------- MODULE CandlesProofs ----------------------------
(***************************************************************************)
(* Lemmas about the candle lists: what Upsert returns, for every list that *)
(* is sorted and every incoming candle.                                    *)
(***************************************************************************)
EXTENDS Candles, SequenceTheorems, WellFoundedInduction, TLAPS

\* sort.Search has an answer on every list, and it is the least index that
\* is not before the given time.
LEMMA SearchIndexDef ==
  ASSUME NEW s \in Seq(Candle), NEW time \in Int
  PROVE  /\ SearchIndex(s, time) \in 1..Len(s) + 1
         /\ AtOrAfter(s, SearchIndex(s, time), time)
         /\ \A j \in 1..SearchIndex(s, time) - 1 : ~AtOrAfter(s, j, time)
<1> DEFINE Less == {p \in Nat \X Nat : p[1] < p[2]}
<1> DEFINE T == {i \in 1..Len(s) + 1 : AtOrAfter(s, i, time)}
<1>1. Len(s) \in Nat
  BY LenProperties
<1>2. T \subseteq Nat /\ T # {}
  <2>1. Len(s) + 1 \in T
    BY <1>1 DEF AtOrAfter
  <2>2. QED
    BY <1>1, <2>1
<1>3. PICK i \in T : \A y \in T : ~(<<y, i>> \in Less)
  <2>1. IsWellFoundedOn(Less, Nat)
    BY NatLessThanWellFounded, Zenon DEF OpToRel
  <2>2. QED
    BY <1>2, <2>1, WFMin
<1>4. \A j \in 1..i - 1 : ~AtOrAfter(s, j, time)
  <2> SUFFICES ASSUME NEW j \in 1..i - 1, AtOrAfter(s, j, time)
               PROVE  FALSE
    OBVIOUS
  <2>1. i \in 1..Len(s) + 1
    BY <1>3
  <2>2. j \in T
    BY <1>1, <2>1
  <2>3. <<j, i>> \in Less
    BY <1>1, <2>1
  <2>4. QED
    BY <1>3, <2>2, <2>3, Zenon
<1>5. \E m \in 1..Len(s) + 1 :
        AtOrAfter(s, m, time) /\ \A j \in 1..m - 1 : ~AtOrAfter(s, j, time)
  BY <1>3, <1>4
<1>6. QED
  BY <1>5 DEF SearchIndex

\* What InsertAt returns: one element more, the later ones moved up by one.
LEMMA InsertAtProperties ==
  ASSUME NEW S, NEW s \in Seq(S), NEW i \in 1..Len(s) + 1, NEW e \in S
  PROVE  /\ InsertAt(s, i, e) \in Seq(S)
         /\ Len(InsertAt(s, i, e)) = Len(s) + 1
         /\ \A j \in 1..Len(s) + 1 :
              InsertAt(s, i, e)[j] = IF j < i THEN s[j]
                                     ELSE IF j = i THEN e ELSE s[j - 1]
<1> DEFINE n == Len(s)
           before == SubSeq(s, 1, i - 1)
           after == SubSeq(s, i, n)
<1>1. n \in Nat /\ i \in Int /\ \A j \in 1..n : s[j] \in S
  BY LenProperties, ElementOfSeq
<1>2. /\ before \in Seq(S) /\ Len(before) = i - 1
      /\ \A j \in 1..i - 1 : before[j] = s[j]
  <2>1. \A j \in 1..i - 1 : s[j] \in S
    BY <1>1
  <2>2. /\ before \in Seq(S)
        /\ Len(before) = IF 1 <= i - 1 THEN i - 1 - 1 + 1 ELSE 0
        /\ \A j \in 1..i - 1 - 1 + 1 : before[j] = s[1 + j - 1]
    BY <1>1, <2>1, SubSeqProperties
  <2>3. QED
    BY <1>1, <2>2
<1>3. /\ after \in Seq(S) /\ Len(after) = n - i + 1
      /\ \A j \in 1..n - i + 1 : after[j] = s[i + j - 1]
  <2>1. \A j \in i..n : s[j] \in S
    BY <1>1
  <2>2. /\ after \in Seq(S)
        /\ Len(after) = IF i <= n THEN n - i + 1 ELSE 0
        /\ \A j \in 1..n - i + 1 : after[j] = s[i + j - 1]
    BY <1>1, <2>1, SubSeqProperties
  <2>3. QED
    BY <1>1, <2>2
<1> DEFINE front == before \o <<e>>
<1>4. <<e>> \in Seq(S) /\ Len(<<e>>) = 1 /\ <<e>>[1] = e
  OBVIOUS
<1>5. /\ front \in Seq(S) /\ Len(front) = i
      /\ \A j \in 1..i : front[j] = IF j < i THEN s[j] ELSE e
  <2>1. /\ front \in Seq(S) /\ Len(front) = Len(before) + 1
        /\ \A j \in 1..Len(before) + 1 :
             front[j] = IF j <= Len(before) THEN before[j]
                        ELSE <<e>>[j - Len(before)]
    BY <1>2, <1>4, ConcatProperties
  <2>2. QED
    BY <1>1, <1>2, <1>4, <2>1
<1>6. InsertAt(s, i, e) = front \o after
  BY DEF InsertAt
<1> HIDE DEF front, after, before
<1>7. /\ front \o after \in Seq(S) /\ Len(front \o after) = i + (n - i + 1)
      /\ \A j \in 1..n + 1 :
           (front \o after)[j] = IF j <= i THEN front[j] ELSE after[j - i]
  <2>1. /\ front \o after \in Seq(S)
        /\ Len(front \o after) = Len(front) + Len(after)
        /\ \A j \in 1..Len(front) + Len(after) :
             (front \o after)[j] = IF j <= Len(front) THEN front[j]
                                   ELSE after[j - Len(front)]
    BY <1>3, <1>5, ConcatProperties
  <2>2. QED
    BY <1>1, <1>3, <1>5, <2>1
<1>8. QED
  BY <1>1, <1>3, <1>5, <1>6, <1>7

\* Upsert returns a list of candles, in which the incoming candle is the one
\* of its time and every other candle is one of the old list.
LEMMA UpsertContents ==
  ASSUME NEW s \in Seq(Candle), NEW c \in Candle, Ascending(s)
  PROVE  /\ Upsert(s, c) \in Seq(Candle)
         /\ Ascending(Upsert(s, c))
         /\ ToSet(Upsert(s, c)) = {d \in ToSet(s) : d.t # c.t} \cup {c}
<1> DEFINE idx == SearchIndex(s, c.t)
           n == Len(s)
           u == Upsert(s, c)
<1>1. n \in Nat /\ DOMAIN s = 1..n /\ \A i \in 1..n : s[i] \in Candle
  BY LenProperties, ElementOfSeq
<1>2. c.t \in Times /\ c.t \in Int
  BY TimesAssumption DEF Candle
<1>3. \A i \in 1..n : s[i].t \in Int
  BY <1>1, TimesAssumption DEF Candle
<1>4. /\ idx \in 1..n + 1
      /\ idx <= n => s[idx].t >= c.t
      /\ \A j \in 1..idx - 1 : s[j].t < c.t
  <2>1. /\ idx \in 1..n + 1
        /\ AtOrAfter(s, idx, c.t)
        /\ \A j \in 1..idx - 1 : ~AtOrAfter(s, j, c.t)
    BY <1>2, SearchIndexDef
  <2>2. QED
    BY <1>1, <1>2, <1>3, <2>1 DEF AtOrAfter
<1>5. \A i, j \in 1..n : i < j => s[i].t < s[j].t
  BY <1>1 DEF Ascending
<1> HIDE DEF idx, n, u
<1>6. CASE idx <= n /\ s[idx].t = c.t
  <2>1. u = [s EXCEPT ![idx] = c]
    BY <1>6 DEF u, idx, n, Upsert, ReplaceAt
  <2>2. /\ u \in Seq(Candle) /\ Len(u) = n
        /\ \A j \in 1..n : u[j] = IF j = idx THEN c ELSE s[j]
    BY <1>1, <1>4, <1>6, <2>1, ExceptSeq DEF n
  <2>3. DOMAIN u = 1..n
    BY <2>2, LenProperties
  <2>4. \A j \in 1..n : u[j].t = s[j].t
    BY <1>6, <2>2
  <2>5. Ascending(u)
    BY <1>5, <2>3, <2>4 DEF Ascending
  <2>6. \A j \in 1..n : s[j].t # c.t <=> j # idx
    BY <1>3, <1>4, <1>5, <1>6
  <2>7. ToSet(u) = {d \in ToSet(s) : d.t # c.t} \cup {c}
    BY <1>1, <1>4, <1>6, <2>2, <2>3, <2>6 DEF ToSet
  <2>8. QED
    BY <2>2, <2>5, <2>7 DEF u
<1>7. CASE ~(idx <= n /\ s[idx].t = c.t)
  <2>1. u = InsertAt(s, idx, c)
    BY <1>7 DEF u, idx, n, Upsert
  <2>2. /\ u \in Seq(Candle) /\ Len(u) = n + 1
        /\ \A j \in 1..n + 1 :
             u[j] = IF j < idx THEN s[j] ELSE IF j = idx THEN c ELSE s[j - 1]
    <3>1. idx \in 1..Len(s) + 1
      BY <1>4 DEF n
    <3>2. InsertAt(s, idx, c) \in Seq(Candle)
      BY <3>1, InsertAtProperties
    <3>3. Len(InsertAt(s, idx, c)) = Len(s) + 1
      BY <3>1, InsertAtProperties
    <3>4. \A j \in 1..Len(s) + 1 :
            InsertAt(s, idx, c)[j] = IF j < idx THEN s[j]
                                     ELSE IF j = idx THEN c ELSE s[j - 1]
      BY <3>1, InsertAtProperties
    <3>5. QED
      BY <2>1, <3>2, <3>3, <3>4 DEF n
  <2>3. DOMAIN u = 1..n + 1
    BY <2>2, LenProperties
  <2>4. \A j \in 1..n : (j < idx => s[j].t < c.t) /\ (j >= idx => s[j].t > c.t)
    BY <1>1, <1>2, <1>3, <1>4, <1>5, <1>7
  <2>5. Ascending(u)
    <3> SUFFICES ASSUME NEW i \in 1..n + 1, NEW j \in 1..n + 1, i < j
                 PROVE  u[i].t < u[j].t
      BY <2>3 DEF Ascending
    <3>1. CASE i < idx /\ j < idx
      <4>1. i \in 1..n /\ j \in 1..n /\ u[i] = s[i] /\ u[j] = s[j]
        BY <1>1, <1>4, <2>2, <3>1
      <4>2. QED
        BY <1>5, <4>1
    <3>2. CASE i < idx /\ j >= idx
      <4>1. i \in 1..n /\ u[i] = s[i] /\ s[i].t < c.t
        BY <1>1, <1>4, <2>2, <2>4, <3>2
      <4>2. u[j] = c \/ (j - 1 \in 1..n /\ j - 1 >= idx /\ u[j] = s[j - 1])
        BY <1>1, <1>4, <2>2, <3>2
      <4>3. u[j].t = c.t \/ (u[j].t > c.t /\ u[j].t \in Int)
        BY <1>3, <2>4, <4>2
      <4>4. QED
        BY <1>2, <1>3, <4>1, <4>3
    <3>3. CASE i >= idx
      <4>1. j - 1 \in 1..n /\ j - 1 >= idx /\ u[j] = s[j - 1]
        BY <1>1, <1>4, <2>2, <3>3
      <4>2. CASE i = idx
        BY <1>2, <1>3, <1>4, <2>2, <2>4, <4>1, <4>2
      <4>3. CASE i > idx
        <5>1. i - 1 \in 1..n /\ u[i] = s[i - 1]
          BY <1>1, <1>4, <2>2, <4>3
        <5>2. QED
          BY <1>5, <4>1, <5>1
      <4>4. QED
        BY <1>4, <3>3, <4>2, <4>3
    <3>4. QED
      BY <1>4, <3>1, <3>2, <3>3
  <2>6. ToSet(s) \subseteq ToSet(u)
    <3> SUFFICES ASSUME NEW j \in 1..n PROVE s[j] \in ToSet(u)
      BY <1>1 DEF ToSet
    <3>1. CASE j < idx
      BY <1>1, <1>4, <2>2, <2>3, <3>1 DEF ToSet
    <3>2. CASE j >= idx
      <4>1. j + 1 \in 1..n + 1 /\ u[j + 1] = s[j]
        BY <1>1, <1>4, <2>2, <3>2
      <4>2. QED
        BY <2>3, <4>1 DEF ToSet
    <3>3. QED
      BY <1>1, <1>4, <3>1, <3>2
  <2>7. c \in ToSet(u)
    BY <1>1, <1>4, <2>2, <2>3 DEF ToSet
  <2>8. \A d \in ToSet(u) : d = c \/ d \in ToSet(s)
    <3> SUFFICES ASSUME NEW j \in 1..n + 1
                 PROVE  u[j] = c \/ u[j] \in ToSet(s)
      BY <2>3 DEF ToSet
    <3>1. CASE j < idx
      BY <1>1, <1>4, <2>2, <3>1 DEF ToSet
    <3>2. CASE j > idx
      <4>1. j - 1 \in 1..n /\ u[j] = s[j - 1]
        BY <1>1, <1>4, <2>2, <3>2
      <4>2. QED
        BY <1>1, <4>1 DEF ToSet
    <3>3. QED
      BY <1>1, <1>4, <2>2, <3>1, <3>2
  <2>9. \A d \in ToSet(s) : d.t # c.t
    BY <1>1, <1>2, <1>3, <1>4, <2>4 DEF ToSet
  <2>10. ToSet(u) = {d \in ToSet(s) : d.t # c.t} \cup {c}
    BY <2>6, <2>7, <2>8, <2>9
  <2>11. QED
    BY <2>2, <2>5, <2>10 DEF u
<1>8. QED
  BY <1>6, <1>7

-----------------------------------------------------------------------------
(* Covers orders lists by what their readers know.                         *)

LEMMA ToSetType ==
  ASSUME NEW s \in Seq(Candle)
  PROVE  \A x \in ToSet(s) : x.t \in Times /\ x.v \in Nat
<1>1. DOMAIN s = 1..Len(s) /\ \A i \in 1..Len(s) : s[i] \in Candle
  BY LenProperties, ElementOfSeq
<1>2. QED
  BY <1>1 DEF ToSet, Candle

\* A list by its elements.
LEMMA ListElements ==
  ASSUME NEW s \in Seq(Candle)
  PROVE  /\ Len(s) \in Nat /\ DOMAIN s = 1..Len(s)
         /\ \A i \in 1..Len(s) :
              s[i] \in Candle /\ s[i] \in ToSet(s) /\ s[i].t \in Int
         /\ \A x \in ToSet(s) : \E i \in 1..Len(s) : x = s[i]
         /\ \A x \in ToSet(s) : /\ x \in Candle /\ x.t \in Times
                                /\ x.t \in Int /\ x.v \in Nat
<1>1. /\ Len(s) \in Nat /\ DOMAIN s = 1..Len(s)
      /\ \A i \in 1..Len(s) : s[i] \in Candle
  BY LenProperties, ElementOfSeq
<1>2. \A c \in Candle : c.t \in Times /\ c.t \in Int /\ c.v \in Nat
  BY TimesAssumption DEF Candle
<1>3. \A i \in 1..Len(s) : s[i] \in ToSet(s)
  BY <1>1, Zenon DEF ToSet
<1>4. \A x \in ToSet(s) : \E i \in 1..Len(s) : x = s[i]
  BY <1>1, Zenon DEF ToSet
<1> QED BY <1>1, <1>2, <1>3, <1>4, Zenon

\* A list covers itself.
LEMMA CoversReflexive ==
  ASSUME NEW s \in Seq(Candle)
  PROVE  Covers(s, s)
BY ToSetType DEF Covers

\* Covering is transitive.
LEMMA CoversTransitive ==
  ASSUME NEW a \in Seq(Candle), NEW b \in Seq(Candle), NEW c \in Seq(Candle),
         Covers(a, b), Covers(b, c)
  PROVE  Covers(a, c)
<1> SUFFICES ASSUME NEW x \in ToSet(c)
             PROVE  \E y \in ToSet(a) : y.t = x.t /\ y.v >= x.v
  BY DEF Covers
<1>1. PICK z \in ToSet(b) : z.t = x.t /\ z.v >= x.v
  BY DEF Covers
<1>2. PICK y \in ToSet(a) : y.t = z.t /\ y.v >= z.v
  BY DEF Covers
<1>3. x.v \in Nat /\ y.v \in Nat /\ z.v \in Nat
  BY ToSetType
<1>4. QED
  BY <1>1, <1>2, <1>3

\* The empty list is covered by any other.
LEMMA CoversEmpty ==
  ASSUME NEW s
  PROVE  Covers(s, <<>>)
BY DEF Covers, ToSet

\* A list only gets newer when a candle newer than its own is merged in: the
\* heart of SnapshotOrder.
LEMMA UpsertCovers ==
  ASSUME NEW s \in Seq(Candle), NEW c \in Candle, Ascending(s),
         \A d \in ToSet(s) : d.v <= c.v
  PROVE  Covers(Upsert(s, c), s)
<1> SUFFICES ASSUME NEW x \in ToSet(s)
             PROVE  \E y \in ToSet(Upsert(s, c)) : y.t = x.t /\ y.v >= x.v
  BY DEF Covers
<1>1. ToSet(Upsert(s, c)) = {d \in ToSet(s) : d.t # c.t} \cup {c}
  BY UpsertContents
<1>2. x.v \in Nat /\ c.v \in Nat
  BY ToSetType DEF Candle
<1>3. QED
  BY <1>1, <1>2

-----------------------------------------------------------------------------
(* Merge: Upsert, one candle after the other.                              *)

\* A set of natural numbers has a least one.
LEMMA LeastNatural ==
  ASSUME NEW T, T \subseteq Nat, T # {}
  PROVE  \E i \in T : \A j \in T : i <= j
<1> DEFINE Less == {p \in Nat \X Nat : p[1] < p[2]}
<1>1. IsWellFoundedOn(Less, Nat)
  BY NatLessThanWellFounded, Zenon DEF OpToRel
<1>2. PICK i \in T : \A j \in T : ~(<<j, i>> \in Less)
  BY <1>1, WFMin
<1>3. ASSUME NEW j \in T PROVE i <= j
  <2>1. i \in Nat /\ j \in Nat /\ ~(<<j, i>> \in Less)
    BY <1>2
  <2>2. ~(j < i)
    BY <2>1
  <2> QED BY <2>1, <2>2
<1> QED BY <1>2, <1>3

\* The loop has a state after each of its rounds, and Merge is the last.
LEMMA MergeDef ==
  ASSUME NEW s \in Seq(Candle), NEW f \in Seq(Candle)
  PROVE  \E a :
           /\ a[0] = s
           /\ \A n \in 1..Len(f) : a[n] = Upsert(a[n - 1], f[n])
           /\ Merge(s, f) = a[Len(f)]
<1> DEFINE N == Len(f)
           Round(a, n) == IF n = 0 THEN s ELSE Upsert(a[n - 1], f[n])
           Rounds(m) == \E a : a = [n \in 0..m |-> Round(a, n)]
           T == {m \in 0..N : ~Rounds(m)}
<1>1. N \in Nat
  BY LenProperties
<1> HIDE DEF N
<1>2. Rounds(0)
  <2> DEFINE a == [n \in 0..0 |-> s]
  <2>1. a = [n \in 0..0 |-> Round(a, n)]
    <3>1. \A n \in 0..0 : Round(a, n) = s
      OBVIOUS
    <3> QED BY <3>1
  <2> HIDE DEF a, Round
  <2> QED BY <2>1
<1>3. ASSUME NEW m \in 1..N, Rounds(m - 1)
      PROVE  Rounds(m)
  <2>1. m \in Nat /\ m - 1 \in Nat /\ m # 0
    BY <1>1
  <2>2. PICK b : b = [n \in 0..m - 1 |-> Round(b, n)]
    BY <1>3, Zenon
  <2> DEFINE a == [n \in 0..m |->
                     IF n = m THEN Upsert(b[m - 1], f[m]) ELSE b[n]]
  <2>3. \A n \in 0..m - 1 : a[n] = b[n]
    BY <2>1
  <2>4. \A n \in 0..m - 1 : b[n] = Round(b, n)
    <3> HIDE DEF Round
    <3> QED BY <2>2, Zenon
  <2> HIDE DEF a
  <2>5. ASSUME NEW n \in 0..m
        PROVE  (IF n = m THEN Upsert(b[m - 1], f[m]) ELSE b[n]) = Round(a, n)
    <3>1. CASE n = m
      BY <2>1, <2>3, <3>1
    <3>2. CASE n # m /\ n = 0
      BY <2>1, <2>4, <3>2
    <3>3. CASE n # m /\ n # 0
      <4>1. n \in 0..m - 1 /\ n - 1 \in 0..m - 1
        BY <2>1, <3>3
      <4>2. b[n] = Upsert(b[n - 1], f[n])
        BY <2>4, <3>3, <4>1
      <4>3. a[n - 1] = b[n - 1]
        BY <2>3, <4>1
      <4> QED BY <3>3, <4>2, <4>3
    <3> QED BY <3>1, <3>2, <3>3
  <2>6. a = [n \in 0..m |-> Round(a, n)]
    <3> HIDE DEF Round
    <3> QED BY <2>5, Zenon DEF a
  <2> HIDE DEF Round
  <2> QED BY <2>6
<1> HIDE DEF Rounds
<1>4. T = {}
  <2> SUFFICES ASSUME T # {} PROVE FALSE
    OBVIOUS
  <2>1. T \subseteq Nat
    BY <1>1
  <2>2. PICK m \in T : \A j \in T : m <= j
    BY <2>1, LeastNatural
  <2>3. m \in 0..N /\ m # 0
    BY <1>2, <2>2
  <2>4. m \in 1..N /\ m - 1 \in 0..N /\ ~(m <= m - 1)
    BY <1>1, <2>3
  <2>5. Rounds(m - 1)
    BY <2>2, <2>4
  <2> QED BY <1>3, <2>2, <2>4, <2>5
<1>5. Rounds(N)
  BY <1>1, <1>4
<1> DEFINE a == CHOOSE a : a = [n \in 0..N |-> Round(a, n)]
<1>6. a = [n \in 0..N |-> Round(a, n)]
  BY <1>5, Zenon DEF Rounds
<1>7. Merge(s, f) = a[N]
  BY Zenon DEF Merge, N
<1> HIDE DEF a
<1>8. \A n \in 0..N : a[n] = Round(a, n)
  <2> HIDE DEF Round
  <2> QED BY <1>6, Zenon
<1>9. a[0] = s
  BY <1>1, <1>8
<1>10. \A n \in 1..N : a[n] = Upsert(a[n - 1], f[n])
  <2> SUFFICES ASSUME NEW n \in 1..N PROVE a[n] = Upsert(a[n - 1], f[n])
    OBVIOUS
  <2>1. n \in 0..N /\ n # 0
    BY <1>1
  <2> QED BY <1>8, <2>1
<1> QED BY <1>7, <1>9, <1>10 DEF N

\* Merging an ascending list into another one: the candles of both, those of
\* the second in place of those of the first with the same time.
LEMMA MergeContents ==
  ASSUME NEW s \in Seq(Candle), NEW f \in Seq(Candle),
         Ascending(s), Ascending(f)
  PROVE  /\ Merge(s, f) \in Seq(Candle)
         /\ Ascending(Merge(s, f))
         /\ ToSet(Merge(s, f)) =
              {d \in ToSet(s) : \A x \in ToSet(f) : x.t # d.t} \cup ToSet(f)
<1>1. PICK a : /\ a[0] = s
               /\ \A n \in 1..Len(f) : a[n] = Upsert(a[n - 1], f[n])
               /\ Merge(s, f) = a[Len(f)]
  BY MergeDef, Zenon
<1> DEFINE N == Len(f)
           Kept(n) == {d \in ToSet(s) : \A i \in 1..n : f[i].t # d.t}
           Taken(n) == {f[i] : i \in 1..n}
           Correct(n) == /\ a[n] \in Seq(Candle) /\ Ascending(a[n])
                         /\ ToSet(a[n]) = Kept(n) \cup Taken(n)
           T == {n \in 0..N : ~Correct(n)}
<1>2. /\ N \in Nat /\ DOMAIN f = 1..N /\ \A i \in 1..N : f[i] \in Candle
      /\ \A i, j \in 1..N : i < j => f[i].t # f[j].t
  <2>1. N \in Nat /\ DOMAIN f = 1..N /\ \A i \in 1..N : f[i] \in Candle
    BY LenProperties, ElementOfSeq
  <2>2. \A i \in 1..N : f[i].t \in Int
    BY <2>1, TimesAssumption DEF Candle
  <2> HIDE DEF N
  <2>3. \A i, j \in 1..N : i < j => f[i].t < f[j].t
    BY <2>1, Zenon DEF Ascending
  <2> QED BY <2>1, <2>2, <2>3
<1> HIDE DEF N
<1>3. Correct(0)
  <2>1. Kept(0) = ToSet(s) /\ Taken(0) = {}
    OBVIOUS
  <2> QED BY <1>1, <2>1
<1>4. ASSUME NEW n \in 1..N, Correct(n - 1)
      PROVE  Correct(n)
  <2>1. n - 1 \in 0..N /\ n \in Nat /\ f[n] \in Candle
    BY <1>2
  <2>2. a[n] = Upsert(a[n - 1], f[n])
    BY <1>1 DEF N
  <2>3. /\ a[n] \in Seq(Candle) /\ Ascending(a[n])
        /\ ToSet(a[n]) = {d \in ToSet(a[n - 1]) : d.t # f[n].t} \cup {f[n]}
    BY <1>4, <2>1, <2>2, UpsertContents
  <2>4. \A i \in 1..n : i = n \/ i \in 1..n - 1
    BY <2>1
  <2>5. 1..n - 1 \subseteq 1..n /\ n \in 1..n
    BY <2>1
  <2>6. Kept(n) = {d \in Kept(n - 1) : d.t # f[n].t}
    BY <2>4, <2>5, Zenon
  <2>7. \A d \in Taken(n - 1) : d.t # f[n].t
    BY <1>2, <2>1
  <2>8. Taken(n) = Taken(n - 1) \cup {f[n]}
    BY <2>4, <2>5, Zenon
  <2>9. ToSet(a[n]) = Kept(n) \cup Taken(n)
    <3> HIDE DEF Kept, Taken
    <3> QED BY <1>4, <2>3, <2>6, <2>7, <2>8, Zenon
  <2> QED BY <2>3, <2>9
<1> HIDE DEF Correct
<1>5. T = {}
  <2> SUFFICES ASSUME T # {} PROVE FALSE
    OBVIOUS
  <2> T \subseteq Nat
    BY <1>2
  <2> HIDE DEF T
  <2>1. PICK n \in T : \A j \in T : n <= j
    BY LeastNatural
  <2> USE DEF T
  <2>2. n \in 1..N /\ n - 1 \in 0..N /\ ~(n <= n - 1)
    BY <1>2, <1>3, <2>1
  <2> QED BY <1>4, <2>1, <2>2
<1>6. Correct(N)
  BY <1>2, <1>5
<1>7. Taken(N) = ToSet(f)
  BY <1>2 DEF ToSet
<1>8. Kept(N) = {d \in ToSet(s) : \A x \in ToSet(f) : x.t # d.t}
  <2>1. \A i \in 1..N : f[i] \in ToSet(f)
    BY <1>2 DEF ToSet
  <2>2. \A x \in ToSet(f) : \E i \in 1..N : x = f[i]
    BY <1>2 DEF ToSet
  <2> QED BY <2>1, <2>2, Zenon
<1> QED BY <1>1, <1>6, <1>7, <1>8, Zenon DEF Correct, N

\* Merging newer content only moves a list forward.
LEMMA MergeCovers ==
  ASSUME NEW s \in Seq(Candle), NEW f \in Seq(Candle),
         Ascending(s), Ascending(f),
         \A d \in ToSet(s), x \in ToSet(f) : x.t = d.t => d.v <= x.v
  PROVE  Covers(Merge(s, f), s)
<1> SUFFICES ASSUME NEW d \in ToSet(s)
             PROVE  \E y \in ToSet(Merge(s, f)) : y.t = d.t /\ y.v >= d.v
  BY DEF Covers
<1>1. ToSet(Merge(s, f)) =
        {z \in ToSet(s) : \A x \in ToSet(f) : x.t # z.t} \cup ToSet(f)
  BY MergeContents
<1>2. CASE \A x \in ToSet(f) : x.t # d.t
  <2>1. d.v \in Nat
    BY ToSetType
  <2> QED BY <1>1, <1>2, <2>1
<1>3. CASE \E x \in ToSet(f) : x.t = d.t
  <2>1. PICK x \in ToSet(f) : x.t = d.t
    BY <1>3
  <2>2. x.v \in Nat /\ d.v \in Nat /\ d.v <= x.v
    BY <2>1, ToSetType
  <2> QED BY <1>1, <2>1, <2>2
<1> QED BY <1>2, <1>3

-----------------------------------------------------------------------------
(* Candles in a row: what the exchange answers, and what the limit leaves of *)
(* it.                                                                       *)

\* The candles of a list from one place to another.
LEMMA RunContents ==
  ASSUME NEW h \in Seq(Candle), Ascending(h), NEW m \in 1..Len(h) + 1,
         NEW n \in m - 1..Len(h)
  PROVE  /\ SubSeq(h, m, n) \in Seq(Candle)
         /\ Len(SubSeq(h, m, n)) = n - m + 1
         /\ Ascending(SubSeq(h, m, n))
         /\ ToSet(SubSeq(h, m, n)) = {h[i] : i \in m..n}
<1> DEFINE N == Len(h)
           s == SubSeq(h, m, n)
<1>1. N \in Nat /\ DOMAIN h = 1..N /\ \A i \in 1..N : h[i] \in Candle
  BY LenProperties, ElementOfSeq
<1>2. /\ s \in Seq(Candle) /\ Len(s) = n - m + 1
      /\ \A j \in 1..n - m + 1 : s[j] = h[m + j - 1]
  <2>1. \A j \in m..n : h[j] \in Candle
    BY <1>1
  <2>2. m \in Int /\ n \in Int
    BY <1>1
  <2>3. /\ s \in Seq(Candle) /\ Len(s) = IF m <= n THEN n - m + 1 ELSE 0
        /\ \A j \in 1..n - m + 1 : s[j] = h[m + j - 1]
    BY <1>1, <2>1, <2>2, SubSeqProperties
  <2> QED BY <1>1, <2>3
<1>3. DOMAIN s = 1..n - m + 1
  BY <1>2, LenProperties
<1> HIDE DEF N, s
<1>4. m \in 1..N + 1 /\ n \in m - 1..N
  BY DEF N
<1>5. Ascending(s)
  <2> SUFFICES ASSUME NEW i \in 1..n - m + 1, NEW j \in 1..n - m + 1, i < j
               PROVE  s[i].t < s[j].t
    BY <1>3, Zenon DEF Ascending
  <2>1. /\ m + i - 1 \in DOMAIN h /\ m + j - 1 \in DOMAIN h
        /\ m + i - 1 < m + j - 1
    BY <1>1, <1>4
  <2> QED BY <1>2, <2>1, Zenon DEF Ascending
<1>6. ToSet(s) = {h[i] : i \in m..n}
  <2>1. ASSUME NEW j \in 1..n - m + 1 PROVE s[j] \in {h[i] : i \in m..n}
    <3>1. m + j - 1 \in m..n
      BY <1>1, <1>4
    <3> QED BY <1>2, <3>1
  <2>2. ASSUME NEW i \in m..n PROVE \E j \in DOMAIN s : s[j] = h[i]
    <3>1. i - m + 1 \in 1..n - m + 1 /\ m + (i - m + 1) - 1 = i
      BY <1>1, <1>4
    <3> QED BY <1>2, <1>3, <3>1
  <2> QED BY <1>3, <2>1, <2>2, Zenon DEF ToSet
<1> QED BY <1>2, <1>5, <1>6 DEF s

\* What FetchKline keeps of an answer: all of it or, of more than the limit,
\* the newest, and these exactly.
LEMMA NewestKept ==
  ASSUME NEW got \in Seq(Candle), Ascending(got), NEW limit \in Int, NEW kept,
         kept = IF limit > 0 /\ Len(got) > limit
                THEN SubSeq(got, Len(got) - limit + 1, Len(got)) ELSE got
  PROVE  /\ kept \in Seq(Candle) /\ Ascending(kept)
         /\ ToSet(kept) = {got[i] : i \in {j \in 1..Len(got) :
                                      limit > 0 => j > Len(got) - limit}}
<1> DEFINE N == Len(got)
           places == {j \in 1..N : limit > 0 => j > N - limit}
<1>1. N \in Nat /\ DOMAIN got = 1..N
  BY LenProperties
<1>2. CASE limit > 0 /\ N > limit
  <2>1. N - limit + 1 \in 1..N + 1 /\ N \in (N - limit + 1) - 1..N
    <3> HIDE DEF N
    <3> QED BY <1>1, <1>2
  <2>2. /\ kept \in Seq(Candle) /\ Ascending(kept)
        /\ ToSet(kept) = {got[i] : i \in N - limit + 1..N}
    BY <1>2, <2>1, RunContents
  <2>3. places = N - limit + 1..N
    <3> HIDE DEF N
    <3> QED BY <1>1, <1>2
  <2> QED BY <2>2, <2>3
<1>3. CASE ~(limit > 0 /\ N > limit)
  <2>1. kept = got
    BY <1>3
  <2>2. places = 1..N
    <3> HIDE DEF N
    <3> QED BY <1>1, <1>3
  <2>3. ToSet(got) = {got[i] : i \in 1..N}
    BY <1>1, Zenon DEF ToSet
  <2> QED BY <2>1, <2>2, <2>3
<1> QED BY <1>2, <1>3

\* The last candle of an ascending list, and the others.
LEMMA LastAndFront ==
  ASSUME NEW s \in Seq(Candle), Ascending(s), s # <<>>
  PROVE  /\ Last(s) \in ToSet(s)
         /\ \A x \in ToSet(s) : x = Last(s) \/ x.t < Last(s).t
         /\ \A x, y \in ToSet(s) : x.t = y.t => x = y
         /\ Front(s) \in Seq(Candle) /\ Ascending(Front(s))
         /\ ToSet(Front(s)) = {x \in ToSet(s) : x.t < Last(s).t}
<1> DEFINE N == Len(s)
           f == Front(s)
<1>1. /\ N \in Nat /\ DOMAIN s = 1..N
      /\ \A i \in 1..N : s[i] \in Candle /\ s[i] \in ToSet(s) /\ s[i].t \in Int
      /\ \A x \in ToSet(s) : \E i \in 1..N : x = s[i]
  BY ListElements
<1>2. N >= 1
  BY <1>1, EmptySeq
<1>3. \A i, j \in 1..N : i < j => s[i].t < s[j].t
  BY <1>1, Zenon DEF Ascending
<1>4. Last(s) = s[N]
  BY DEF Last
<1>5. /\ f \in Seq(Candle) /\ Len(f) = N - 1
      /\ \A i \in 1..N - 1 : f[i] = s[i]
  <2>1. \A i \in 1..N - 1 : s[i] \in Candle
    BY <1>1
  <2>2. f = SubSeq(s, 1, N - 1)
    BY DEF Front
  <2> HIDE DEF f
  <2>3. /\ f \in Seq(Candle)
        /\ Len(f) = IF 1 <= N - 1 THEN N - 1 - 1 + 1 ELSE 0
        /\ \A i \in 1..N - 1 - 1 + 1 : f[i] = s[1 + i - 1]
    BY <1>1, <2>1, <2>2, SubSeqProperties
  <2> HIDE DEF N
  <2> QED BY <1>1, <1>2, <2>3
<1>6. DOMAIN f = 1..N - 1
  BY <1>5, LenProperties
<1> HIDE DEF N, f
<1>7. /\ N \in 1..N
      /\ \A i \in 1..N - 1 : i \in 1..N /\ i < N
      /\ \A i \in 1..N : i = N \/ i \in 1..N - 1
  BY <1>1, <1>2
<1>8. \A x \in ToSet(s) : x = Last(s) \/ x.t < Last(s).t
  <2> SUFFICES ASSUME NEW i \in 1..N
               PROVE  s[i] = s[N] \/ s[i].t < s[N].t
    BY <1>1, <1>4
  <2> QED BY <1>3, <1>7
<1>9. \A x, y \in ToSet(s) : x.t = y.t => x = y
  <2> SUFFICES ASSUME NEW i \in 1..N, NEW j \in 1..N, s[i].t = s[j].t
               PROVE  i = j
    BY <1>1
  <2> QED BY <1>1, <1>3
<1>10. Ascending(f)
  <2> SUFFICES ASSUME NEW i \in 1..N - 1, NEW j \in 1..N - 1, i < j
               PROVE  f[i].t < f[j].t
    BY <1>6, Zenon DEF Ascending
  <2> QED BY <1>3, <1>5, <1>7
<1>11. ToSet(f) = {x \in ToSet(s) : x.t < Last(s).t}
  <2>1. ASSUME NEW i \in 1..N - 1
        PROVE  f[i] \in ToSet(s) /\ f[i].t < Last(s).t
    BY <1>1, <1>3, <1>4, <1>5, <1>7
  <2>2. ASSUME NEW x \in ToSet(s), x.t < Last(s).t
        PROVE  \E i \in 1..N - 1 : f[i] = x
    <3>1. PICK i \in 1..N : x = s[i]
      BY <1>1
    <3>2. i # N
      BY <1>1, <1>4, <1>7, <2>2, <3>1
    <3> QED BY <1>5, <1>7, <3>1, <3>2
  <2> QED BY <1>6, <2>1, <2>2, Zenon DEF ToSet
<1> QED BY <1>1, <1>4, <1>5, <1>7, <1>8, <1>9, <1>10, <1>11 DEF f

\* Appending a candle that is later than all of an ascending list.
LEMMA AppendLater ==
  ASSUME NEW s \in Seq(Candle), Ascending(s), NEW c \in Candle,
         \A x \in ToSet(s) : x.t < c.t
  PROVE  /\ Append(s, c) \in Seq(Candle) /\ Append(s, c) # <<>>
         /\ Ascending(Append(s, c))
         /\ ToSet(Append(s, c)) = ToSet(s) \cup {c}
<1> DEFINE N == Len(s)
           a == Append(s, c)
<1>1. /\ N \in Nat /\ DOMAIN s = 1..N
      /\ \A i \in 1..N : s[i] \in ToSet(s)
      /\ \A x \in ToSet(s) : \E i \in 1..N : x = s[i]
  BY ListElements
<1>2. /\ a \in Seq(Candle) /\ Len(a) = N + 1 /\ a[N + 1] = c /\ a # <<>>
      /\ \A i \in 1..N : a[i] = s[i]
  BY AppendProperties
<1>3. DOMAIN a = 1..N + 1
  BY <1>2, LenProperties
<1> HIDE DEF N, a
<1>4. \A i \in 1..N + 1 : i \in 1..N \/ i = N + 1
  BY <1>1
<1>5. Ascending(a)
  <2> SUFFICES ASSUME NEW i \in 1..N + 1, NEW j \in 1..N + 1, i < j
               PROVE  a[i].t < a[j].t
    BY <1>3, Zenon DEF Ascending
  <2>1. i \in 1..N
    BY <1>1
  <2>2. CASE j \in 1..N
    BY <1>1, <1>2, <2>1, <2>2 DEF Ascending
  <2>3. CASE j = N + 1
    BY <1>1, <1>2, <2>1, <2>3
  <2> QED BY <1>4, <2>2, <2>3
<1>6. ToSet(a) = ToSet(s) \cup {c}
  <2>1. \A i \in 1..N + 1 : a[i] \in ToSet(s) \cup {c}
    BY <1>1, <1>2, <1>4
  <2>2. N + 1 \in 1..N + 1 /\ 1..N \subseteq 1..N + 1
    BY <1>1
  <2>3. \A y \in ToSet(a) : \E i \in 1..N + 1 : y = a[i]
    BY <1>3, Zenon DEF ToSet
  <2>4. \A i \in 1..N + 1 : a[i] \in ToSet(a)
    BY <1>3, Zenon DEF ToSet
  <2>5. c \in ToSet(a)
    BY <1>2, <2>2, <2>4
  <2>6. \A x \in ToSet(s) : x \in ToSet(a)
    BY <1>1, <1>2, <2>2, <2>4, Zenon
  <2> QED BY <2>1, <2>3, <2>5, <2>6, Zenon
<1> QED BY <1>2, <1>5, <1>6 DEF a
=============================================================================
