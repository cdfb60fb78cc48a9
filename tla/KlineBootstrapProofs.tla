------------------------- MODULE KlineBootstrapProofs -------------------------
(***************************************************************************)
(* Proofs about the start of the kline service, for every set of pairs in  *)
(* every order of launching, number of workers, limit of a request, files  *)
(* and tables left by earlier processes, and number of starts.             *)
(***************************************************************************)
EXTENDS KlineBootstrap, CandlesProofs, FiniteSetTheorems

(* The strengthening.                                                      *)

\* Files and tables hold lists in order, and files what the exchange has
\* shown.
FilesSound ==
  \A k \in AllKeys :
    /\ Ascending(LoadFile(k)) /\ Covers(Market, LoadFile(k))
    /\ Ascending(rows[k])

\* The workers launched are those before next, and all of them when the
\* launch loop has not been cut short.
AllLaunched ==
  /\ main \in {"launching", "waiting", "live"} =>
       \A i \in 1..Len(Order) : pc[Order[i]] = "idle" <=> i >= next
  /\ main \in {"waiting", "live"} /\ ~cancelled => next > Len(Order)

\* Workers run during Bootstrap only, and nothing moves in memory after.
LiveQuietly ==
  /\ main \notin {"launching", "waiting"} => Running = {}
  /\ main = "live" => ~cancelled /\ subscribed = WithData

\* A read that failed is one of this start.
UnreadBegun ==
  \A k \in unread : /\ pc[k] # "begin"
                    /\ pc[k] = "idle" => main \in {"off", "exited"}

\* What the worker of k takes for the list on disk.
Basis(k) == IF k \in unread THEN <<>> ELSE LoadFile(k)

\* What a worker knows at each of its steps: the entry is the list on disk
\* before the fetch and after the last step, and the list to save covers it.
WorkerInOrder(k) ==
  /\ pc[k] \in {"fetch", "save", "fill", "rename", "failed"} =>
       candles[k] = Basis(k)
  /\ pc[k] \in {"save", "fill", "rename"} =>
       /\ Ascending(merged[k]) /\ Covers(Market, merged[k])
       /\ Covers(merged[k], Basis(k))
  /\ pc[k] = "rename" => tmp[k] = WholeFile(merged[k])
  /\ pc[k] \in {"db", "load"} => LoadFile(k) = merged[k]
  /\ pc[k] = "loaded" => candles[k] = LoadFile(k)

WorkersInOrder == \A k \in AllKeys : WorkerInOrder(k)

IInv ==
  /\ TypeOK
  /\ FilesSound
  /\ AllLaunched
  /\ LiveQuietly
  /\ UnreadBegun
  /\ WorkersInOrder

-----------------------------------------------------------------------------
\* The exchange's candles are a list in order.
LEMMA MarketIsList ==
  ASSUME NEW n \in 1..MaxShown
  PROVE  /\ MarketOf(n) \in Seq(Candle) /\ MarketOf(n) # <<>>
         /\ Ascending(MarketOf(n))
<1> DEFINE m == MarketOf(n)
           time(i) == i * IntervalSeconds
           rank(i) == IF i < n THEN 2 * i ELSE 2 * i - 1
<1>1. /\ n \in Nat /\ n >= 1 /\ 1..n \subseteq 1..MaxShown
      /\ IntervalSeconds \in Nat /\ IntervalSeconds >= 1
  BY BootstrapAssumption, RestAssumption
<1>2. \A i \in 1..n : time(i) \in Times /\ rank(i) \in Nat \ {0}
  BY <1>1, BootstrapAssumption
<1>3. m = [i \in 1..n |-> [t |-> time(i), v |-> rank(i)]]
  BY DEF MarketOf
<1>4. ASSUME NEW i \in 1..n, NEW j \in 1..n, i < j
      PROVE  time(i) < time(j)
  <2>1. i \in Int /\ j \in Int /\ j - i >= 1 /\ j - i \in Nat
    BY <1>1, <1>4
  <2>2. (j - i) * IntervalSeconds >= 1
    <3>1. \A a, b \in Nat : a >= 1 /\ b >= 1 => a * b >= 1
      OBVIOUS
    <3> QED BY <1>1, <2>1, <3>1, Zenon
  <2>3. j * IntervalSeconds = i * IntervalSeconds + (j - i) * IntervalSeconds
    BY <1>1, <2>1
  <2> DEFINE a == i * IntervalSeconds
             b == j * IntervalSeconds
             d == (j - i) * IntervalSeconds
  <2>4. a \in Int /\ b \in Int /\ d \in Int
    BY <1>1, <2>1
  <2> HIDE DEF a, b, d
  <2>5. a < b
    BY <2>2, <2>3, <2>4 DEF a, b, d
  <2> QED BY <2>5 DEF a, b
<1> HIDE DEF m, time, rank
<1>5. \A i \in 1..n : [t |-> time(i), v |-> rank(i)] \in Candle
  BY <1>2 DEF Candle
<1>6. m \in Seq(Candle) /\ DOMAIN m = 1..n
  BY <1>1, <1>3, <1>5
<1>7. \A i \in 1..n : m[i].t = time(i)
  BY <1>3
<1>8. m # <<>>
  <2>1. 1 \in DOMAIN m
    BY <1>1, <1>6
  <2> QED BY <2>1
<1>9. Ascending(m)
  <2> SUFFICES ASSUME NEW i \in 1..n, NEW j \in 1..n, i < j
               PROVE  m[i].t < m[j].t
    BY <1>6, Zenon DEF Ascending
  <2>1. time(i) < time(j)
    BY <1>4
  <2> QED BY <1>7, <2>1, Zenon
<1> QED BY <1>6, <1>8, <1>9 DEF m

\* A candle more, and the open one closed, is newer content of each.
LEMMA MarketGrows ==
  ASSUME NEW n \in 1..MaxShown, n + 1 \in 1..MaxShown
  PROVE  Covers(MarketOf(n + 1), MarketOf(n))
<1> DEFINE m == MarketOf(n)
           g == MarketOf(n + 1)
<1>1. n \in Nat /\ n >= 1 /\ IntervalSeconds \in Int
  BY BootstrapAssumption, RestAssumption
<1>2. /\ DOMAIN m = 1..n /\ DOMAIN g = 1..n + 1
      /\ \A i \in 1..n : m[i].t = i * IntervalSeconds
      /\ \A i \in 1..n : m[i].v = IF i < n THEN 2 * i ELSE 2 * i - 1
      /\ \A i \in 1..n + 1 : g[i].t = i * IntervalSeconds
      /\ \A i \in 1..n + 1 : g[i].v = IF i < n + 1 THEN 2 * i ELSE 2 * i - 1
  BY DEF MarketOf
<1> HIDE DEF m, g
<1>3. \A i \in 1..n : i \in 1..n + 1 /\ i < n + 1
  BY <1>1
<1>4. \A i \in 1..n : g[i].t = m[i].t /\ g[i].v >= m[i].v
  BY <1>1, <1>2, <1>3
<1>5. \A x \in ToSet(m) : \E y \in ToSet(g) : y.t = x.t /\ y.v >= x.v
  <2> SUFFICES ASSUME NEW x \in ToSet(m)
               PROVE  \E y \in ToSet(g) : y.t = x.t /\ y.v >= x.v
    OBVIOUS
  <2>1. PICK i \in 1..n : x = m[i]
    BY <1>2, Zenon DEF ToSet
  <2>2. g[i] \in ToSet(g)
    BY <1>2, <1>3, Zenon DEF ToSet
  <2> QED BY <1>4, <2>1, <2>2, Zenon
<1> QED BY <1>5, Zenon DEF Covers, m, g

\* What a request brings: candles of the exchange, in order, and of the answer
\* all but the oldest beyond the limit.
LEMMA FetchContents ==
  ASSUME NEW h \in Seq(Candle), Ascending(h), NEW start \in Int,
         NEW answer \in Answers(h, start)
  PROVE  /\ answer \in Seq(Candle) /\ ToSet(answer) \subseteq ToSet(h)
         /\ FetchKline(answer) \in Seq(Candle) /\ Ascending(FetchKline(answer))
         /\ ToSet(FetchKline(answer)) \subseteq ToSet(answer)
         /\ \A i \in 1..Len(answer) :
              (BootstrapLimit > 0 => i > Len(answer) - BootstrapLimit)
                => answer[i] \in ToSet(FetchKline(answer))
<1> DEFINE N == Len(h)
           first == SearchIndex(h, start)
<1>1. /\ N \in Nat /\ first \in 1..N + 1
      /\ BootstrapLimit \in Int /\ AnswerLimit \in Nat /\ AnswerLimit >= 1
  BY LenProperties, SearchIndexDef, RestAssumption
<1>2. \E m \in 1..N + 1 : \E n \in m - 1..N : answer = SubSeq(h, m, n)
  <2> HIDE DEF N, first
  <2>1. CASE N - AnswerLimit + 1 <= first
    <3>1. answer = SubSeq(h, first, N)
      BY <2>1 DEF Answers, N, first
    <3>2. N \in first - 1..N
      BY <1>1
    <3> QED BY <1>1, <3>1, <3>2
  <2>2. CASE ~(N - AnswerLimit + 1 <= first)
    <3>1. PICK i \in first..N - AnswerLimit + 1 :
            answer = SubSeq(h, i, i + AnswerLimit - 1)
      BY <2>2 DEF Answers, N, first
    <3>2. i \in 1..N + 1 /\ i + AnswerLimit - 1 \in i - 1..N
      BY <1>1
    <3> QED BY <3>1, <3>2
  <2> QED BY <2>1, <2>2
<1>3. /\ answer \in Seq(Candle) /\ Ascending(answer)
      /\ ToSet(answer) \subseteq ToSet(h)
  <2>1. PICK m \in 1..N + 1 : \E n \in m - 1..N : answer = SubSeq(h, m, n)
    BY <1>2
  <2>2. PICK n \in m - 1..N : answer = SubSeq(h, m, n)
    BY <2>1
  <2>3. /\ answer \in Seq(Candle) /\ Ascending(answer)
        /\ ToSet(answer) = {h[i] : i \in m..n}
    BY <2>2, RunContents
  <2>4. \A i \in 1..N : h[i] \in ToSet(h)
    BY ListElements
  <2>5. m..n \subseteq 1..N
    <3> HIDE DEF N
    <3> QED BY <1>1
  <2> QED BY <2>3, <2>4, <2>5
<1> DEFINE kept == FetchKline(answer)
<1>4. kept = IF BootstrapLimit > 0 /\ Len(answer) > BootstrapLimit
             THEN SubSeq(answer, Len(answer) - BootstrapLimit + 1, Len(answer))
             ELSE answer
  BY DEF FetchKline
<1> HIDE DEF kept
<1>5. /\ kept \in Seq(Candle) /\ Ascending(kept)
      /\ ToSet(kept) =
           {answer[i] : i \in {j \in 1..Len(answer) :
              BootstrapLimit > 0 => j > Len(answer) - BootstrapLimit}}
  BY <1>1, <1>3, <1>4, NewestKept
<1>6. \A i \in 1..Len(answer) : answer[i] \in ToSet(answer)
  BY <1>3, ListElements
<1> QED BY <1>3, <1>5, <1>6 DEF kept

\* A request starts at a whole second.
LEMMA StartIsInt ==
  ASSUME NEW s \in Seq(Candle), NEW now \in Int
  PROVE  ComputeStart(s, now) \in Int
<1>1. IntervalSeconds \in Int /\ BootstrapLimit \in Int /\ 2000 \in Int
  BY RestAssumption
<1>2. CASE s = <<>>
  <2> DEFINE back == IF BootstrapLimit <= 0 THEN 2000 ELSE BootstrapLimit
  <2>1. back \in Int
    BY <1>1
  <2>2. ComputeStart(s, now) = now - back * IntervalSeconds
    BY <1>2 DEF ComputeStart
  <2> HIDE DEF back
  <2>3. back * IntervalSeconds \in Int
    BY <1>1, <2>1
  <2> QED BY <2>2, <2>3
<1>3. CASE s # <<>>
  <2> DEFINE i == IF Len(s) > 1 THEN Len(s) - 1 ELSE 1
  <2>1. i \in 1..Len(s)
    <3>1. Len(s) \in Nat /\ Len(s) # 0
      BY <1>3, EmptySeq, LenProperties
    <3> QED BY <3>1
  <2>2. ComputeStart(s, now) = s[i].t + 1
    BY <1>3 DEF ComputeStart
  <2>3. s[i].t \in Int
    BY <2>1, ListElements, Zenon
  <2> HIDE DEF i
  <2> QED BY <2>2, <2>3
<1> QED BY <1>2, <1>3, Zenon

\* The list a worker is to save: in order, of candles the exchange has shown,
\* and covering the list it started from.
LEMMA MergedList ==
  ASSUME NEW n \in 1..MaxShown, NEW s \in Seq(Candle), Ascending(s),
         Covers(MarketOf(n), s), NEW now \in Int,
         NEW answer \in Answers(MarketOf(n), ComputeStart(s, now))
  PROVE  LET m == Merge(s, FetchKline(answer))
         IN  /\ m \in Seq(Candle) /\ Ascending(m)
             /\ Covers(MarketOf(n), m) /\ Covers(m, s)
<1> DEFINE h == MarketOf(n)
           start == ComputeStart(s, now)
           f == FetchKline(answer)
           m == Merge(s, f)
<1>1. h \in Seq(Candle) /\ Ascending(h) /\ h # <<>> /\ start \in Int
  BY MarketIsList, StartIsInt
<1>2. answer \in Answers(h, start)
  OBVIOUS
<1> HIDE DEF start, h
<1>3. /\ f \in Seq(Candle) /\ Ascending(f)
      /\ \A c \in ToSet(f) : c \in ToSet(h)
  BY <1>1, <1>2, FetchContents, Zenon
<1> HIDE DEF f
<1>4. /\ m \in Seq(Candle) /\ Ascending(m)
      /\ ToSet(m) =
           {d \in ToSet(s) : \A x \in ToSet(f) : x.t # d.t} \cup ToSet(f)
  BY <1>3, MergeContents, Zenon
<1>5. \A x \in ToSet(s) : \E y \in ToSet(h) : y.t = x.t /\ y.v >= x.v
  BY Zenon DEF Covers, h
<1>6. \A d \in ToSet(s), x \in ToSet(f) : x.t = d.t => d.v <= x.v
  <2> SUFFICES ASSUME NEW d \in ToSet(s), NEW x \in ToSet(f), x.t = d.t
               PROVE  d.v <= x.v
    BY Zenon
  <2>1. PICK y \in ToSet(h) : y.t = d.t /\ y.v >= d.v
    BY <1>5, Zenon
  <2>2. \A z, w \in ToSet(h) : z.t = w.t => z = w
    BY <1>1, LastAndFront, Zenon
  <2>3. y = x
    BY <1>3, <2>1, <2>2, Zenon
  <2>4. d.v \in Nat /\ x.v \in Nat
    BY <1>3, ListElements, Zenon
  <2> QED BY <2>1, <2>3, <2>4
<1>7. Covers(m, s)
  BY <1>3, <1>6, MergeCovers, Zenon
<1>8. Covers(h, m)
  <2> SUFFICES ASSUME NEW x \in ToSet(m)
               PROVE  \E y \in ToSet(h) : y.t = x.t /\ y.v >= x.v
    BY Zenon DEF Covers
  <2>1. CASE x \in ToSet(s)
    BY <1>5, <2>1, Zenon
  <2>2. CASE x \in ToSet(f)
    <3>1. x \in ToSet(h) /\ x.v \in Nat
      BY <1>3, <2>2, ListElements, Zenon
    <3>2. x.v >= x.v
      BY <3>1
    <3> QED BY <3>1, <3>2, Zenon
  <2> QED BY <1>4, <2>1, <2>2, Zenon
<1> HIDE DEF m
<1>9. m \in Seq(Candle) /\ Ascending(m) /\ Covers(h, m) /\ Covers(m, s)
  BY <1>4, <1>7, <1>8, Zenon
<1> QED BY <1>9, Zenon DEF m, h, f, start

-----------------------------------------------------------------------------
\* A file, whatever its state, is read as a list of candles.
LEMMA FileLists ==
  ASSUME FilesTypeOK
  PROVE  \A k \in AllKeys : LoadFile(k) \in Seq(Candle)
<1>1. \A k \in AllKeys : file[k] \in FileState
  BY Zenon DEF FilesTypeOK
<1>2. \A k \in AllKeys : file[k].list \in Seq(Candle)
  BY <1>1 DEF FileState
<1>3. <<>> \in Seq(Candle)
  BY EmptySeq
<1> QED BY <1>2, <1>3, Zenon DEF LoadFile

\* The empty list is one.
LEMMA EmptyLists ==
  /\ NoCandles \in [AllKeys -> Seq(Candle)]
  /\ \A k \in AllKeys : NoCandles[k] = <<>>
  /\ <<>> \in Seq(Candle) /\ Ascending(<<>>)
  /\ \A s : Covers(s, <<>>)
<1>1. <<>> \in Seq(Candle)
  BY EmptySeq
<1>2. Ascending(<<>>)
  BY DEF Ascending
<1>3. \A s : Covers(s, <<>>)
  BY CoversEmpty, Zenon
<1> QED BY <1>1, <1>2, <1>3, Zenon DEF NoCandles

\* The states SaveFile leaves a file in.
LEMMA FileStates ==
  /\ NoFile \in FileState /\ TornFile \in FileState
  /\ \A s \in Seq(Candle) : WholeFile(s) \in FileState
  /\ \A s : WholeFile(s).st = "whole" /\ WholeFile(s).list = s
  /\ TornFile.st = "torn" /\ NoFile.st = "none"
<1>1. <<>> \in Seq(Candle)
  BY EmptySeq
<1>2. NoFile \in FileState /\ TornFile \in FileState
  BY <1>1 DEF NoFile, TornFile, FileState
<1>3. \A s \in Seq(Candle) : WholeFile(s) \in FileState
  BY DEF WholeFile, FileState
<1>4. \A s : WholeFile(s).st = "whole" /\ WholeFile(s).list = s
  BY DEF WholeFile
<1>5. TornFile.st = "torn" /\ NoFile.st = "none"
  BY DEF TornFile, NoFile
<1> QED BY <1>2, <1>3, <1>4, <1>5, Zenon

\* The pairs are finitely many.
LEMMA FiniteKeys == IsFiniteSet(AllKeys) /\ Len(Order) \in Nat
<1>1. /\ Order \in Seq(AllKeys) /\ Len(Order) \in Nat
      /\ DOMAIN Order = 1..Len(Order)
  BY BootstrapAssumption, LenProperties
<1>2. \A k \in AllKeys : \E i \in 1..Len(Order) : Order[i] = k
  <2>1. AllKeys = ToSet(Order)
    BY BootstrapAssumption
  <2> QED BY <1>1, <2>1, Zenon DEF ToSet
<1>3. IsFiniteSet(AllKeys)
  BY <1>1, <1>2, Zenon DEF IsFiniteSet
<1> QED BY <1>1, <1>3, Zenon

\* A worker that starts takes one slot ...
LEMMA OneMoreRunning ==
  ASSUME NEW k \in AllKeys, Running' \subseteq Running \cup {k},
         Cardinality(Running) < Workers
  PROVE  Cardinality(Running') <= Workers
<1>1. IsFiniteSet(Running)
  BY FiniteKeys, FS_Subset DEF Running
<1>2. IsFiniteSet(Running \cup {k})
  BY <1>1, FS_AddElement
<1>3. Cardinality(Running') <= Cardinality(Running \cup {k})
  BY <1>2, FS_Subset
<1>4. Cardinality(Running \cup {k}) <= Cardinality(Running) + 1
  <2>1. /\ Cardinality(Running) \in Nat
        /\ Cardinality(Running \cup {k}) =
             IF k \in Running THEN Cardinality(Running)
             ELSE Cardinality(Running) + 1
    BY <1>1, FS_AddElement, FS_CardinalityType
  <2> QED BY <2>1
<1>5. IsFiniteSet(Running')
  BY <1>2, FS_Subset
<1>6. /\ Cardinality(Running) \in Nat /\ Cardinality(Running \cup {k}) \in Nat
      /\ Cardinality(Running') \in Nat
  BY <1>1, <1>2, <1>5, FS_CardinalityType
<1> DEFINE a == Cardinality(Running)
           b == Cardinality(Running \cup {k})
           c == Cardinality(Running')
<1>7. a \in Nat /\ b \in Nat /\ c \in Nat /\ a < Workers /\ b <= a + 1 /\ c <= b
  BY <1>3, <1>4, <1>6
<1> HIDE DEF a, b, c
<1>8. c <= Workers
  BY <1>7, BootstrapAssumption
<1> QED BY <1>8 DEF c

\* ... and no other step takes any.
LEMMA NoMoreRunning ==
  ASSUME Running' \subseteq Running, Cardinality(Running) <= Workers
  PROVE  Cardinality(Running') <= Workers
<1>1. IsFiniteSet(Running)
  BY FiniteKeys, FS_Subset DEF Running
<1>2. Cardinality(Running') <= Cardinality(Running) /\ IsFiniteSet(Running')
  BY <1>1, FS_Subset
<1>3. Cardinality(Running) \in Nat /\ Cardinality(Running') \in Nat
  BY <1>1, <1>2, FS_CardinalityType
<1> DEFINE a == Cardinality(Running)
           c == Cardinality(Running')
<1>4. a \in Nat /\ c \in Nat /\ a <= Workers /\ c <= a
  BY <1>2, <1>3
<1> HIDE DEF a, c
<1>5. c <= Workers
  BY <1>4, BootstrapAssumption
<1> QED BY <1>5 DEF c

\* With nobody running no slot is taken.
LEMMA NoneRunning ==
  ASSUME Running = {}
  PROVE  Cardinality(Running) <= Workers
<1>1. Cardinality(Running) = 0
  BY FS_EmptySet
<1> QED BY <1>1, BootstrapAssumption

-----------------------------------------------------------------------------
\* It holds at first.
LEMMA InitIInv == Init => IInv
<1> SUFFICES ASSUME Init PROVE IInv
  OBVIOUS
<1>1. /\ keys = {} /\ candles = NoCandles /\ dirty = {}
      /\ file \in InitialFiles /\ tmp = [k \in AllKeys |-> NoFile]
      /\ main = "off" /\ cancelled = FALSE /\ useDB = FALSE /\ next = 1
      /\ pc = [k \in AllKeys |-> "idle"] /\ merged = NoCandles
      /\ invalid = {} /\ unread = {} /\ subscribed = {}
      /\ rows \in InitialRows /\ shown = 2 /\ starts = 0
  BY Zenon DEF Init
<1>2. \A k \in AllKeys : pc[k] = "idle"
  BY <1>1, Zenon
<1>3. Running = {}
  <2>1. "idle" \notin Busy
    BY DEF Busy
  <2> QED BY <1>2, <2>1, Zenon DEF Running
<1>4. FilesTypeOK /\ StoreTypeOK
  <2>1. file \in [AllKeys -> FileState]
    BY <1>1, BootstrapAssumption
  <2>2. tmp \in [AllKeys -> FileState]
    BY <1>1, FileStates, Zenon
  <2>3. candles \in [AllKeys -> Seq(Candle)]
    BY <1>1, EmptyLists, Zenon
  <2> QED BY <1>1, <2>1, <2>2, <2>3, Zenon DEF FilesTypeOK, StoreTypeOK
<1>5. TypeOK
  <2>1. main \in {"off", "launching", "waiting", "live", "exited"}
    BY <1>1
  <2>2. /\ next \in 1..Len(Order) + 1 /\ shown \in 1..MaxShown
        /\ starts \in 0..MaxStarts
    BY <1>1, FiniteKeys, BootstrapAssumption
  <2>3. pc \in [AllKeys -> {"idle"} \cup Busy \cup Ended]
    BY <1>1, Zenon
  <2>4. merged \in [AllKeys -> Seq(Candle)]
    BY <1>1, EmptyLists, Zenon
  <2>5. rows \in [AllKeys -> Seq(Candle)]
    <3>1. InitialRows \subseteq [AllKeys -> Seq(Candle)]
      BY BootstrapAssumption, Zenon
    <3> QED BY <1>1, <3>1, Zenon
  <2>6. cancelled \in BOOLEAN /\ useDB \in BOOLEAN
    BY <1>1
  <2>7. /\ invalid \subseteq Symbols \ Listed /\ unread \subseteq Unreadable
        /\ subscribed \subseteq Symbols
    BY <1>1
  <2> QED BY <1>1, <1>3, <1>4, <2>1, <2>2, <2>3, <2>4, <2>5, <2>6, <2>7,
             NoneRunning, Zenon DEF TypeOK
<1>6. FilesSound
  <2> SUFFICES ASSUME NEW k \in AllKeys
               PROVE  /\ Ascending(LoadFile(k)) /\ Covers(Market, LoadFile(k))
                      /\ Ascending(rows[k])
    BY Zenon DEF FilesSound
  <2>1. Ascending(file[k].list) /\ Covers(Market, file[k].list)
    <3>1. Market = MarketOf(2)
      BY <1>1, Zenon DEF Market
    <3> QED BY <1>1, <3>1, BootstrapAssumption, Zenon
  <2>2. Ascending(<<>>) /\ Covers(Market, <<>>)
    BY EmptyLists, Zenon
  <2>3. Ascending(rows[k])
    BY <1>1, BootstrapAssumption, Zenon
  <2> QED BY <2>1, <2>2, <2>3, Zenon DEF LoadFile
<1>7. AllLaunched /\ LiveQuietly
  <2>1. main \notin {"launching", "waiting", "live"}
    BY <1>1
  <2> QED BY <1>3, <2>1 DEF AllLaunched, LiveQuietly
<1>8. UnreadBegun
  BY <1>1, Zenon DEF UnreadBegun
<1>9. WorkersInOrder
  BY <1>2 DEF WorkersInOrder, WorkerInOrder
<1> QED BY <1>5, <1>6, <1>7, <1>8, <1>9, Zenon DEF IInv

-----------------------------------------------------------------------------
(* The workers.                                                            *)

\* A step of the worker of k leaves main and the other pairs alone.
StepOf(k) ==
  /\ k \in AllKeys /\ pc[k] \in Busy
  /\ \E to \in (Busy \ {"begin"}) \cup Ended : pc' = [pc EXCEPT ![k] = to]
  /\ UNCHANGED <<mainVars, shown, keys, dirty>>
  /\ \A j \in AllKeys \ {k} :
       /\ candles'[j] = candles[j] /\ file'[j] = file[j] /\ tmp'[j] = tmp[j]
       /\ merged'[j] = merged[j] /\ rows'[j] = rows[j]
       /\ j \in unread' <=> j \in unread

\* What it writes is of the right type.
StepTyped ==
  /\ candles \in [AllKeys -> Seq(Candle)]
  /\ FilesTypeOK
  /\ merged \in [AllKeys -> Seq(Candle)]
  /\ invalid \subseteq Symbols \ Listed
  /\ unread \subseteq Unreadable
  /\ rows \in [AllKeys -> Seq(Candle)]

\* What it leaves of its pair is sound.
PairSound(k) ==
  /\ Ascending(LoadFile(k)) /\ Covers(Market, LoadFile(k))
  /\ Ascending(rows[k])
  /\ WorkerInOrder(k)

\* It then keeps the invariant.
LEMMA StepKeeps ==
  ASSUME IInv, NEW k \in AllKeys, StepOf(k), StepTyped', PairSound(k)'
  PROVE  IInv'
<1>1. /\ TypeOK /\ FilesSound /\ AllLaunched /\ LiveQuietly /\ UnreadBegun
      /\ WorkersInOrder
  BY Zenon DEF IInv
<1>2. PICK to \in (Busy \ {"begin"}) \cup Ended : pc' = [pc EXCEPT ![k] = to]
  BY Zenon DEF StepOf
<1>3. /\ main' = main /\ cancelled' = cancelled /\ useDB' = useDB
      /\ next' = next /\ subscribed' = subscribed /\ starts' = starts
      /\ shown' = shown /\ keys' = keys /\ dirty' = dirty
  BY Zenon DEF StepOf, mainVars
<1>4. \A j \in AllKeys \ {k} :
        /\ candles'[j] = candles[j] /\ file'[j] = file[j] /\ tmp'[j] = tmp[j]
        /\ merged'[j] = merged[j] /\ rows'[j] = rows[j]
        /\ j \in unread' <=> j \in unread
  BY Zenon DEF StepOf
<1>5. pc \in [AllKeys -> {"idle"} \cup Busy \cup Ended] /\ pc[k] \in Busy
  BY <1>1, Zenon DEF TypeOK, StepOf
<1>6. /\ pc'[k] = to /\ to # "idle" /\ to # "begin" /\ pc[k] # "idle"
      /\ \A j \in AllKeys \ {k} : pc'[j] = pc[j]
      /\ pc' \in [AllKeys -> {"idle"} \cup Busy \cup Ended]
  <2>1. to # "idle" /\ to # "begin" /\ pc[k] # "idle"
    BY <1>5 DEF Busy, Ended
  <2>2. to \in {"idle"} \cup Busy \cup Ended
    OBVIOUS
  <2> QED BY <1>2, <1>5, <2>1, <2>2, Zenon
<1>7. Running' \subseteq Running /\ Running # {}
  BY <1>5, <1>6, Zenon DEF Running
<1>8. main \in {"launching", "waiting"}
  BY <1>1, <1>7, Zenon DEF LiveQuietly
<1>9. \A j \in AllKeys \ {k} : LoadFile(j)' = LoadFile(j)
  BY <1>4, Zenon DEF LoadFile
<1>10. TypeOK'
  <2>1. Cardinality(Running') <= Workers
    BY <1>1, <1>7, NoMoreRunning DEF TypeOK
  <2>2. StoreTypeOK'
    BY <1>1, <1>3, Zenon DEF TypeOK, StoreTypeOK, StepTyped
  <2> QED BY <1>1, <1>3, <1>6, <2>1, <2>2, Zenon DEF TypeOK, StepTyped
<1>11. FilesSound'
  <2>1. Market' = Market
    BY <1>3, Zenon DEF Market
  <2> QED BY <1>1, <1>4, <1>9, <2>1, Zenon DEF FilesSound, PairSound
<1>12. AllLaunched'
  <2>1. \A j \in AllKeys : pc'[j] = "idle" <=> pc[j] = "idle"
    BY <1>6, Zenon
  <2>2. \A i \in 1..Len(Order) : Order[i] \in AllKeys
    BY BootstrapAssumption, ElementOfSeq
  <2> QED BY <1>1, <1>3, <2>1, <2>2, Zenon DEF AllLaunched
<1>13. LiveQuietly'
  <2>1. main # "live"
    BY <1>8
  <2> QED BY <1>3, <1>8, <2>1, Zenon DEF LiveQuietly
<1>14. UnreadBegun'
  <2> SUFFICES ASSUME NEW j \in unread'
               PROVE  /\ pc'[j] # "begin"
                      /\ pc'[j] = "idle" => main \in {"off", "exited"}
    BY <1>3, Zenon DEF UnreadBegun
  <2>1. CASE j = k
    BY <1>6, <2>1, Zenon
  <2>2. CASE j # k
    <3>1. j \in AllKeys
      <4>1. Unreadable \subseteq AllKeys
        BY BootstrapAssumption
      <4> QED BY <4>1, Zenon DEF StepTyped
    <3> QED BY <1>1, <1>4, <1>6, <2>2, <3>1, Zenon DEF UnreadBegun
  <2> QED BY <2>1, <2>2, Zenon
<1>15. WorkersInOrder'
  <2> SUFFICES ASSUME NEW j \in AllKeys PROVE WorkerInOrder(j)'
    BY Zenon DEF WorkersInOrder
  <2>1. CASE j = k
    BY <2>1, Zenon DEF PairSound
  <2>2. CASE j # k
    <3>1. WorkerInOrder(j)
      BY <1>1, Zenon DEF WorkersInOrder
    <3>2. /\ pc'[j] = pc[j] /\ candles'[j] = candles[j] /\ tmp'[j] = tmp[j]
          /\ merged'[j] = merged[j]
          /\ j \in unread' <=> j \in unread
          /\ LoadFile(j)' = LoadFile(j) /\ Market' = Market
      BY <1>3, <1>4, <1>6, <1>9, <2>2, Zenon DEF Market
    <3>3. Basis(j)' = Basis(j)
      BY <3>2, Zenon DEF Basis
    <3> QED BY <3>1, <3>2, <3>3, Zenon DEF WorkerInOrder
  <2> QED BY <2>1, <2>2, Zenon
<1> QED BY <1>10, <1>11, <1>12, <1>13, <1>14, <1>15, Zenon DEF IInv

\* What the invariant says of one pair.
LEMMA PairFacts ==
  ASSUME IInv, NEW k \in AllKeys
  PROVE  /\ pc \in [AllKeys -> {"idle"} \cup Busy \cup Ended]
         /\ candles \in [AllKeys -> Seq(Candle)]
         /\ file \in [AllKeys -> FileState] /\ tmp \in [AllKeys -> FileState]
         /\ merged \in [AllKeys -> Seq(Candle)]
         /\ rows \in [AllKeys -> Seq(Candle)]
         /\ invalid \subseteq Symbols \ Listed /\ unread \subseteq Unreadable
         /\ LoadFile(k) \in Seq(Candle) /\ merged[k] \in Seq(Candle)
         /\ Ascending(LoadFile(k)) /\ Covers(Market, LoadFile(k))
         /\ rows[k] \in Seq(Candle) /\ Ascending(rows[k])
         /\ candles[k] \in Seq(Candle)
         /\ WorkerInOrder(k)
<1>1. /\ TypeOK /\ FilesSound /\ WorkersInOrder
  BY Zenon DEF IInv
<1>2. /\ StoreTypeOK /\ FilesTypeOK
  BY <1>1, Zenon DEF TypeOK
<1>3. LoadFile(k) \in Seq(Candle)
  BY <1>2, FileLists, Zenon
<1>4. /\ merged[k] \in Seq(Candle) /\ candles[k] \in Seq(Candle)
      /\ rows[k] \in Seq(Candle)
  BY <1>1, <1>2, Zenon DEF TypeOK, StoreTypeOK
<1> QED BY <1>1, <1>2, <1>3, <1>4, Zenon
           DEF TypeOK, StoreTypeOK, FilesTypeOK, FilesSound, WorkersInOrder

\* A worker goes from one place to another.
LEMMA GoMoves ==
  ASSUME IInv, NEW k \in AllKeys, NEW from, NEW to, Go(k, from, to)
  PROVE  pc[k] = from /\ pc'[k] = to /\ pc' = [pc EXCEPT ![k] = to]
BY PairFacts, Zenon DEF Go

\* A step that writes neither lists nor files.
LEMMA QuietStep ==
  ASSUME IInv, NEW k \in AllKeys,
         NEW to \in (Busy \ {"begin"}) \cup Ended,
         pc[k] \in Busy, pc' = [pc EXCEPT ![k] = to],
         UNCHANGED <<storeVars, fileVars, merged, unread, mainVars, rows,
                     shown>>,
         invalid' \subseteq Symbols \ Listed, WorkerInOrder(k)'
  PROVE  IInv'
<1>1. /\ keys' = keys /\ candles' = candles /\ dirty' = dirty
      /\ file' = file /\ tmp' = tmp /\ merged' = merged /\ unread' = unread
      /\ rows' = rows /\ shown' = shown /\ UNCHANGED mainVars
  BY Zenon DEF storeVars, fileVars
<1>2. StepOf(k)
  BY <1>1, Zenon DEF StepOf
<1>3. StepTyped'
  BY <1>1, PairFacts, Zenon DEF StepTyped, FilesTypeOK
<1>4. LoadFile(k)' = LoadFile(k) /\ Market' = Market
  BY <1>1, Zenon DEF LoadFile, Market
<1>5. PairSound(k)'
  BY <1>1, <1>4, PairFacts, Zenon DEF PairSound
<1> QED BY <1>2, <1>3, <1>5, StepKeeps, Zenon

\* A step that writes the temporary file only.
LEMMA TmpStep ==
  ASSUME IInv, NEW k \in AllKeys,
         NEW to \in (Busy \ {"begin"}) \cup Ended,
         pc[k] \in Busy, pc' = [pc EXCEPT ![k] = to],
         NEW t \in FileState, tmp' = [tmp EXCEPT ![k] = t],
         UNCHANGED <<storeVars, file, merged, invalid, unread, mainVars, rows,
                     shown>>,
         WorkerInOrder(k)'
  PROVE  IInv'
<1>1. /\ keys' = keys /\ candles' = candles /\ dirty' = dirty
      /\ file' = file /\ merged' = merged /\ unread' = unread
      /\ rows' = rows /\ shown' = shown /\ invalid' = invalid
      /\ UNCHANGED mainVars
  BY Zenon DEF storeVars
<1>2. /\ tmp' \in [AllKeys -> FileState]
      /\ \A j \in AllKeys \ {k} : tmp'[j] = tmp[j]
  BY PairFacts, Zenon
<1>3. StepOf(k)
  BY <1>1, <1>2, Zenon DEF StepOf
<1>4. StepTyped'
  BY <1>1, <1>2, PairFacts, Zenon DEF StepTyped, FilesTypeOK
<1>5. LoadFile(k)' = LoadFile(k) /\ Market' = Market
  BY <1>1, Zenon DEF LoadFile, Market
<1>6. PairSound(k)'
  BY <1>1, <1>5, PairFacts, Zenon DEF PairSound
<1> QED BY <1>3, <1>4, <1>6, StepKeeps, Zenon

\* A step that writes the pair's entry of the store, and may find its file
\* unreadable.
LEMMA EntryStep ==
  ASSUME IInv, NEW k \in AllKeys,
         NEW to \in (Busy \ {"begin"}) \cup Ended,
         pc[k] \in Busy, pc' = [pc EXCEPT ![k] = to],
         NEW s \in Seq(Candle), candles' = [candles EXCEPT ![k] = s],
         unread' \subseteq Unreadable,
         \A j \in AllKeys \ {k} : j \in unread' <=> j \in unread,
         UNCHANGED <<keys, dirty, fileVars, merged, invalid, mainVars, rows,
                     shown>>,
         WorkerInOrder(k)'
  PROVE  IInv'
<1>1. /\ keys' = keys /\ dirty' = dirty
      /\ file' = file /\ tmp' = tmp /\ merged' = merged
      /\ rows' = rows /\ shown' = shown /\ invalid' = invalid
      /\ UNCHANGED mainVars
  BY Zenon DEF fileVars
<1>2. /\ candles' \in [AllKeys -> Seq(Candle)]
      /\ \A j \in AllKeys \ {k} : candles'[j] = candles[j]
  BY PairFacts, Zenon
<1>3. StepOf(k)
  BY <1>1, <1>2, Zenon DEF StepOf
<1>4. StepTyped'
  BY <1>1, <1>2, PairFacts, Zenon DEF StepTyped, FilesTypeOK
<1>5. LoadFile(k)' = LoadFile(k) /\ Market' = Market
  BY <1>1, Zenon DEF LoadFile, Market
<1>6. PairSound(k)'
  BY <1>1, <1>5, PairFacts, Zenon DEF PairSound
<1> QED BY <1>3, <1>4, <1>6, StepKeeps, Zenon

-----------------------------------------------------------------------------
\* Where no worker promises anything of its pair.
LEMMA NothingDue ==
  ASSUME NEW k, pc[k] \in {"idle", "begin", "skipped"}
  PROVE  WorkerInOrder(k)
BY DEF WorkerInOrder

\* Skip, the failures of a fetch, of a save and of the table: the entry stays
\* the list on disk.
LEMMA FailuresKeep ==
  ASSUME IInv, NEW k \in AllKeys,
         Skip(k) \/ FetchFails(k) \/ ContractNotExist(k) \/ SaveFails(k)
           \/ UpsertFails(k)
  PROVE  IInv'
<1>1. /\ UNCHANGED <<storeVars, fileVars, merged, unread, mainVars, rows,
                     shown>>
      /\ UNCHANGED invalid \/ ContractNotExist(k)
  BY Zenon DEF Skip, FetchFails, ContractNotExist, SaveFails, UpsertFails
<1>2. /\ candles' = candles /\ merged' = merged /\ unread' = unread
      /\ LoadFile(k)' = LoadFile(k) /\ Basis(k)' = Basis(k)
  BY <1>1, Zenon DEF storeVars, fileVars, LoadFile, Basis
<1>3. invalid' \subseteq Symbols \ Listed
  <2>1. CASE UNCHANGED invalid
    BY <2>1, PairFacts, Zenon
  <2>2. CASE ContractNotExist(k)
    <3>1. /\ invalid' = invalid \cup {SymbolOf[k]}
          /\ SymbolOf[k] \notin Listed
      BY <2>2, Zenon DEF ContractNotExist
    <3>2. SymbolOf[k] \in Symbols
      <4>1. SymbolOf \in [AllKeys -> Range(SymbolOf)]
        BY BootstrapAssumption
      <4> QED BY <4>1, Zenon DEF Symbols
    <3> QED BY <3>1, <3>2, PairFacts, Zenon
  <2> QED BY <1>1, <2>1, <2>2, Zenon
<1>4. CASE Skip(k)
  <2>1. Go(k, "begin", "skipped")
    BY <1>4, Zenon DEF Skip
  <2>2. /\ pc[k] = "begin" /\ pc'[k] = "skipped"
        /\ pc' = [pc EXCEPT ![k] = "skipped"]
    BY <2>1, GoMoves, Zenon
  <2>3. "begin" \in Busy /\ "skipped" \in (Busy \ {"begin"}) \cup Ended
    BY DEF Busy, Ended
  <2>4. WorkerInOrder(k)'
    BY <2>2 DEF WorkerInOrder
  <2> QED BY <1>1, <1>3, <2>2, <2>3, <2>4, QuietStep, Zenon
<1>5. CASE Go(k, "fetch", "failed") \/ Go(k, "save", "failed")
             \/ Go(k, "fill", "failed")
  <2>1. /\ pc[k] \in {"fetch", "save", "fill"} /\ pc'[k] = "failed"
        /\ pc' = [pc EXCEPT ![k] = "failed"]
    <3>1. ASSUME NEW from \in {"fetch", "save", "fill"}, Go(k, from, "failed")
          PROVE  /\ pc[k] \in {"fetch", "save", "fill"} /\ pc'[k] = "failed"
                 /\ pc' = [pc EXCEPT ![k] = "failed"]
      BY <3>1, GoMoves, Zenon
    <3> QED BY <1>5, <3>1
  <2>2. /\ pc[k] \in Busy /\ "failed" \in (Busy \ {"begin"}) \cup Ended
        /\ pc[k] \in {"fetch", "save", "fill", "rename", "failed"}
    BY <2>1 DEF Busy, Ended
  <2>3. candles[k] = Basis(k)
    BY <2>2, PairFacts, Zenon DEF WorkerInOrder
  <2>4. WorkerInOrder(k)'
    BY <1>2, <2>1, <2>3 DEF WorkerInOrder
  <2> QED BY <1>1, <1>3, <2>1, <2>2, <2>4, QuietStep, Zenon
<1>6. CASE UpsertFails(k)
  <2>1. Go(k, "db", "load")
    BY <1>6, Zenon DEF UpsertFails
  <2>2. pc[k] = "db" /\ pc'[k] = "load" /\ pc' = [pc EXCEPT ![k] = "load"]
    BY <2>1, GoMoves, Zenon
  <2>3. /\ pc[k] \in Busy /\ "load" \in (Busy \ {"begin"}) \cup Ended
        /\ pc[k] \in {"db", "load"}
    BY <2>2 DEF Busy, Ended
  <2>4. LoadFile(k) = merged[k]
    BY <2>3, PairFacts, Zenon DEF WorkerInOrder
  <2>5. WorkerInOrder(k)'
    BY <1>2, <2>2, <2>4 DEF WorkerInOrder
  <2> QED BY <1>1, <1>3, <2>2, <2>3, <2>5, QuietStep, Zenon
<1> QED BY <1>4, <1>5, <1>6, Zenon
           DEF FetchFails, ContractNotExist, SaveFails

\* The read of the file makes the entry what the worker takes for the list on
\* disk.
LEMMA LoadExistingKeeps ==
  ASSUME IInv, NEW k \in AllKeys, LoadExisting(k) \/ LoadExistingFails(k)
  PROVE  IInv'
<1>1. /\ Go(k, "begin", "fetch")
      /\ UNCHANGED <<keys, dirty, fileVars, merged, invalid, mainVars, rows,
                     shown>>
  BY Zenon DEF LoadExisting, LoadExistingFails
<1>2. pc[k] = "begin" /\ pc'[k] = "fetch" /\ pc' = [pc EXCEPT ![k] = "fetch"]
  BY <1>1, GoMoves, Zenon
<1>3. pc[k] \in Busy /\ "fetch" \in (Busy \ {"begin"}) \cup Ended
  BY <1>2 DEF Busy, Ended
<1>4. LoadFile(k)' = LoadFile(k)
  BY <1>1, Zenon DEF fileVars, LoadFile
<1>5. CASE LoadExisting(k)
  <2>1. /\ candles' = [candles EXCEPT ![k] = LoadFile(k)]
        /\ unread' = unread
    BY <1>5, Zenon DEF LoadExisting
  <2>2. k \notin unread
    BY <1>2, Zenon DEF IInv, UnreadBegun
  <2>3. candles'[k] = LoadFile(k)
    BY <2>1, PairFacts, Zenon
  <2>4. candles'[k] = Basis(k)'
    BY <1>4, <2>1, <2>2, <2>3, Zenon DEF Basis
  <2>5. WorkerInOrder(k)'
    BY <1>2, <2>4 DEF WorkerInOrder
  <2>6. LoadFile(k) \in Seq(Candle) /\ unread \subseteq Unreadable
    BY PairFacts, Zenon
  <2> QED BY <1>1, <1>2, <1>3, <2>1, <2>5, <2>6, EntryStep, Zenon
<1>6. CASE LoadExistingFails(k)
  <2>1. /\ candles' = [candles EXCEPT ![k] = <<>>]
        /\ unread' = unread \cup {k} /\ k \in Unreadable
    BY <1>6, Zenon DEF LoadExistingFails
  <2>2. candles'[k] = <<>>
    BY <2>1, PairFacts, Zenon
  <2>3. candles'[k] = Basis(k)'
    BY <2>1, <2>2, Zenon DEF Basis
  <2>4. WorkerInOrder(k)'
    BY <1>2, <2>3 DEF WorkerInOrder
  <2>5. <<>> \in Seq(Candle)
    BY EmptyLists, Zenon
  <2>6. /\ unread' \subseteq Unreadable
        /\ \A j \in AllKeys \ {k} : j \in unread' <=> j \in unread
    BY <2>1, PairFacts, Zenon
  <2> QED BY <1>1, <1>2, <1>3, <2>1, <2>4, <2>5, <2>6, EntryStep, Zenon
<1> QED BY <1>5, <1>6, Zenon

\* The merged list covers the one the fetch started from.
LEMMA FetchKeeps ==
  ASSUME IInv, NEW k \in AllKeys, Fetch(k)
  PROVE  IInv'
<1>1. /\ Go(k, "fetch", "save")
      /\ keys' = keys /\ candles' = candles /\ dirty' = dirty
      /\ file' = file /\ tmp' = tmp /\ unread' = unread /\ invalid' = invalid
      /\ rows' = rows /\ shown' = shown /\ UNCHANGED mainVars
  BY Zenon DEF Fetch, storeVars, fileVars
<1>2. PICK now \in Now : \E answer \in Answers(Market, ComputeStart(candles[k], now)) :
        merged' = [merged EXCEPT ![k] = Merge(candles[k], FetchKline(answer))]
  BY Zenon DEF Fetch
<1>3. PICK answer \in Answers(Market, ComputeStart(candles[k], now)) :
        merged' = [merged EXCEPT ![k] = Merge(candles[k], FetchKline(answer))]
  BY <1>2
<1> DEFINE m == Merge(candles[k], FetchKline(answer))
<1>4. pc[k] = "fetch" /\ pc'[k] = "save" /\ pc' = [pc EXCEPT ![k] = "save"]
  BY <1>1, GoMoves, Zenon
<1>5. /\ pc[k] \in Busy /\ "save" \in (Busy \ {"begin"}) \cup Ended
      /\ pc[k] \in {"fetch", "save", "fill", "rename", "failed"}
  BY <1>4 DEF Busy, Ended
<1>6. candles[k] = Basis(k)
  BY <1>5, PairFacts, Zenon DEF WorkerInOrder
<1>7. Ascending(candles[k]) /\ Covers(Market, candles[k])
  BY <1>6, EmptyLists, PairFacts, Zenon DEF Basis
<1>8. /\ m \in Seq(Candle) /\ Ascending(m)
      /\ Covers(Market, m) /\ Covers(m, Basis(k))
  <2>1. shown \in 1..MaxShown
    BY Zenon DEF IInv, TypeOK
  <2>2. now \in Int
    <3>1. now \in Now
      OBVIOUS
    <3> QED BY <3>1 DEF Now
  <2>3. candles[k] \in Seq(Candle)
    BY PairFacts, Zenon
  <2> QED BY <1>6, <1>7, <2>1, <2>2, <2>3, MergedList, Zenon DEF Market
<1> HIDE DEF m
<1>9. /\ merged' \in [AllKeys -> Seq(Candle)] /\ merged'[k] = m
      /\ \A j \in AllKeys \ {k} : merged'[j] = merged[j]
  BY <1>3, <1>8, PairFacts, Zenon DEF m
<1>10. StepOf(k)
  BY <1>1, <1>4, <1>5, <1>9, Zenon DEF StepOf
<1>11. StepTyped'
  BY <1>1, <1>9, PairFacts, Zenon DEF StepTyped, FilesTypeOK
<1>12. LoadFile(k)' = LoadFile(k) /\ Market' = Market /\ Basis(k)' = Basis(k)
  BY <1>1, Zenon DEF LoadFile, Market, Basis
<1>13. WorkerInOrder(k)'
  BY <1>1, <1>4, <1>6, <1>8, <1>9, <1>12 DEF WorkerInOrder
<1>14. PairSound(k)'
  BY <1>1, <1>12, <1>13, PairFacts, Zenon DEF PairSound
<1> QED BY <1>10, <1>11, <1>14, StepKeeps, Zenon

\* SaveFile up to the rename: the temporary file comes to hold the list to
\* save.
LEMMA SavingKeeps ==
  ASSUME IInv, NEW k \in AllKeys,
         StartSave(k) \/ FillSave(k) \/ RenameFails(k)
  PROVE  IInv'
<1>1. /\ UNCHANGED <<storeVars, file, merged, invalid, unread, mainVars, rows,
                     shown>>
      /\ candles' = candles /\ merged' = merged /\ unread' = unread
      /\ LoadFile(k)' = LoadFile(k) /\ Basis(k)' = Basis(k)
      /\ Market' = Market
  BY Zenon DEF StartSave, FillSave, RenameFails, TruncateTmp, FillTmp,
               RemoveTmp, storeVars, LoadFile, Basis, Market
<1>2. ASSUME pc[k] \in {"save", "fill", "rename"}
      PROVE  /\ candles[k] = Basis(k)
             /\ Ascending(merged[k]) /\ Covers(Market, merged[k])
             /\ Covers(merged[k], Basis(k))
  <2>1. pc[k] \in {"fetch", "save", "fill", "rename", "failed"}
    BY <1>2
  <2> QED BY <1>2, <2>1, PairFacts, Zenon DEF WorkerInOrder
<1>3. CASE StartSave(k)
  <2>1. Go(k, "save", "fill") /\ tmp' = [tmp EXCEPT ![k] = TornFile]
    BY <1>3, Zenon DEF StartSave, TruncateTmp
  <2>2. pc[k] = "save" /\ pc'[k] = "fill" /\ pc' = [pc EXCEPT ![k] = "fill"]
    BY <2>1, GoMoves, Zenon
  <2>3. /\ pc[k] \in Busy /\ "fill" \in (Busy \ {"begin"}) \cup Ended
        /\ pc[k] \in {"save", "fill", "rename"}
    BY <2>2 DEF Busy, Ended
  <2>4. WorkerInOrder(k)'
    BY <1>1, <1>2, <2>2, <2>3 DEF WorkerInOrder
  <2> QED BY <1>1, <2>1, <2>2, <2>3, <2>4, FileStates, TmpStep, Zenon
<1>4. CASE FillSave(k)
  <2>1. /\ Go(k, "fill", "rename")
        /\ tmp' = [tmp EXCEPT ![k] = WholeFile(merged[k])]
    BY <1>4, Zenon DEF FillSave, FillTmp
  <2>2. pc[k] = "fill" /\ pc'[k] = "rename" /\ pc' = [pc EXCEPT ![k] = "rename"]
    BY <2>1, GoMoves, Zenon
  <2>3. /\ pc[k] \in Busy /\ "rename" \in (Busy \ {"begin"}) \cup Ended
        /\ pc[k] \in {"save", "fill", "rename"}
    BY <2>2 DEF Busy, Ended
  <2>4. WholeFile(merged[k]) \in FileState
    BY FileStates, PairFacts, Zenon
  <2>5. tmp'[k] = WholeFile(merged[k])
    BY <2>1, PairFacts, Zenon
  <2>6. WorkerInOrder(k)'
    BY <1>1, <1>2, <2>2, <2>3, <2>5 DEF WorkerInOrder
  <2> QED BY <1>1, <2>1, <2>2, <2>3, <2>4, <2>6, TmpStep, Zenon
<1>5. CASE RenameFails(k)
  <2>1. Go(k, "rename", "failed")
    BY <1>5, Zenon DEF RenameFails
  <2>2. /\ pc[k] = "rename" /\ pc'[k] = "failed"
        /\ pc' = [pc EXCEPT ![k] = "failed"]
    BY <2>1, GoMoves, Zenon
  <2>3. /\ pc[k] \in Busy /\ "failed" \in (Busy \ {"begin"}) \cup Ended
        /\ pc[k] \in {"save", "fill", "rename"}
    BY <2>2 DEF Busy, Ended
  <2>4. WorkerInOrder(k)'
    BY <1>1, <1>2, <2>2, <2>3 DEF WorkerInOrder
  <2>5. CASE tmp' = [tmp EXCEPT ![k] = NoFile]
    BY <1>1, <2>2, <2>3, <2>4, <2>5, FileStates, TmpStep, Zenon
  <2>6. CASE UNCHANGED tmp
    <3>1. UNCHANGED <<storeVars, fileVars, merged, unread, mainVars, rows,
                      shown>>
      BY <1>1, <2>6, Zenon DEF fileVars
    <3>2. invalid' \subseteq Symbols \ Listed
      BY <1>1, PairFacts, Zenon
    <3> QED BY <2>2, <2>3, <2>4, <3>1, <3>2, QuietStep, Zenon
  <2> QED BY <1>5, <2>5, <2>6, Zenon DEF RenameFails, RemoveTmp
<1> QED BY <1>3, <1>4, <1>5, Zenon

\* The rename puts a whole file in place, that covers the one it replaces
\* unless that could not be read.
LEMMA RenameMoves ==
  ASSUME IInv, NEW k \in AllKeys, RenameSave(k)
  PROVE  /\ file' = [file EXCEPT ![k] = WholeFile(merged[k])]
         /\ file'[k] = WholeFile(merged[k])
         /\ LoadFile(k)' = merged[k] /\ Ascending(merged[k])
         /\ Covers(Market, merged[k])
         /\ Covers(merged[k], Basis(k))
<1>1. /\ Go(k, "rename", IF useDB THEN "db" ELSE "load")
      /\ file' = [file EXCEPT ![k] = tmp[k]]
  BY Zenon DEF RenameSave, RenameTmp
<1>2. pc[k] = "rename"
  BY <1>1, Zenon DEF Go
<1>3. pc[k] \in {"save", "fill", "rename"}
  BY <1>2
<1>4. /\ tmp[k] = WholeFile(merged[k])
      /\ Ascending(merged[k]) /\ Covers(Market, merged[k])
      /\ Covers(merged[k], Basis(k))
  BY <1>2, <1>3, PairFacts, Zenon DEF WorkerInOrder
<1>5. file'[k] = WholeFile(merged[k])
  BY <1>1, <1>4, PairFacts, Zenon
<1>6. file'[k].st = "whole" /\ file'[k].list = merged[k]
  BY <1>5, FileStates, Zenon
<1>7. LoadFile(k)' = merged[k]
  BY <1>6, Zenon DEF LoadFile
<1> QED BY <1>1, <1>4, <1>5, <1>7, Zenon

\* So the file is the list to save from then on.
LEMMA RenameKeeps ==
  ASSUME IInv, NEW k \in AllKeys, RenameSave(k)
  PROVE  IInv'
<1> DEFINE to == IF useDB THEN "db" ELSE "load"
<1>1. /\ Go(k, "rename", to)
      /\ keys' = keys /\ candles' = candles /\ dirty' = dirty
      /\ tmp' = [tmp EXCEPT ![k] = NoFile]
      /\ merged' = merged /\ unread' = unread /\ invalid' = invalid
      /\ rows' = rows /\ shown' = shown /\ UNCHANGED mainVars
  BY Zenon DEF RenameSave, RenameTmp, storeVars
<1>2. /\ file' = [file EXCEPT ![k] = WholeFile(merged[k])]
      /\ LoadFile(k)' = merged[k] /\ Ascending(merged[k])
      /\ Covers(Market, merged[k])
  BY RenameMoves, Zenon
<1>3. to = "db" \/ to = "load"
  OBVIOUS
<1> HIDE DEF to
<1>4. pc[k] = "rename" /\ pc'[k] = to /\ pc' = [pc EXCEPT ![k] = to]
  BY <1>1, GoMoves, Zenon
<1>5. pc[k] \in Busy /\ to \in (Busy \ {"begin"}) \cup Ended
  BY <1>3, <1>4 DEF Busy, Ended
<1>6. WholeFile(merged[k]) \in FileState /\ NoFile \in FileState
  BY FileStates, PairFacts, Zenon
<1>7. /\ file' \in [AllKeys -> FileState] /\ tmp' \in [AllKeys -> FileState]
      /\ \A j \in AllKeys \ {k} : file'[j] = file[j] /\ tmp'[j] = tmp[j]
  BY <1>1, <1>2, <1>6, PairFacts, Zenon
<1>8. StepOf(k)
  BY <1>1, <1>4, <1>5, <1>7, Zenon DEF StepOf
<1>9. StepTyped'
  BY <1>1, <1>7, PairFacts, Zenon DEF StepTyped, FilesTypeOK
<1>10. LoadFile(k)' = merged'[k] /\ Market' = Market
  BY <1>1, <1>2, Zenon DEF Market
<1>11. WorkerInOrder(k)'
  BY <1>3, <1>4, <1>10 DEF WorkerInOrder
<1>12. PairSound(k)'
  BY <1>1, <1>2, <1>10, <1>11, PairFacts, Zenon DEF PairSound
<1> QED BY <1>8, <1>9, <1>12, StepKeeps, Zenon

\* The table's rows stay in order.
LEMMA UpsertRowsKeeps ==
  ASSUME IInv, NEW k \in AllKeys, UpsertRows(k)
  PROVE  IInv'
<1>1. /\ Go(k, "db", "load")
      /\ rows' = [rows EXCEPT ![k] = Merge(rows[k], merged[k])]
      /\ keys' = keys /\ candles' = candles /\ dirty' = dirty
      /\ file' = file /\ tmp' = tmp /\ merged' = merged /\ unread' = unread
      /\ invalid' = invalid /\ shown' = shown /\ UNCHANGED mainVars
  BY Zenon DEF UpsertRows, storeVars, fileVars
<1>2. pc[k] = "db" /\ pc'[k] = "load" /\ pc' = [pc EXCEPT ![k] = "load"]
  BY <1>1, GoMoves, Zenon
<1>3. /\ pc[k] \in Busy /\ "load" \in (Busy \ {"begin"}) \cup Ended
      /\ pc[k] \in {"db", "load"}
  BY <1>2 DEF Busy, Ended
<1>4. LoadFile(k) = merged[k] /\ Ascending(LoadFile(k))
  BY <1>3, PairFacts, Zenon DEF WorkerInOrder
<1>5. /\ rows[k] \in Seq(Candle) /\ Ascending(rows[k])
      /\ merged[k] \in Seq(Candle) /\ Ascending(merged[k])
  BY <1>4, PairFacts, Zenon
<1>6. /\ Merge(rows[k], merged[k]) \in Seq(Candle)
      /\ Ascending(Merge(rows[k], merged[k]))
  BY <1>5, MergeContents, Zenon
<1>7. /\ rows' \in [AllKeys -> Seq(Candle)] /\ Ascending(rows'[k])
      /\ \A j \in AllKeys \ {k} : rows'[j] = rows[j]
  BY <1>1, <1>6, PairFacts, Zenon
<1>8. StepOf(k)
  BY <1>1, <1>2, <1>3, <1>7, Zenon DEF StepOf
<1>9. StepTyped'
  BY <1>1, <1>7, PairFacts, Zenon DEF StepTyped, FilesTypeOK
<1>10. LoadFile(k)' = LoadFile(k) /\ Market' = Market
  BY <1>1, Zenon DEF LoadFile, Market
<1>11. WorkerInOrder(k)'
  BY <1>1, <1>2, <1>4, <1>10 DEF WorkerInOrder
<1>12. PairSound(k)'
  BY <1>1, <1>7, <1>10, <1>11, PairFacts, Zenon DEF PairSound
<1> QED BY <1>8, <1>9, <1>12, StepKeeps, Zenon

\* The entry becomes what was saved.
LEMMA LoadMergedKeeps ==
  ASSUME IInv, NEW k \in AllKeys, LoadMerged(k)
  PROVE  IInv'
<1>1. /\ Go(k, "load", "loaded")
      /\ candles' = [candles EXCEPT ![k] = merged[k]]
      /\ UNCHANGED <<keys, dirty, fileVars, merged, invalid, mainVars, rows,
                     shown>>
      /\ unread' = unread
  BY Zenon DEF LoadMerged
<1>2. pc[k] = "load" /\ pc'[k] = "loaded" /\ pc' = [pc EXCEPT ![k] = "loaded"]
  BY <1>1, GoMoves, Zenon
<1>3. /\ pc[k] \in Busy /\ "loaded" \in (Busy \ {"begin"}) \cup Ended
      /\ pc[k] \in {"db", "load"}
  BY <1>2 DEF Busy, Ended
<1>4. LoadFile(k) = merged[k] /\ merged[k] \in Seq(Candle)
  BY <1>3, PairFacts, Zenon DEF WorkerInOrder
<1>5. LoadFile(k)' = LoadFile(k)
  BY <1>1, Zenon DEF LoadFile, fileVars
<1>6. candles'[k] = LoadFile(k)'
  BY <1>1, <1>4, <1>5, PairFacts, Zenon
<1>7. WorkerInOrder(k)'
  BY <1>2, <1>6 DEF WorkerInOrder
<1>8. unread' \subseteq Unreadable
  BY <1>1, PairFacts, Zenon
<1> QED BY <1>1, <1>2, <1>3, <1>4, <1>7, <1>8, EntryStep, Zenon

\* Every step of a worker keeps the invariant.
LEMMA WorkKeeps == IInv /\ (\E k \in AllKeys : Work(k)) => IInv'
BY FailuresKeep, LoadExistingKeeps, FetchKeeps, SavingKeeps, RenameKeeps,
   UpsertRowsKeeps, LoadMergedKeeps, Zenon DEF Work, OwnStep

-----------------------------------------------------------------------------
(* main.                                                                   *)

\* What stays of the invariant when only the state of main moves.
LEMMA MainSteps ==
  ASSUME IInv,
         UNCHANGED <<storeVars, fileVars, workVars, useDB, next, starts, rows,
                     shown>>,
         main' \in {"off", "launching", "waiting", "live", "exited"},
         cancelled' \in BOOLEAN, subscribed' \subseteq Symbols,
         AllLaunched', LiveQuietly',
         main \in {"off", "exited"} => main' \in {"off", "exited"}
  PROVE  IInv'
<1>1. /\ keys' = keys /\ candles' = candles /\ dirty' = dirty
      /\ file' = file /\ tmp' = tmp /\ pc' = pc /\ merged' = merged
      /\ invalid' = invalid /\ unread' = unread /\ useDB' = useDB
      /\ next' = next /\ starts' = starts /\ rows' = rows /\ shown' = shown
  BY Zenon DEF storeVars, fileVars, workVars
<1>2. Running' = Running
  BY <1>1, Zenon DEF Running
<1>3. TypeOK'
  BY <1>1, <1>2, Zenon DEF IInv, TypeOK, StoreTypeOK, FilesTypeOK
<1>4. \A k \in AllKeys : LoadFile(k)' = LoadFile(k) /\ Basis(k)' = Basis(k)
  BY <1>1, Zenon DEF LoadFile, Basis
<1>5. Market' = Market
  BY <1>1, Zenon DEF Market
<1>6. FilesSound'
  BY <1>1, <1>4, <1>5, Zenon DEF IInv, FilesSound
<1>7. UnreadBegun'
  BY <1>1, Zenon DEF IInv, UnreadBegun
<1>8. WorkersInOrder'
  BY <1>1, <1>4, <1>5, Zenon DEF IInv, WorkersInOrder, WorkerInOrder
<1> QED BY <1>3, <1>6, <1>7, <1>8, Zenon DEF IInv

\* The launch loop ends when all workers are launched or ctx is done.
LEMMA EndLaunchKeeps == IInv /\ EndLaunch => IInv'
<1> SUFFICES ASSUME IInv, EndLaunch PROVE IInv'
  OBVIOUS
<1>1. /\ main = "launching" /\ main' = "waiting"
      /\ next > Len(Order) \/ cancelled
      /\ cancelled' = cancelled /\ subscribed' = subscribed
      /\ next' = next /\ pc' = pc
      /\ UNCHANGED <<storeVars, fileVars, workVars, useDB, next, starts, rows,
                     shown>>
  BY Zenon DEF EndLaunch, workVars
<1>2. /\ main' \in {"off", "launching", "waiting", "live", "exited"}
      /\ main \notin {"off", "exited"} /\ main' # "live"
      /\ main' \in {"launching", "waiting"}
      /\ main \in {"launching", "waiting", "live"}
  BY <1>1
<1>3. cancelled \in BOOLEAN /\ subscribed \subseteq Symbols
  BY Zenon DEF IInv, TypeOK
<1>4. AllLaunched' /\ LiveQuietly'
  BY <1>1, <1>2, Zenon DEF IInv, AllLaunched, LiveQuietly
<1> QED BY <1>1, <1>2, <1>3, <1>4, MainSteps, Zenon

\* The live phase starts when the workers have ended ...
LEMMA GoLiveKeeps == IInv /\ GoLive => IInv'
<1> SUFFICES ASSUME IInv, GoLive PROVE IInv'
  OBVIOUS
<1>1. /\ main = "waiting" /\ main' = "live" /\ ~cancelled /\ Running = {}
      /\ cancelled' = cancelled /\ subscribed' = WithData
      /\ next' = next /\ pc' = pc /\ candles' = candles
      /\ UNCHANGED <<storeVars, fileVars, workVars, useDB, next, starts, rows,
                     shown>>
  BY Zenon DEF GoLive, workVars, storeVars
<1>2. /\ main' \in {"off", "launching", "waiting", "live", "exited"}
      /\ main \notin {"off", "exited"} /\ main \in {"waiting", "live"}
      /\ main \in {"launching", "waiting", "live"}
  BY <1>1
<1>3. cancelled \in BOOLEAN
  BY Zenon DEF IInv, TypeOK
<1>4. WithData \subseteq Symbols
  <2>1. SymbolOf \in [AllKeys -> Range(SymbolOf)]
    BY BootstrapAssumption
  <2> QED BY <2>1, Zenon DEF WithData, Symbols
<1>5. WithData' = WithData /\ Running' = Running
  BY <1>1, Zenon DEF WithData, Running
<1>6. AllLaunched' /\ LiveQuietly'
  BY <1>1, <1>2, <1>5, Zenon DEF IInv, AllLaunched, LiveQuietly
<1> QED BY <1>1, <1>2, <1>3, <1>4, <1>6, MainSteps, Zenon

\* ... or the process exits.
LEMMA LeaveKeeps == IInv /\ Leave => IInv'
<1> SUFFICES ASSUME IInv, Leave PROVE IInv'
  OBVIOUS
<1>1. /\ main = "waiting" /\ main' = "exited" /\ Running = {}
      /\ cancelled' = cancelled /\ subscribed' = subscribed /\ pc' = pc
      /\ UNCHANGED <<storeVars, fileVars, workVars, useDB, next, starts, rows,
                     shown>>
  BY Zenon DEF Leave, workVars
<1>2. /\ main' \in {"off", "launching", "waiting", "live", "exited"}
      /\ main' \in {"off", "exited"}
      /\ main' \notin {"launching", "waiting", "live"} /\ main' # "live"
      /\ main' \notin {"waiting", "live"}
  BY <1>1
<1>3. cancelled \in BOOLEAN /\ subscribed \subseteq Symbols
  BY Zenon DEF IInv, TypeOK
<1>4. Running' = {}
  BY <1>1, Zenon DEF Running
<1>5. AllLaunched' /\ LiveQuietly'
  BY <1>2, <1>4, Zenon DEF AllLaunched, LiveQuietly
<1> QED BY <1>1, <1>2, <1>3, <1>5, MainSteps, Zenon

\* A signal during Bootstrap only cuts the launch loop short.
LEMMA CancelKeeps == IInv /\ Cancel => IInv'
<1> SUFFICES ASSUME IInv, Cancel PROVE IInv'
  OBVIOUS
<1>1. /\ main \in {"launching", "waiting"} /\ main' = main /\ cancelled' = TRUE
      /\ subscribed' = subscribed /\ pc' = pc /\ next' = next
      /\ UNCHANGED <<storeVars, fileVars, workVars, useDB, next, starts, rows,
                     shown>>
  BY Zenon DEF Cancel, workVars
<1>2. main # "live"
  BY <1>1
<1>3. /\ main \in {"off", "launching", "waiting", "live", "exited"}
      /\ subscribed \subseteq Symbols
  BY Zenon DEF IInv, TypeOK
<1>4. AllLaunched' /\ LiveQuietly'
  BY <1>1, <1>2, Zenon DEF IInv, AllLaunched, LiveQuietly
<1> QED BY <1>1, <1>3, <1>4, MainSteps, Zenon

\* Nothing moves.
LEMMA RestKeeps == IInv /\ UNCHANGED vars => IInv'
<1> SUFFICES ASSUME IInv, UNCHANGED vars PROVE IInv'
  OBVIOUS
<1>1. /\ main' = main /\ cancelled' = cancelled /\ subscribed' = subscribed
      /\ pc' = pc /\ next' = next /\ candles' = candles
      /\ UNCHANGED <<storeVars, fileVars, workVars, useDB, next, starts, rows,
                     shown>>
  BY Zenon DEF vars, mainVars, workVars, storeVars
<1>2. /\ main \in {"off", "launching", "waiting", "live", "exited"}
      /\ cancelled \in BOOLEAN /\ subscribed \subseteq Symbols
  BY Zenon DEF IInv, TypeOK
<1>3. WithData' = WithData /\ Running' = Running
  BY <1>1, Zenon DEF WithData, Running
<1>4. AllLaunched' /\ LiveQuietly'
  BY <1>1, <1>3, Zenon DEF IInv, AllLaunched, LiveQuietly
<1> QED BY <1>1, <1>2, <1>4, MainSteps, Zenon

\* The loop launches a worker when there is a slot.
LEMMA LaunchKeeps == IInv /\ Launch => IInv'
<1> SUFFICES ASSUME IInv, Launch PROVE IInv'
  OBVIOUS
<1> DEFINE k == Order[next]
<1>1. /\ main = "launching" /\ next <= Len(Order)
      /\ Cardinality(Running) < Workers
      /\ pc' = [pc EXCEPT ![k] = "begin"] /\ next' = next + 1
      /\ keys' = keys /\ candles' = candles /\ dirty' = dirty
      /\ file' = file /\ tmp' = tmp /\ merged' = merged
      /\ invalid' = invalid /\ unread' = unread /\ main' = main
      /\ cancelled' = cancelled /\ useDB' = useDB
      /\ subscribed' = subscribed /\ starts' = starts
      /\ rows' = rows /\ shown' = shown
  BY Zenon DEF Launch, storeVars, fileVars
<1>2. /\ TypeOK /\ FilesSound /\ AllLaunched /\ UnreadBegun /\ WorkersInOrder
  BY Zenon DEF IInv
<1>3. next \in 1..Len(Order) /\ next \in Nat /\ Len(Order) \in Nat
  <2>1. next \in 1..Len(Order) + 1
    BY <1>2, Zenon DEF TypeOK
  <2> QED BY <1>1, <2>1, FiniteKeys
<1>4. /\ \A i \in 1..Len(Order) : Order[i] \in AllKeys
      /\ \A i, j \in 1..Len(Order) : Order[i] = Order[j] => i = j
  <2>1. Order \in Seq(AllKeys) /\ IsInjective(Order)
    BY BootstrapAssumption
  <2>2. DOMAIN Order = 1..Len(Order)
    BY <2>1, LenProperties
  <2>3. \A i \in 1..Len(Order) : Order[i] \in AllKeys
    BY <2>1, ElementOfSeq
  <2>4. \A i, j \in DOMAIN Order : Order[i] = Order[j] => i = j
    BY <2>1, Zenon DEF IsInjective
  <2> QED BY <2>2, <2>3, <2>4, Zenon
<1>5. k \in AllKeys
  BY <1>3, <1>4, Zenon
<1>6. \A i \in 1..Len(Order) : pc[Order[i]] = "idle" <=> i >= next
  BY <1>1, <1>2 DEF AllLaunched
<1>7. pc[k] = "idle"
  <2>1. next >= next
    BY <1>3
  <2> QED BY <1>3, <1>6, <2>1, Zenon
<1>8. "begin" \in Busy /\ "begin" # "idle" /\ "begin" \in {"begin"}
  BY DEF Busy
<1>9. pc \in [AllKeys -> {"idle"} \cup Busy \cup Ended]
  BY <1>2, Zenon DEF TypeOK
<1> HIDE DEF k
<1>10. /\ pc'[k] = "begin" /\ \A j \in AllKeys \ {k} : pc'[j] = pc[j]
       /\ pc' \in [AllKeys -> {"idle"} \cup Busy \cup Ended]
  BY <1>1, <1>5, <1>8, <1>9, Zenon
<1>11. Running' \subseteq Running \cup {k}
  BY <1>10, Zenon DEF Running
<1>12. TypeOK'
  <2>1. Cardinality(Running') <= Workers
    BY <1>1, <1>5, <1>11, OneMoreRunning, Zenon
  <2>2. next' \in 1..Len(Order) + 1
    BY <1>1, <1>3
  <2> QED BY <1>1, <1>2, <1>10, <2>1, <2>2, Zenon
             DEF TypeOK, StoreTypeOK, FilesTypeOK
<1>13. /\ \A j \in AllKeys : LoadFile(j)' = LoadFile(j) /\ Basis(j)' = Basis(j)
       /\ Market' = Market
  BY <1>1, Zenon DEF LoadFile, Basis, Market
<1>14. FilesSound'
  BY <1>1, <1>2, <1>13, Zenon DEF FilesSound
<1>15. AllLaunched' /\ LiveQuietly'
  <2>1. /\ main \in {"launching", "waiting"} /\ main # "live"
        /\ main \notin {"waiting", "live"}
    BY <1>1
  <2>2. ASSUME NEW i \in 1..Len(Order)
        PROVE  pc'[Order[i]] = "idle" <=> i >= next + 1
    <3>1. CASE i = next
      <4>1. pc'[Order[i]] # "idle"
        BY <1>8, <1>10, <3>1, Zenon DEF k
      <4>2. ~(i >= next + 1)
        BY <1>3, <3>1
      <4> QED BY <4>1, <4>2, Zenon
    <3>2. CASE i # next
      <4>1. Order[i] # k /\ Order[i] \in AllKeys
        BY <1>3, <1>4, <3>2, Zenon DEF k
      <4>2. pc'[Order[i]] = pc[Order[i]]
        BY <1>10, <4>1, Zenon
      <4>3. i >= next <=> i >= next + 1
        BY <1>3, <3>2
      <4> QED BY <1>6, <4>2, <4>3, Zenon
    <3> QED BY <3>1, <3>2, Zenon
  <2> QED BY <1>1, <2>1, <2>2, Zenon DEF AllLaunched, LiveQuietly
<1>16. k \notin unread
  <2>1. main \notin {"off", "exited"}
    BY <1>1
  <2> QED BY <1>2, <1>7, <2>1, Zenon DEF UnreadBegun
<1>17. UnreadBegun'
  <2> SUFFICES ASSUME NEW j \in unread
               PROVE  /\ pc'[j] # "begin"
                      /\ pc'[j] = "idle" => main \in {"off", "exited"}
    BY <1>1, Zenon DEF UnreadBegun
  <2>1. j \in AllKeys /\ j # k
    <3>1. Unreadable \subseteq AllKeys
      BY BootstrapAssumption
    <3> QED BY <1>2, <1>16, <3>1, Zenon DEF TypeOK
  <2> QED BY <1>2, <1>10, <2>1, Zenon DEF UnreadBegun
<1>18. WorkersInOrder'
  <2> SUFFICES ASSUME NEW j \in AllKeys PROVE WorkerInOrder(j)'
    BY Zenon DEF WorkersInOrder
  <2>1. CASE j = k
    BY <1>10, <2>1 DEF WorkerInOrder
  <2>2. CASE j # k
    <3>1. WorkerInOrder(j) /\ pc'[j] = pc[j]
      BY <1>2, <1>10, <2>2, Zenon DEF WorkersInOrder
    <3> QED BY <1>1, <1>13, <3>1, Zenon DEF WorkerInOrder
  <2> QED BY <2>1, <2>2, Zenon
<1> QED BY <1>12, <1>14, <1>15, <1>17, <1>18, Zenon DEF IInv

-----------------------------------------------------------------------------
(* New processes, kills, the exchange.                                     *)

\* What stays of the invariant when no worker runs or has run.
LEMMA NoWorkers ==
  ASSUME IInv, UNCHANGED <<fileVars, rows, shown>>,
         pc' = [k \in AllKeys |-> "idle"],
         main' = "launching" => next' = 1 /\ unread' = {},
         main' \in {"off", "launching"},
         keys' \subseteq AllKeys, dirty' = {},
         candles' \in [AllKeys -> Seq(Candle)],
         merged' \in [AllKeys -> Seq(Candle)],
         cancelled' \in BOOLEAN, useDB' \in BOOLEAN,
         next' \in 1..Len(Order) + 1, starts' \in 0..MaxStarts,
         invalid' \subseteq Symbols \ Listed, unread' \subseteq Unreadable,
         subscribed' \subseteq Symbols
  PROVE  IInv'
<1>1. file' = file /\ tmp' = tmp /\ rows' = rows /\ shown' = shown
  BY Zenon DEF fileVars
<1>2. \A k \in AllKeys : pc'[k] = "idle"
  BY Zenon
<1>3. Running' = {}
  <2>1. "idle" \notin Busy
    BY DEF Busy
  <2> QED BY <1>2, <2>1, Zenon DEF Running
<1>4. TypeOK'
  <2>1. main' \in {"off", "launching", "waiting", "live", "exited"}
    OBVIOUS
  <2>2. pc' \in [AllKeys -> {"idle"} \cup Busy \cup Ended]
    BY Zenon
  <2>3. Cardinality(Running') <= Workers
    <3>1. Cardinality(Running') = 0
      BY <1>3, FS_EmptySet
    <3> QED BY <3>1, BootstrapAssumption
  <2>4. dirty' \subseteq keys'
    OBVIOUS
  <2> QED BY <1>1, <2>1, <2>2, <2>3, <2>4, Zenon
          DEF IInv, TypeOK, StoreTypeOK, FilesTypeOK
<1>5. FilesSound'
  <2>1. \A k \in AllKeys : LoadFile(k)' = LoadFile(k)
    BY <1>1, Zenon DEF LoadFile
  <2>2. Market' = Market
    BY <1>1, Zenon DEF Market
  <2> QED BY <1>1, <2>1, <2>2, Zenon DEF IInv, FilesSound
<1>6. AllLaunched'
  <2>1. main' \notin {"waiting", "live"}
    OBVIOUS
  <2>2. ASSUME main' \in {"launching", "waiting", "live"}
        PROVE  \A i \in 1..Len(Order) : pc'[Order[i]] = "idle" <=> i >= next'
    <3>1. next' = 1
      BY <2>2
    <3>2. \A i \in 1..Len(Order) : Order[i] \in AllKeys /\ i >= 1
      BY BootstrapAssumption, ElementOfSeq
    <3> QED BY <1>2, <3>1, <3>2, Zenon
  <2> QED BY <2>1, <2>2, Zenon DEF AllLaunched
<1>7. LiveQuietly'
  <2>1. main' # "live"
    OBVIOUS
  <2> QED BY <1>3, <2>1, Zenon DEF LiveQuietly
<1>8. UnreadBegun'
  <2>1. unread' # {} => main' \in {"off", "exited"}
    OBVIOUS
  <2>2. \A k \in unread' : pc'[k] # "begin"
    <3>1. Unreadable \subseteq AllKeys /\ "idle" # "begin"
      BY BootstrapAssumption
    <3> QED BY <1>2, <3>1, Zenon
  <2> QED BY <2>1, <2>2, Zenon DEF UnreadBegun
<1>9. WorkersInOrder'
  <2> SUFFICES ASSUME NEW k \in AllKeys PROVE WorkerInOrder(k)'
    BY Zenon DEF WorkersInOrder
  <2>1. pc'[k] = "idle"
    BY <1>2
  <2> QED BY <2>1 DEF WorkerInOrder
<1> QED BY <1>4, <1>5, <1>6, <1>7, <1>8, <1>9, Zenon DEF IInv

\* A kill ends the workers wherever they are.
LEMMA KillKeeps == IInv /\ Kill => IInv'
<1> SUFFICES ASSUME IInv, Kill PROVE IInv'
  OBVIOUS
<1>1. /\ main' = "off" /\ pc' = [k \in AllKeys |-> "idle"]
      /\ UNCHANGED <<fileVars, rows, shown>>
      /\ keys' = keys /\ candles' = candles /\ dirty' = dirty
      /\ merged' = merged /\ invalid' = invalid /\ unread' = unread
      /\ cancelled' = cancelled /\ useDB' = useDB /\ next' = next
      /\ subscribed' = subscribed /\ starts' = starts
  BY Zenon DEF Kill, storeVars
<1>2. main' # "launching" /\ main' \in {"off", "launching"}
  BY <1>1
<1>3. /\ keys \subseteq AllKeys /\ dirty = {}
      /\ candles \in [AllKeys -> Seq(Candle)]
      /\ merged \in [AllKeys -> Seq(Candle)]
      /\ cancelled \in BOOLEAN /\ useDB \in BOOLEAN
      /\ next \in 1..Len(Order) + 1 /\ starts \in 0..MaxStarts
      /\ invalid \subseteq Symbols \ Listed /\ unread \subseteq Unreadable
      /\ subscribed \subseteq Symbols
  BY Zenon DEF IInv, TypeOK, StoreTypeOK
<1> QED BY <1>1, <1>2, <1>3, NoWorkers, Zenon

\* A new process starts its store from the table or the files.
LEMMA BootKeeps == IInv /\ Boot => IInv'
<1> SUFFICES ASSUME IInv, Boot PROVE IInv'
  OBVIOUS
<1>1. /\ starts < MaxStarts /\ starts' = starts + 1
      /\ useDB' \in BOOLEAN /\ Preload(useDB')
      /\ main' = "launching" /\ cancelled' = FALSE /\ next' = 1
      /\ pc' = [k \in AllKeys |-> "idle"] /\ merged' = NoCandles
      /\ invalid' = {} /\ unread' = {} /\ subscribed' = {}
      /\ UNCHANGED <<fileVars, rows, shown>>
  BY Zenon DEF Boot
<1>2. \A k \in AllKeys : LoadLatest(k) \in Seq(Candle)
  <2> SUFFICES ASSUME NEW k \in AllKeys PROVE LoadLatest(k) \in Seq(Candle)
    OBVIOUS
  <2> DEFINE r == rows[k]
             limit == IF BootstrapLimit <= 0 THEN 2000 ELSE BootstrapLimit
             first == IF Len(r) > limit THEN Len(r) - limit + 1 ELSE 1
  <2>1. r \in Seq(Candle)
    BY PairFacts, Zenon
  <2>2. LoadLatest(k) = SubSeq(r, first, Len(r))
    BY DEF LoadLatest
  <2>3. limit \in Nat
    BY RestAssumption
  <2> HIDE DEF r, limit
  <2>4. Len(r) \in Nat
    BY <2>1, LenProperties
  <2>5. first \in Nat /\ first >= 1
    BY <2>3, <2>4
  <2> HIDE DEF first
  <2>6. \A i \in first..Len(r) : r[i] \in Candle
    <3>1. \A i \in first..Len(r) : i \in 1..Len(r)
      BY <2>4, <2>5
    <3> QED BY <2>1, <3>1, ListElements, Zenon
  <2>7. SubSeq(r, first, Len(r)) \in Seq(Candle)
    BY <2>4, <2>5, <2>6, SubSeqProperties
  <2> QED BY <2>2, <2>7, Zenon
<1>3. /\ keys' = AllKeys /\ dirty' = {}
      /\ candles' \in [AllKeys -> Seq(Candle)]
  <2>1. PICK failed :
          LoadEntries(AllKeys,
            [k \in AllKeys |-> IF k \in failed THEN <<>>
                               ELSE IF useDB' THEN LoadLatest(k)
                               ELSE LoadFile(k)])
    BY <1>1, Zenon DEF Preload
  <2> DEFINE lists ==
        [k \in AllKeys |-> IF k \in failed THEN <<>>
                           ELSE IF useDB' THEN LoadLatest(k) ELSE LoadFile(k)]
  <2>2. \A k \in AllKeys : lists[k] \in Seq(Candle)
    <3>1. \A k \in AllKeys : LoadFile(k) \in Seq(Candle)
      BY PairFacts, Zenon
    <3> QED BY <1>2, <3>1, EmptyLists, Zenon
  <2> HIDE DEF lists
  <2>3. /\ keys' = AllKeys /\ dirty' = {}
        /\ candles' =
             [k \in AllKeys |-> IF k \in AllKeys THEN lists[k] ELSE <<>>]
    BY <2>1, Zenon DEF LoadEntries, lists
  <2> QED BY <2>2, <2>3, EmptyLists, Zenon
<1>4. starts' \in 0..MaxStarts /\ next' \in 1..Len(Order) + 1
  <2>1. starts \in 0..MaxStarts
    BY Zenon DEF IInv, TypeOK
  <2> QED BY <1>1, <2>1, FiniteKeys, BootstrapAssumption
<1>5. /\ main' \in {"off", "launching"} /\ cancelled' \in BOOLEAN
      /\ invalid' \subseteq Symbols \ Listed /\ unread' \subseteq Unreadable
      /\ subscribed' \subseteq Symbols /\ keys' \subseteq AllKeys
  BY <1>1, <1>3
<1>6. merged' \in [AllKeys -> Seq(Candle)]
  BY <1>1, EmptyLists, Zenon
<1> QED BY <1>1, <1>3, <1>4, <1>5, <1>6, NoWorkers, Zenon

\* The exchange shows newer content of every candle it showed, so what the
\* files hold is still not ahead of it.
LEMMA ExchangeMovesKeeps == IInv /\ ExchangeMoves => IInv'
<1> SUFFICES ASSUME IInv, ExchangeMoves PROVE IInv'
  OBVIOUS
<1>1. /\ main \in {"off", "exited"} /\ shown < MaxShown /\ shown' = shown + 1
      /\ keys' = keys /\ candles' = candles /\ dirty' = dirty
      /\ file' = file /\ tmp' = tmp /\ pc' = pc /\ merged' = merged
      /\ invalid' = invalid /\ unread' = unread /\ main' = main
      /\ cancelled' = cancelled /\ useDB' = useDB /\ next' = next
      /\ subscribed' = subscribed /\ starts' = starts /\ rows' = rows
  BY Zenon DEF ExchangeMoves, storeVars, fileVars, workVars, mainVars
<1>2. /\ TypeOK /\ FilesSound /\ LiveQuietly /\ UnreadBegun /\ WorkersInOrder
  BY Zenon DEF IInv
<1>3. shown \in 1..MaxShown /\ shown' \in 1..MaxShown
  <2>1. shown \in 1..MaxShown
    BY <1>2, Zenon DEF TypeOK
  <2> QED BY <1>1, <2>1, BootstrapAssumption
<1>4. Running' = Running
  BY <1>1, Zenon DEF Running
<1>5. TypeOK'
  BY <1>1, <1>2, <1>3, <1>4, Zenon DEF TypeOK, StoreTypeOK, FilesTypeOK
<1>6. \A k \in AllKeys : LoadFile(k)' = LoadFile(k) /\ Basis(k)' = Basis(k)
  BY <1>1, Zenon DEF LoadFile, Basis
<1>7. ASSUME NEW k \in AllKeys PROVE Covers(Market', LoadFile(k))
  <2>1. Market = MarketOf(shown) /\ Market' = MarketOf(shown + 1)
    BY <1>1, Zenon DEF Market
  <2>2. Covers(MarketOf(shown + 1), MarketOf(shown))
    BY <1>1, <1>3, MarketGrows, Zenon
  <2>3. MarketOf(shown) \in Seq(Candle) /\ MarketOf(shown + 1) \in Seq(Candle)
    BY <1>1, <1>3, MarketIsList, Zenon
  <2>4. LoadFile(k) \in Seq(Candle) /\ Covers(Market, LoadFile(k))
    BY PairFacts, Zenon
  <2> QED BY <2>1, <2>2, <2>3, <2>4, CoversTransitive, Zenon
<1>8. FilesSound'
  BY <1>1, <1>2, <1>6, <1>7, Zenon DEF FilesSound
<1>9. AllLaunched' /\ LiveQuietly'
  <2>1. /\ main \notin {"launching", "waiting", "live"} /\ main # "live"
        /\ main \notin {"waiting", "live"}
        /\ main \notin {"launching", "waiting"}
    BY <1>1
  <2> QED BY <1>1, <1>2, <1>4, <2>1, Zenon DEF AllLaunched, LiveQuietly
<1>10. UnreadBegun'
  BY <1>1, <1>2, Zenon DEF UnreadBegun
<1>11. WorkersInOrder'
  <2> SUFFICES ASSUME NEW k \in AllKeys PROVE WorkerInOrder(k)'
    BY Zenon DEF WorkersInOrder
  <2>1. WorkerInOrder(k)
    BY <1>2, Zenon DEF WorkersInOrder
  <2>2. pc[k] \notin {"save", "fill", "rename"}
    <3>1. main \notin {"launching", "waiting"}
      BY <1>1
    <3>2. pc[k] \notin Busy
      BY <1>2, <3>1, Zenon DEF LiveQuietly, Running
    <3> QED BY <3>2 DEF Busy
  <2>3. pc[k] # "rename"
    BY <2>2
  <2> QED BY <1>1, <1>6, <2>1, <2>2, <2>3, Zenon DEF WorkerInOrder
<1> QED BY <1>5, <1>8, <1>9, <1>10, <1>11, Zenon DEF IInv

-----------------------------------------------------------------------------
\* The invariant holds throughout.
THEOREM Invariance == Spec => []IInv
<1>1. Init => IInv
  BY InitIInv
<1>2. IInv /\ [Next]_vars => IInv'
  BY BootKeeps, LaunchKeeps, EndLaunchKeeps, GoLiveKeeps, LeaveKeeps,
     WorkKeeps, CancelKeeps, KillKeeps, ExchangeMovesKeeps, RestKeeps, Zenon
     DEF Next, Main, Finished
<1> QED BY <1>1, <1>2, PTL DEF Spec

\* No more workers run than the semaphore has slots, and every variable keeps
\* its type.
THEOREM TypeCorrect == Spec => []TypeOK
<1>1. IInv => TypeOK
  BY Zenon DEF IInv
<1> QED BY <1>1, Invariance, PTL

\* The live phase starts from the files, whatever failed in the bootstrap and
\* whatever earlier starts left.
THEOREM LiveFromFiles == Spec => []LiveStartsFromFiles
<1>1. IInv => LiveStartsFromFiles
  <2> SUFFICES ASSUME IInv, main = "live"
               PROVE  /\ Running = {}
                      /\ \A k \in AllKeys :
                           /\ pc[k] # "skipped"
                           /\ k \in unread => pc[k] = "loaded"
                           => /\ candles[k] = LoadFile(k)
                              /\ candles[k] # <<>>
                                   => SymbolOf[k] \in subscribed
    BY Zenon DEF LiveStartsFromFiles
  <2>1. /\ main \notin {"launching", "waiting"}
        /\ main \in {"launching", "waiting", "live"}
        /\ main \in {"waiting", "live"}
    OBVIOUS
  <2>2. Running = {} /\ ~cancelled /\ subscribed = WithData
    BY <2>1, Zenon DEF IInv, LiveQuietly
  <2>3. /\ \A i \in 1..Len(Order) : pc[Order[i]] = "idle" <=> i >= next
        /\ next > Len(Order)
    BY <2>1, <2>2, Zenon DEF IInv, AllLaunched
  <2>4. \A k \in AllKeys : pc[k] # "idle"
    <3> SUFFICES ASSUME NEW k \in AllKeys PROVE pc[k] # "idle"
      OBVIOUS
    <3>1. PICK i \in 1..Len(Order) : k = Order[i]
      <4>1. Order \in Seq(AllKeys) /\ AllKeys = ToSet(Order)
        BY BootstrapAssumption
      <4>2. DOMAIN Order = 1..Len(Order)
        BY <4>1, LenProperties
      <4> QED BY <4>1, <4>2, Zenon DEF ToSet
    <3>2. ~(i >= next)
      <4>1. next \in 1..Len(Order) + 1 /\ Len(Order) \in Nat
        BY FiniteKeys, Zenon DEF IInv, TypeOK
      <4> QED BY <2>3, <4>1
    <3> QED BY <2>3, <3>1, <3>2, Zenon
  <2>5. \A k \in AllKeys : pc[k] \in Ended
    <3>1. \A k \in AllKeys : pc[k] \in {"idle"} \cup Busy \cup Ended
      BY Zenon DEF IInv, TypeOK
    <3>2. \A k \in AllKeys : pc[k] \notin Busy
      BY <2>2, Zenon DEF Running
    <3> QED BY <2>4, <3>1, <3>2, Zenon
  <2>6. ASSUME NEW k \in AllKeys, pc[k] # "skipped",
               k \in unread => pc[k] = "loaded"
        PROVE  candles[k] = LoadFile(k)
    <3>1. WorkerInOrder(k)
      BY PairFacts, Zenon
    <3>2. pc[k] = "failed" \/ pc[k] = "loaded"
      BY <2>5, <2>6 DEF Ended
    <3>3. CASE pc[k] = "loaded"
      BY <3>1, <3>3, Zenon DEF WorkerInOrder
    <3>4. CASE pc[k] = "failed"
      <4>1. /\ pc[k] # "loaded"
            /\ pc[k] \in {"fetch", "save", "fill", "rename", "failed"}
        BY <3>4
      <4>2. candles[k] = Basis(k)
        BY <3>1, <4>1, Zenon DEF WorkerInOrder
      <4> QED BY <2>6, <4>1, <4>2, Zenon DEF Basis
    <3> QED BY <3>2, <3>3, <3>4, Zenon
  <2>7. ASSUME NEW k \in AllKeys, candles[k] # <<>>
        PROVE  SymbolOf[k] \in subscribed
    BY <2>2, <2>7, Zenon DEF WithData
  <2> QED BY <2>2, <2>6, <2>7, Zenon
<1> QED BY <1>1, Invariance, PTL

\* No bootstrap tears a file, takes a candle from it or puts older content
\* over newer, but for a file it could not read.
THEOREM FilesMoveForward == Spec => FilesForward
<1> DEFINE Forward ==
      \A k \in AllKeys :
        /\ file'[k].st = "torn" => file[k].st = "torn"
        /\ k \notin unread => Covers(LoadFile(k)', LoadFile(k))
<1>1. IInv /\ [Next]_vars => [Forward]_vars
  <2> SUFFICES ASSUME IInv, Next PROVE Forward
    BY Zenon
  <2>1. CASE file' = file
    <3>1. \A k \in AllKeys : LoadFile(k)' = LoadFile(k)
      BY <2>1, Zenon DEF LoadFile
    <3>2. \A k \in AllKeys : Covers(LoadFile(k), LoadFile(k))
      BY CoversReflexive, PairFacts, Zenon
    <3> QED BY <2>1, <3>1, <3>2, Zenon
  <2>2. ASSUME NEW j \in AllKeys, RenameSave(j) PROVE Forward
    <3> SUFFICES ASSUME NEW k \in AllKeys
                 PROVE  /\ file'[k].st = "torn" => file[k].st = "torn"
                        /\ k \notin unread => Covers(LoadFile(k)', LoadFile(k))
      BY Zenon
    <3>1. /\ file' = [file EXCEPT ![j] = WholeFile(merged[j])]
          /\ file'[j] = WholeFile(merged[j])
          /\ LoadFile(j)' = merged[j] /\ Covers(merged[j], Basis(j))
      BY <2>2, RenameMoves, Zenon
    <3>2. CASE k = j
      <4>1. file'[k].st # "torn"
        BY <3>1, <3>2 DEF WholeFile
      <4>2. k \notin unread => Covers(LoadFile(k)', LoadFile(k))
        BY <3>1, <3>2, Zenon DEF Basis
      <4> QED BY <4>1, <4>2, Zenon
    <3>3. CASE k # j
      <4>1. file'[k] = file[k]
        BY <3>1, <3>3, PairFacts, Zenon
      <4>2. LoadFile(k)' = LoadFile(k)
        BY <4>1, Zenon DEF LoadFile
      <4>3. Covers(LoadFile(k), LoadFile(k))
        BY CoversReflexive, PairFacts, Zenon
      <4> QED BY <4>1, <4>2, <4>3, Zenon
    <3> QED BY <3>2, <3>3, Zenon
  <2>3. ASSUME NEW j \in AllKeys, Work(j)
        PROVE  file' = file \/ RenameSave(j)
    <3>1. CASE Skip(j) \/ LoadExisting(j) \/ LoadExistingFails(j)
                 \/ FetchFails(j) \/ Fetch(j) \/ ContractNotExist(j)
      BY <3>1, Zenon DEF Skip, LoadExisting, LoadExistingFails, FetchFails,
                         Fetch, ContractNotExist, fileVars
    <3>2. CASE StartSave(j) \/ FillSave(j) \/ SaveFails(j) \/ RenameFails(j)
      BY <3>2, Zenon DEF StartSave, FillSave, SaveFails, RenameFails,
                         TruncateTmp, FillTmp, RemoveTmp, fileVars
    <3>3. CASE UpsertRows(j) \/ UpsertFails(j) \/ LoadMerged(j)
      BY <3>3, Zenon DEF UpsertRows, UpsertFails, LoadMerged, fileVars
    <3> QED BY <2>3, <3>1, <3>2, <3>3, Zenon DEF Work, OwnStep
  <2>4. CASE Boot \/ Main \/ Cancel \/ Kill \/ ExchangeMoves \/ Finished
    <3>1. file' = file
      BY <2>4, Zenon DEF Boot, Main, Launch, EndLaunch, GoLive, Leave, Cancel,
                         Kill, ExchangeMoves, Finished, vars, fileVars
    <3> QED BY <2>1, <3>1
  <2> QED BY <2>1, <2>2, <2>3, <2>4, Zenon DEF Next
<1> QED BY <1>1, Invariance, PTL DEF Spec, FilesForward
=============================================================================
