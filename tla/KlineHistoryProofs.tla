-------------------------- MODULE KlineHistoryProofs --------------------------
(***************************************************************************)
(* Proofs about the candles of one pair over the life of the kline         *)
(* service, for every set of open times, interval, limit of a request and  *)
(* number of starts.                                                       *)
(***************************************************************************)
EXTENDS KlineHistory, CandlesProofs

(* The strengthening.                                                      *)

\* Contents of later candles are later contents.
MarketRanks ==
  /\ market # <<>>
  /\ \A x, y \in ToSet(market) : x.t < y.t => x.v < y.v

\* All the service has of the exchange's candles.
Held == ToSet(file) \cup ToSet(candles) \cup ToSet(sent)

\* It is what the exchange shows, or showed before it showed that, and was
\* shown after every candle before it had closed.
HeldFromMarket ==
  \A x \in Held :
    /\ \E y \in ToSet(market) : y.t = x.t /\ x.v <= y.v
    /\ \A y \in ToSet(market) : y.t < x.t => y.v < x.v

\* Frames are newer than the list they will be merged into, and each newer
\* than the one before.
SentInOrder ==
  /\ \A i, j \in 1..Len(sent) : i < j => sent[i].v < sent[j].v
  /\ \A x \in ToSet(candles), y \in ToSet(sent) : x.v < y.v

\* Without the process there is nothing in memory, and no link; with it, the
\* list is not behind the file.
MemoryAheadOfFile ==
  /\ proc = "off" => candles = <<>> /\ sent = <<>> /\ link = "down"
  /\ proc = "live" => Covers(candles, file)

\* ClosedCandlesKept, for the open candle as well.
CandlesKept ==
  proc = "live" =>
    \A c \in ToSet(market) :
      c.t \notin missed => c \in ToSet(candles) \cup ToSet(sent)

\* The file has no gap before its last candle but those missed tells of: what
\* the next start, which asks from there on, relies upon.
FileWithoutGaps ==
  \A c \in ToSet(market), x \in ToSet(file) :
    c.t < x.t /\ c.t \notin missed => c \in ToSet(file)

IInv ==
  /\ TypeOK
  /\ MarketRanks
  /\ HeldFromMarket
  /\ SentInOrder
  /\ MemoryAheadOfFile
  /\ CandlesKept
  /\ FileWithoutGaps

-----------------------------------------------------------------------------
\* What a request brings: candles of the exchange, in order, and of the answer
\* all but the oldest beyond the limit.
LEMMA FetchContents ==
  ASSUME NEW h \in Seq(Candle), Ascending(h), NEW start \in Int,
         NEW answer \in Answers(h, start)
  PROVE  /\ answer \in Seq(Candle) /\ ToSet(answer) \subseteq ToSet(h)
         /\ FetchKline(answer) \in Seq(Candle) /\ Ascending(FetchKline(answer))
         /\ ToSet(FetchKline(answer)) \subseteq ToSet(answer)
         /\ \A i \in 1..Len(answer) :
              (BootstrapLimit > 0 => i > Len(answer) - BootstrapLimit)
                => answer[i] \in ToSet(FetchKline(answer))
<1> DEFINE N == Len(h)
           first == SearchIndex(h, start)
<1>1. /\ N \in Nat /\ first \in 1..N + 1
      /\ BootstrapLimit \in Int /\ AnswerLimit \in Nat /\ AnswerLimit >= 1
  BY LenProperties, SearchIndexDef, RestAssumption
<1>2. \E m \in 1..N + 1 : \E n \in m - 1..N : answer = SubSeq(h, m, n)
  <2> HIDE DEF N, first
  <2>1. CASE N - AnswerLimit + 1 <= first
    <3>1. answer = SubSeq(h, first, N)
      BY <2>1 DEF Answers, N, first
    <3>2. N \in first - 1..N
      BY <1>1
    <3> QED BY <1>1, <3>1, <3>2
  <2>2. CASE ~(N - AnswerLimit + 1 <= first)
    <3>1. PICK i \in first..N - AnswerLimit + 1 :
            answer = SubSeq(h, i, i + AnswerLimit - 1)
      BY <2>2 DEF Answers, N, first
    <3>2. i \in 1..N + 1 /\ i + AnswerLimit - 1 \in i - 1..N
      BY <1>1
    <3> QED BY <3>1, <3>2
  <2> QED BY <2>1, <2>2
<1>3. /\ answer \in Seq(Candle) /\ Ascending(answer)
      /\ ToSet(answer) \subseteq ToSet(h)
  <2>1. PICK m \in 1..N + 1 : \E n \in m - 1..N : answer = SubSeq(h, m, n)
    BY <1>2
  <2>2. PICK n \in m - 1..N : answer = SubSeq(h, m, n)
    BY <2>1
  <2>3. /\ answer \in Seq(Candle) /\ Ascending(answer)
        /\ ToSet(answer) = {h[i] : i \in m..n}
    BY <2>2, RunContents
  <2>4. \A i \in 1..N : h[i] \in ToSet(h)
    BY ListElements
  <2>5. m..n \subseteq 1..N
    <3> HIDE DEF N
    <3> QED BY <1>1
  <2> QED BY <2>3, <2>4, <2>5
<1> DEFINE kept == FetchKline(answer)
<1>4. kept = IF BootstrapLimit > 0 /\ Len(answer) > BootstrapLimit
             THEN SubSeq(answer, Len(answer) - BootstrapLimit + 1, Len(answer))
             ELSE answer
  BY DEF FetchKline
<1> HIDE DEF kept
<1>5. /\ kept \in Seq(Candle) /\ Ascending(kept)
      /\ ToSet(kept) =
           {answer[i] : i \in {j \in 1..Len(answer) :
              BootstrapLimit > 0 => j > Len(answer) - BootstrapLimit}}
  BY <1>1, <1>3, <1>4, NewestKept
<1>6. \A i \in 1..Len(answer) : answer[i] \in ToSet(answer)
  BY <1>3, ListElements
<1> QED BY <1>3, <1>5, <1>6 DEF kept

\* Consecutive first candles have increasing open times.
LEMMA FirstMarket ==
  ASSUME NEW n \in FirstCandles, NEW m,
         m = [i \in 1..n |-> [t |-> Min(Times) + (i - 1) * IntervalSeconds,
                              v |-> i]]
  PROVE  /\ m \in Seq(Candle) /\ m # <<>> /\ Ascending(m)
         /\ \A x, y \in ToSet(m) : x.t < y.t => x.v < y.v
<1> DEFINE t0 == Min(Times)
           open(i) == t0 + (i - 1) * IntervalSeconds
<1>1. n \in Nat /\ n >= 1 /\ IntervalSeconds \in Nat /\ IntervalSeconds >= 1
  BY HistoryAssumption, RestAssumption
<1>2. \A i \in 1..n : open(i) \in Times
  BY HistoryAssumption
<1>3. t0 \in Int
  BY HistoryAssumption, TimesAssumption
<1>4. ASSUME NEW i \in 1..n, NEW j \in 1..n, i < j
      PROVE  open(i) < open(j)
  <2>1. i \in Int /\ j \in Int /\ j - i >= 1
    BY <1>1, <1>4
  <2>2. (j - i) * IntervalSeconds >= 1
    <3>1. \A a, b \in Nat : a >= 1 /\ b >= 1 => a * b >= 1
      OBVIOUS
    <3>2. j - i \in Nat
      BY <2>1
    <3> QED BY <1>1, <2>1, <3>1, <3>2, Zenon
  <2>3. (j - 1) * IntervalSeconds
          = (i - 1) * IntervalSeconds + (j - i) * IntervalSeconds
    BY <1>1, <2>1
  <2>4. /\ (i - 1) * IntervalSeconds \in Int
        /\ (j - 1) * IntervalSeconds \in Int
        /\ (j - i) * IntervalSeconds \in Int
    BY <1>1, <2>1
  <2> DEFINE a == (i - 1) * IntervalSeconds
             b == (j - 1) * IntervalSeconds
             d == (j - i) * IntervalSeconds
  <2> HIDE DEF a, b, d
  <2>5. t0 + a < t0 + b
    BY <1>3, <2>2, <2>3, <2>4 DEF a, b, d
  <2> QED BY <2>5 DEF a, b
<1> HIDE DEF open, t0
<1>5. \A i \in 1..n : [t |-> open(i), v |-> i] \in Candle
  BY <1>1, <1>2 DEF Candle
<1>6. m = [i \in 1..n |-> [t |-> open(i), v |-> i]]
  BY Zenon DEF open, t0
<1>7. m \in Seq(Candle) /\ DOMAIN m = 1..n
  BY <1>1, <1>5, <1>6
<1>8. \A i \in 1..n : m[i].t = open(i) /\ m[i].v = i
  BY <1>6
<1>9. m # <<>>
  <2>1. 1 \in DOMAIN m
    BY <1>1, <1>7
  <2> QED BY <2>1
<1>10. Ascending(m)
  <2> SUFFICES ASSUME NEW i \in 1..n, NEW j \in 1..n, i < j
               PROVE  m[i].t < m[j].t
    BY <1>7, Zenon DEF Ascending
  <2>1. open(i) < open(j)
    BY <1>4
  <2> QED BY <1>8, <2>1, Zenon
<1>11. \A x, y \in ToSet(m) : x.t < y.t => x.v < y.v
  <2> TAKE x, y \in ToSet(m)
  <2> HAVE x.t < y.t
  <2>1. PICK i \in 1..n : x = m[i]
    BY <1>7, Zenon DEF ToSet
  <2>2. PICK j \in 1..n : y = m[j]
    BY <1>7, Zenon DEF ToSet
  <2>3. open(i) \in Int /\ open(j) \in Int /\ open(i) < open(j)
    BY <1>2, <1>8, <2>1, <2>2, TimesAssumption
  <2>4. ~(i = j) /\ ~(j < i)
    BY <1>4, <2>3
  <2> QED BY <1>1, <1>8, <2>1, <2>2, <2>4
<1> QED BY <1>7, <1>9, <1>10, <1>11

-----------------------------------------------------------------------------
(* What the invariant says of the elements of the lists.                   *)

\* The market's are candles with distinct open times.
LEMMA MarketElements ==
  ASSUME TypeOK, MarketRanks
  PROVE  /\ \A x \in ToSet(market) : /\ x \in Candle /\ x.t \in Times
                                     /\ x.t \in Int /\ x.v \in Nat
         /\ \A x, y \in ToSet(market) : x.t = y.t => x = y
<1>1. market \in Seq(Candle) /\ Ascending(market) /\ market # <<>>
  BY Zenon DEF TypeOK, MarketRanks
<1>2. \A x, y \in ToSet(market) : x.t = y.t => x = y
  BY <1>1, LastAndFront, Zenon
<1>3. \A x \in ToSet(market) : /\ x \in Candle /\ x.t \in Times
                               /\ x.t \in Int /\ x.v \in Nat
  BY <1>1, ListElements, Zenon
<1> QED BY <1>2, <1>3, Zenon

\* What the service has are candles.
LEMMA HeldElements ==
  ASSUME TypeOK
  PROVE  \A x \in Held : /\ x \in Candle /\ x.t \in Times
                         /\ x.t \in Int /\ x.v \in Nat
<1>1. file \in Seq(Candle) /\ candles \in Seq(Candle) /\ sent \in Seq(Candle)
  BY Zenon DEF TypeOK
<1>2. ASSUME NEW s \in Seq(Candle), NEW x \in ToSet(s)
      PROVE  x \in Candle /\ x.t \in Times /\ x.t \in Int /\ x.v \in Nat
  BY ListElements, Zenon
<1> QED BY <1>1, <1>2, Zenon DEF Held

\* A list with one candle more.
LEMMA AppendElements ==
  ASSUME NEW s \in Seq(Candle), NEW c \in Candle
  PROVE  /\ Append(s, c) \in Seq(Candle)
         /\ Len(s) \in Nat /\ Len(Append(s, c)) = Len(s) + 1
         /\ Append(s, c)[Len(s) + 1] = c
         /\ \A i \in 1..Len(s) : Append(s, c)[i] = s[i] /\ s[i] \in ToSet(s)
         /\ ToSet(Append(s, c)) = ToSet(s) \cup {c}
<1> DEFINE a == Append(s, c)
           n == Len(s)
<1>1. /\ n \in Nat /\ a \in Seq(Candle) /\ Len(a) = n + 1 /\ a[n + 1] = c
      /\ \A i \in 1..n : a[i] = s[i]
  BY AppendProperties, LenProperties
<1>2. /\ \A i \in 1..n : s[i] \in ToSet(s)
      /\ \A x \in ToSet(s) : \E i \in 1..n : x = s[i]
  BY ListElements
<1>3. /\ \A i \in 1..n + 1 : a[i] \in ToSet(a)
      /\ \A x \in ToSet(a) : \E i \in 1..n + 1 : x = a[i]
  BY <1>1, ListElements
<1> HIDE DEF a, n
<1>4. \A i \in 1..n + 1 : i \in 1..n \/ i = n + 1
  BY <1>1
<1>5. n + 1 \in 1..n + 1 /\ \A i \in 1..n : i \in 1..n + 1
  BY <1>1
<1>6. ToSet(a) = ToSet(s) \cup {c}
  <2>1. \A x \in ToSet(a) : x \in ToSet(s) \cup {c}
    BY <1>1, <1>2, <1>3, <1>4
  <2>2. \A x \in ToSet(s) : x \in ToSet(a)
    BY <1>1, <1>2, <1>3, <1>5
  <2>3. c \in ToSet(a)
    BY <1>1, <1>3, <1>5
  <2> QED BY <2>1, <2>2, <2>3
<1> QED BY <1>1, <1>2, <1>6 DEF a, n

\* The empty list has none.
LEMMA EmptyElements == ToSet(<<>>) = {}
BY DEF ToSet

-----------------------------------------------------------------------------
\* It holds at first.
LEMMA InitIInv == Init => IInv
<1> SUFFICES ASSUME Init PROVE IInv
  OBVIOUS
<1>1. /\ market \in Seq(Candle) /\ market # <<>> /\ Ascending(market)
      /\ \A x, y \in ToSet(market) : x.t < y.t => x.v < y.v
  <2>1. PICK n \in FirstCandles :
          market =
            [i \in 1..n |-> [t |-> Min(Times) + (i - 1) * IntervalSeconds,
                             v |-> i]]
    BY Zenon DEF Init
  <2> QED BY <2>1, FirstMarket, Zenon
<1>2. /\ proc = "off" /\ candles = <<>> /\ file = <<>> /\ starts = 0
      /\ link = "down" /\ sent = <<>> /\ missed = {}
  BY Zenon DEF Init
<1>3. <<>> \in Seq(Candle) /\ Ascending(<<>>)
  BY EmptySeq DEF Ascending
<1>4. starts \in 0..MaxStarts
  BY <1>2, HistoryAssumption
<1>5. TypeOK
  BY <1>1, <1>2, <1>3, <1>4, Zenon DEF TypeOK
<1>6. MarketRanks
  BY <1>1, Zenon DEF MarketRanks
<1>7. HeldFromMarket /\ FileWithoutGaps
  BY <1>2, EmptyElements, Zenon DEF HeldFromMarket, Held, FileWithoutGaps
<1>8. SentInOrder
  <2>1. Len(sent) = 0
    BY <1>2
  <2>2. 1..Len(sent) = {}
    BY <2>1
  <2> QED BY <1>2, <2>2, EmptyElements, Zenon DEF SentInOrder
<1>9. MemoryAheadOfFile /\ CandlesKept
  <2>1. proc # "live"
    BY <1>2
  <2> QED BY <1>2, <2>1, Zenon DEF MemoryAheadOfFile, CandlesKept
<1> QED BY <1>5, <1>6, <1>7, <1>8, <1>9, Zenon DEF IInv

\* The exchange shows a candle that is the newest of its market: in the place
\* of the one that was open, or behind it.
LEMMA ShowKeeps ==
  ASSUME IInv, NEW c, Show(c), NEW M0,
         market' \in Seq(Candle), market' # <<>>, Ascending(market'),
         ToSet(market') = M0 \cup {c}, M0 \subseteq ToSet(market),
         \A x \in ToSet(market) : x \in M0 \/ x.t = c.t,
         \A x \in ToSet(market) : x.t <= c.t /\ x.v < c.v,
         \A x \in M0 : x.t < c.t
  PROVE  IInv'
<1>1. /\ TypeOK /\ MarketRanks /\ HeldFromMarket /\ SentInOrder
      /\ MemoryAheadOfFile /\ CandlesKept /\ FileWithoutGaps
  BY Zenon DEF IInv
<1>2. /\ proc' = proc /\ candles' = candles /\ file' = file
      /\ starts' = starts /\ link' = link
  BY Zenon DEF Show, processVars
<1>3. c \in Candle /\ c.t \in Times /\ c.t \in Int /\ c.v \in Nat
  BY TimesAssumption DEF Show, Candle
<1>4. /\ \A x \in ToSet(market) : /\ x \in Candle /\ x.t \in Times
                                  /\ x.t \in Int /\ x.v \in Nat
      /\ \A x \in Held : /\ x \in Candle /\ x.t \in Times
                         /\ x.t \in Int /\ x.v \in Nat
  BY <1>1, MarketElements, HeldElements, Zenon
<1>5. \/ /\ link = "up" /\ sent' = Append(sent, c)
         /\ missed' = missed \ {c.t}
         /\ ToSet(sent') = ToSet(sent) \cup {c}
      \/ /\ link # "up" /\ sent' = sent
         /\ missed' = IF proc = "live" THEN missed \cup {c.t} ELSE missed
  <2>1. CASE link = "up"
    <3>1. sent \in Seq(Candle)
      BY <1>1, Zenon DEF TypeOK
    <3>2. sent' = Append(sent, c) /\ missed' = missed \ {c.t}
      BY <2>1, Zenon DEF Show
    <3>3. ToSet(sent') = ToSet(sent) \cup {c}
      BY <1>3, <3>1, <3>2, AppendElements
    <3> QED BY <2>1, <3>2, <3>3, Zenon
  <2>2. CASE link # "up"
    BY <2>2, Zenon DEF Show
  <2> QED BY <2>1, <2>2, Zenon
<1>6. /\ sent \in Seq(Candle) /\ sent' \in Seq(Candle)
      /\ ToSet(sent) \subseteq ToSet(sent')
      /\ ToSet(sent') \subseteq ToSet(sent) \cup {c}
  <2>1. sent \in Seq(Candle)
    BY <1>1, Zenon DEF TypeOK
  <2>2. Append(sent, c) \in Seq(Candle)
    BY <1>3, <2>1, AppendElements
  <2> QED BY <1>5, <2>1, <2>2
<1>7. Held' \subseteq Held \cup {c}
  BY <1>2, <1>6, Zenon DEF Held
<1>8. TypeOK'
  <2>1. missed' \subseteq Times
    <3>1. missed \subseteq Times
      BY <1>1, Zenon DEF TypeOK
    <3> QED BY <1>3, <1>5, <3>1
  <2>2. /\ proc' \in {"off", "live"} /\ starts' \in 0..MaxStarts
        /\ candles' \in Seq(Candle) /\ Ascending(candles')
        /\ file' \in Seq(Candle) /\ Ascending(file')
        /\ link' \in {"up", "down"} /\ (link' = "up" => proc' = "live")
    BY <1>1, <1>2, Zenon DEF TypeOK
  <2> QED BY <1>6, <2>1, <2>2, Zenon DEF TypeOK
<1>9. MarketRanks'
  <2> SUFFICES ASSUME NEW x \in ToSet(market'), NEW y \in ToSet(market'),
                      x.t < y.t
               PROVE  x.v < y.v
    BY Zenon DEF MarketRanks
  <2>1. CASE x \in M0 /\ y \in M0
    BY <1>1, <2>1, Zenon DEF MarketRanks
  <2>2. CASE x \in M0 /\ y = c
    BY <2>2
  <2>3. CASE x = c
    <3>1. x.t \in Int /\ y.t \in Int /\ (y.t < x.t \/ y.t = x.t)
      BY <1>3, <1>4, <2>3
    <3> QED BY <3>1
  <2> QED BY <2>1, <2>2, <2>3, Zenon
<1>10. HeldFromMarket'
  <2> SUFFICES ASSUME NEW x \in Held'
               PROVE  /\ \E y \in ToSet(market') : y.t = x.t /\ x.v <= y.v
                      /\ \A y \in ToSet(market') : y.t < x.t => y.v < x.v
    BY Zenon DEF HeldFromMarket
  <2>1. CASE x = c
    <3>1. c.v <= c.v /\ ~(c.t < c.t)
      BY <1>3
    <3> QED BY <2>1, <3>1
  <2>2. CASE x \in Held
    <3>1. PICK z \in ToSet(market) : z.t = x.t /\ x.v <= z.v
      BY <1>1, <2>2, Zenon DEF HeldFromMarket
    <3>2. /\ z.t \in Int /\ z.v \in Nat /\ x.v \in Nat /\ x.t \in Int
          /\ z.t <= c.t /\ z.v < c.v
      BY <1>4, <2>2
    <3>3. x.t <= c.t /\ x.v <= c.v
      BY <1>3, <3>1, <3>2
    <3>4. \E y \in ToSet(market') : y.t = x.t /\ x.v <= y.v
      <4>1. z \in M0 \/ z.t = c.t
        OBVIOUS
      <4>2. z \in M0 => z \in ToSet(market')
        OBVIOUS
      <4>3. c \in ToSet(market')
        OBVIOUS
      <4> QED BY <3>1, <3>3, <4>1, <4>2, <4>3
    <3>5. ASSUME NEW y \in ToSet(market'), y.t < x.t
          PROVE  y.v < x.v
      <4>1. ~(c.t < x.t)
        BY <1>3, <3>2, <3>3
      <4>2. y \in ToSet(market)
        BY <3>5, <4>1
      <4> QED BY <1>1, <2>2, <3>5, <4>2, Zenon DEF HeldFromMarket
    <3> QED BY <3>4, <3>5, Zenon
  <2> QED BY <1>7, <2>1, <2>2, Zenon
<1>11. \A x \in Held : x.v < c.v /\ ~(c.t < x.t)
  <2> SUFFICES ASSUME NEW x \in Held
               PROVE  x.v < c.v /\ ~(c.t < x.t)
    OBVIOUS
  <2>1. PICK z \in ToSet(market) : z.t = x.t /\ x.v <= z.v
    BY <1>1, Zenon DEF HeldFromMarket
  <2>2. /\ z.t \in Int /\ z.v \in Nat /\ x.v \in Nat /\ x.t \in Int
        /\ z.t <= c.t /\ z.v < c.v
    BY <1>4
  <2> QED BY <1>3, <2>1, <2>2
<1>12. SentInOrder'
  <2>1. CASE sent' = sent
    BY <1>1, <1>2, <2>1, Zenon DEF SentInOrder
  <2>2. CASE sent' = Append(sent, c) /\ ToSet(sent') = ToSet(sent) \cup {c}
    <3> DEFINE n == Len(sent)
    <3>1. /\ n \in Nat /\ Len(sent') = n + 1 /\ sent'[n + 1] = c
          /\ \A i \in 1..n : sent'[i] = sent[i] /\ sent[i] \in ToSet(sent)
      BY <1>3, <1>6, <2>2, AppendElements
    <3> HIDE DEF n
    <3>2. \A i, j \in 1..n : i < j => sent[i].v < sent[j].v
      BY <1>1, Zenon DEF SentInOrder, n
    <3>3. \A i \in 1..n : sent[i].v < c.v
      BY <1>11, <3>1, Zenon DEF Held
    <3>4. \A i, j \in 1..n + 1 :
            i < j => i \in 1..n /\ (j \in 1..n \/ j = n + 1)
      BY <3>1
    <3>5. \A i, j \in 1..Len(sent') : i < j => sent'[i].v < sent'[j].v
      BY <3>1, <3>2, <3>3, <3>4, Zenon
    <3>6. \A x \in ToSet(candles'), y \in ToSet(sent') : x.v < y.v
      BY <1>1, <1>2, <1>11, <2>2, Zenon DEF SentInOrder, Held
    <3> QED BY <3>5, <3>6, Zenon DEF SentInOrder
  <2> QED BY <1>5, <2>1, <2>2, Zenon
<1>13. MemoryAheadOfFile'
  <2>1. proc' = "off" => candles' = <<>> /\ sent' = <<>> /\ link' = "down"
    <3> SUFFICES ASSUME proc = "off"
                 PROVE  candles = <<>> /\ sent' = <<>> /\ link = "down"
      BY <1>2, Zenon
    <3>1. candles = <<>> /\ sent = <<>> /\ link = "down"
      BY <1>1, Zenon DEF MemoryAheadOfFile
    <3> QED BY <1>5, <3>1
  <2>2. proc' = "live" => Covers(candles', file')
    BY <1>1, <1>2, Zenon DEF MemoryAheadOfFile
  <2> QED BY <2>1, <2>2, Zenon DEF MemoryAheadOfFile
<1>14. \A x \in M0 : x \in ToSet(market) /\ x.t # c.t
  BY <1>3, <1>4
<1>15. \A x \in M0 : x.t \notin missed' => x.t \notin missed
  BY <1>5, <1>14
<1>16. CandlesKept'
  <2> SUFFICES ASSUME proc = "live", NEW x \in ToSet(market'),
                      x.t \notin missed'
               PROVE  x \in ToSet(candles') \cup ToSet(sent')
    BY <1>2, Zenon DEF CandlesKept
  <2>1. CASE x \in M0
    BY <1>1, <1>2, <1>6, <1>14, <1>15, <2>1 DEF CandlesKept
  <2>2. CASE x = c
    BY <1>5, <2>2
  <2> QED BY <2>1, <2>2
<1>17. FileWithoutGaps'
  <2> SUFFICES ASSUME NEW y \in ToSet(market'), NEW x \in ToSet(file),
                      y.t < x.t, y.t \notin missed'
               PROVE  y \in ToSet(file)
    BY <1>2, Zenon DEF FileWithoutGaps
  <2>1. ~(c.t < x.t)
    BY <1>11, Zenon DEF Held
  <2>2. y \in M0
    BY <2>1
  <2> QED BY <1>1, <1>14, <1>15, <2>2, Zenon DEF FileWithoutGaps
<1> QED BY <1>8, <1>9, <1>10, <1>12, <1>13, <1>16, <1>17, Zenon DEF IInv

\* The newest candle the market has is its last.
LEMMA LastIsNewest ==
  ASSUME TypeOK, MarketRanks
  PROVE  /\ market \in Seq(Candle) /\ Ascending(market) /\ market # <<>>
         /\ Last(market) \in ToSet(market) /\ Last(market) \in Candle
         /\ Last(market).t \in Int /\ Last(market).v \in Nat
         /\ \A x \in ToSet(market) :
              x.t <= Last(market).t /\ x.v <= Last(market).v
<1>1. market \in Seq(Candle) /\ Ascending(market) /\ market # <<>>
  BY Zenon DEF TypeOK, MarketRanks
<1>2. /\ Last(market) \in ToSet(market)
      /\ \A x \in ToSet(market) : x = Last(market) \/ x.t < Last(market).t
  BY <1>1, LastAndFront, Zenon
<1> DEFINE z == Last(market)
<1>3. \A x \in ToSet(market) : x.t < z.t => x.v < z.v
  BY <1>2, Zenon DEF MarketRanks
<1>4. /\ z \in Candle /\ z.t \in Int /\ z.v \in Nat
      /\ \A x \in ToSet(market) : x.t \in Int /\ x.v \in Nat
  BY <1>2, MarketElements, Zenon
<1> HIDE DEF z
<1>5. \A x \in ToSet(market) : x.t <= z.t /\ x.v <= z.v
  <2> SUFFICES ASSUME NEW x \in ToSet(market)
               PROVE  x.t <= z.t /\ x.v <= z.v
    OBVIOUS
  <2>1. x = z \/ (x.t < z.t /\ x.v < z.v)
    BY <1>2, <1>3, Zenon DEF z
  <2> QED BY <1>4, <2>1
<1> QED BY <1>1, <1>2, <1>4, <1>5, Zenon DEF z

\* A trade writes over the open candle, which is newer than all that was held
\* of it.
LEMMA TradeKeeps == IInv /\ Trade => IInv'
<1> SUFFICES ASSUME IInv, Trade PROVE IInv'
  OBVIOUS
<1> DEFINE z == Last(market)
           c == [z EXCEPT !.v = @ + 1]
           M0 == ToSet(Front(market))
<1>1. TypeOK /\ MarketRanks
  BY Zenon DEF IInv
<1>2. Show(c) /\ market' = Append(Front(market), c)
  BY Zenon DEF Trade
<1>3. /\ market \in Seq(Candle) /\ Ascending(market) /\ market # <<>>
      /\ z \in Candle /\ z.t \in Int /\ z.v \in Nat
      /\ \A x \in ToSet(market) : x.t <= z.t /\ x.v <= z.v
  BY <1>1, LastIsNewest, Zenon
<1>4. /\ \A x \in ToSet(market) : x = z \/ x.t < z.t
      /\ Front(market) \in Seq(Candle) /\ Ascending(Front(market))
      /\ M0 = {x \in ToSet(market) : x.t < z.t}
  BY <1>3, LastAndFront, Zenon
<1>5. c \in Candle
  BY <1>2, Zenon DEF Show
<1> HIDE DEF z, M0
<1>6. c.t = z.t /\ c.v = z.v + 1
  BY <1>3 DEF Candle
<1> HIDE DEF c
<1>7. /\ \A x \in M0 : x.t < c.t
      /\ M0 \subseteq ToSet(market)
      /\ \A x \in ToSet(market) : x \in M0 \/ x.t = c.t
  BY <1>4, <1>6
<1>8. \A x \in ToSet(market) : x.t <= c.t /\ x.v < c.v
  <2>1. \A x \in ToSet(market) : x.v \in Nat
    BY <1>1, MarketElements, Zenon
  <2> QED BY <1>3, <1>6, <2>1
<1>9. /\ market' \in Seq(Candle) /\ market' # <<>> /\ Ascending(market')
      /\ ToSet(market') = M0 \cup {c}
  BY <1>2, <1>4, <1>5, <1>7, AppendLater, Zenon DEF M0
<1> QED BY <1>2, <1>7, <1>8, <1>9, ShowKeeps, Zenon

\* The next candle is newer than all before it.
LEMMA RollKeeps == IInv /\ Roll => IInv'
<1> SUFFICES ASSUME IInv, Roll PROVE IInv'
  OBVIOUS
<1> DEFINE z == Last(market)
           c == [t |-> z.t + IntervalSeconds, v |-> z.v + 1]
<1>1. TypeOK /\ MarketRanks
  BY Zenon DEF IInv
<1>2. Show(c) /\ market' = Append(market, c)
  BY Zenon DEF Roll
<1>3. /\ market \in Seq(Candle) /\ Ascending(market) /\ market # <<>>
      /\ z.t \in Int /\ z.v \in Nat
      /\ \A x \in ToSet(market) : x.t <= z.t /\ x.v <= z.v
  BY <1>1, LastIsNewest, Zenon
<1>4. c \in Candle
  BY <1>2, Zenon DEF Show
<1> HIDE DEF z
<1>5. c.t = z.t + IntervalSeconds /\ c.v = z.v + 1
  OBVIOUS
<1> HIDE DEF c
<1>6. \A x \in ToSet(market) : x.t <= c.t /\ x.v < c.v /\ x.t < c.t
  <2>1. \A x \in ToSet(market) : x.t \in Int /\ x.v \in Nat
    BY <1>1, MarketElements, Zenon
  <2> QED BY <1>3, <1>5, <2>1, RestAssumption
<1>7. /\ market' \in Seq(Candle) /\ market' # <<>> /\ Ascending(market')
      /\ ToSet(market') = ToSet(market) \cup {c}
  BY <1>2, <1>3, <1>4, <1>6, AppendLater, Zenon
<1> QED BY <1>2, <1>6, <1>7, ShowKeeps, Zenon

-----------------------------------------------------------------------------
\* A connection changes no list.
LEMMA ConnectKeeps == IInv /\ Connect => IInv'
<1> SUFFICES ASSUME IInv, Connect PROVE IInv'
  OBVIOUS
<1>1. /\ market' = market /\ proc' = proc /\ candles' = candles
      /\ file' = file /\ starts' = starts /\ sent' = sent
      /\ missed' = missed /\ proc = "live" /\ link' = "up"
  BY Zenon DEF Connect, processVars
<1>2. proc # "off" /\ link' \in {"up", "down"}
  BY <1>1
<1> QED BY <1>1, <1>2, Zenon DEF IInv, TypeOK, MarketRanks, HeldFromMarket,
          Held, SentInOrder, MemoryAheadOfFile, CandlesKept, FileWithoutGaps

\* Nor does a rest.
LEMMA RestKeeps == IInv /\ UNCHANGED vars => IInv'
<1> SUFFICES ASSUME IInv, UNCHANGED vars PROVE IInv'
  OBVIOUS
<1>1. /\ market' = market /\ proc' = proc /\ candles' = candles
      /\ file' = file /\ starts' = starts /\ sent' = sent
      /\ missed' = missed /\ link' = link
  BY Zenon DEF vars, processVars
<1> QED BY <1>1, Zenon DEF IInv, TypeOK, MarketRanks, HeldFromMarket,
          Held, SentInOrder, MemoryAheadOfFile, CandlesKept, FileWithoutGaps

\* A kill takes what the invariant asks nothing of.
LEMMA StopKeeps == IInv /\ Stop => IInv'
<1> SUFFICES ASSUME IInv, Stop PROVE IInv'
  OBVIOUS
<1>1. /\ market' = market /\ file' = file /\ starts' = starts
      /\ missed' = missed /\ proc' = "off" /\ candles' = <<>>
      /\ link' = "down" /\ sent' = <<>>
  BY Zenon DEF Stop
<1>2. /\ proc' # "live" /\ link' # "up" /\ proc' \in {"off", "live"}
      /\ link' \in {"up", "down"}
  BY <1>1
<1>3. <<>> \in Seq(Candle) /\ Ascending(<<>>)
  BY EmptySeq DEF Ascending
<1>4. TypeOK'
  BY <1>1, <1>2, <1>3, Zenon DEF IInv, TypeOK
<1>5. HeldFromMarket'
  <2>1. Held' \subseteq Held
    BY <1>1, EmptyElements, Zenon DEF Held
  <2> QED BY <1>1, <2>1, Zenon DEF IInv, HeldFromMarket
<1>6. SentInOrder'
  <2>1. 1..Len(sent') = {}
    BY <1>1
  <2> QED BY <1>1, <2>1, EmptyElements, Zenon DEF SentInOrder
<1> QED BY <1>1, <1>2, <1>4, <1>5, <1>6, Zenon
           DEF IInv, MarketRanks, MemoryAheadOfFile, CandlesKept,
               FileWithoutGaps

\* A save puts in the file what is in memory: a gap in it would be a frame not
\* handled yet, which is newer than every candle of memory.
LEMMA FlushKeeps == IInv /\ Flush => IInv'
<1> SUFFICES ASSUME IInv, Flush PROVE IInv'
  OBVIOUS
<1>1. /\ market' = market /\ proc' = proc /\ candles' = candles
      /\ starts' = starts /\ link' = link /\ sent' = sent
      /\ missed' = missed /\ proc = "live" /\ file' = candles
  BY Zenon DEF Flush
<1>2. proc # "off"
  BY <1>1
<1>3. TypeOK /\ MarketRanks
  BY Zenon DEF IInv
<1>4. TypeOK'
  BY <1>1, <1>3, Zenon DEF TypeOK
<1>5. HeldFromMarket'
  <2>1. Held' \subseteq Held
    BY <1>1, Zenon DEF Held
  <2> QED BY <1>1, <2>1, Zenon DEF IInv, HeldFromMarket
<1>6. MemoryAheadOfFile'
  <2>1. Covers(candles, candles)
    BY <1>3, CoversReflexive, Zenon DEF TypeOK
  <2> QED BY <1>1, <1>2, <2>1, Zenon DEF MemoryAheadOfFile
<1>7. FileWithoutGaps'
  <2> SUFFICES ASSUME NEW c \in ToSet(market), NEW x \in ToSet(candles),
                      c.t < x.t, c.t \notin missed
               PROVE  c \in ToSet(candles)
    BY <1>1, Zenon DEF FileWithoutGaps
  <2>1. c \in ToSet(candles) \cup ToSet(sent)
    BY <1>1, Zenon DEF IInv, CandlesKept
  <2>2. c \notin ToSet(sent)
    <3>1. x \in Held
      BY Zenon DEF Held
    <3>2. c.v < x.v
      BY <3>1, Zenon DEF IInv, HeldFromMarket
    <3>3. c \in ToSet(sent) => x.v < c.v
      BY Zenon DEF IInv, SentInOrder
    <3>4. c.v \in Nat /\ x.v \in Nat
      BY <1>3, <3>1, MarketElements, HeldElements, Zenon
    <3> QED BY <3>2, <3>3, <3>4
  <2> QED BY <2>1, <2>2, Zenon
<1> QED BY <1>1, <1>4, <1>5, <1>6, <1>7, Zenon
           DEF IInv, MarketRanks, SentInOrder, CandlesKept

-----------------------------------------------------------------------------
\* The first frame, and the others.
LEMMA HeadAndTail ==
  ASSUME NEW s \in Seq(Candle), s # <<>>
  PROVE  /\ Tail(s) \in Seq(Candle) /\ Head(s) \in ToSet(s)
         /\ Len(s) \in Nat /\ Len(s) >= 1 /\ Head(s) = s[1]
         /\ Len(Tail(s)) = Len(s) - 1
         /\ \A i \in 1..Len(s) - 1 : Tail(s)[i] = s[i + 1]
         /\ ToSet(s) = {Head(s)} \cup ToSet(Tail(s))
<1> DEFINE u == Tail(s)
           n == Len(s)
<1>1. /\ u \in Seq(Candle) /\ Head(s) = s[1] /\ Len(u) = n - 1
      /\ \A i \in 1..n - 1 : u[i] = s[i + 1]
  BY HeadTailProperties
<1>2. /\ n \in Nat
      /\ \A i \in 1..n : s[i] \in ToSet(s)
      /\ \A x \in ToSet(s) : \E i \in 1..n : x = s[i]
  BY ListElements
<1>3. n >= 1
  BY EmptySeq, LenProperties, <1>2
<1>4. /\ \A i \in 1..n - 1 : u[i] \in ToSet(u)
      /\ \A x \in ToSet(u) : \E i \in 1..n - 1 : x = u[i]
  BY <1>1, ListElements
<1> HIDE DEF u, n
<1>5. \A x \in ToSet(u) : x \in ToSet(s)
  <2> SUFFICES ASSUME NEW x \in ToSet(u) PROVE x \in ToSet(s)
    OBVIOUS
  <2>1. PICK i \in 1..n - 1 : x = u[i]
    BY <1>4
  <2>2. i + 1 \in 1..n
    BY <1>2
  <2> QED BY <1>1, <1>2, <2>1, <2>2
<1>6. \A x \in ToSet(s) : x = Head(s) \/ x \in ToSet(u)
  <2> SUFFICES ASSUME NEW x \in ToSet(s), x # Head(s) PROVE x \in ToSet(u)
    OBVIOUS
  <2>1. PICK i \in 1..n : x = s[i]
    BY <1>2
  <2>2. i # 1
    BY <1>1, <2>1
  <2>3. i - 1 \in 1..n - 1 /\ (i - 1) + 1 = i
    BY <1>2, <2>2
  <2> QED BY <1>1, <1>4, <2>1, <2>3
<1>7. Head(s) \in ToSet(s)
  BY <1>1, <1>2, <1>3
<1>8. ToSet(s) = {Head(s)} \cup ToSet(u)
  BY <1>5, <1>6, <1>7
<1> QED BY <1>1, <1>2, <1>3, <1>7, <1>8, Zenon DEF u, n

\* The first frames.
LEMMA PrefixContents ==
  ASSUME NEW s \in Seq(Candle), NEW n \in 0..Len(s)
  PROVE  /\ SubSeq(s, 1, n) \in Seq(Candle)
         /\ Len(SubSeq(s, 1, n)) = n /\ Len(s) \in Nat
         /\ \A i \in 1..n : SubSeq(s, 1, n)[i] = s[i]
         /\ ToSet(SubSeq(s, 1, n)) \subseteq ToSet(s)
         /\ ToSet(s) \subseteq ToSet(SubSeq(s, 1, n))
                                \cup ToSet(SubSeq(s, n + 1, Len(s)))
<1> DEFINE N == Len(s)
           a == SubSeq(s, 1, n)
           b == SubSeq(s, n + 1, N)
<1>1. /\ N \in Nat /\ n \in 0..N /\ \A i \in 1..N : s[i] \in Candle
      /\ \A i \in 1..N : s[i] \in ToSet(s)
      /\ \A x \in ToSet(s) : \E i \in 1..N : x = s[i]
  BY ListElements
<1>2. /\ \A i \in 1..n : i \in 1..N
      /\ \A i \in n + 1..N : i \in 1..N
  BY <1>1
<1>3. /\ a \in Seq(Candle) /\ Len(a) = n /\ \A i \in 1..n : a[i] = s[i]
  BY <1>1, <1>2, SubSeqProperties
<1>4. /\ b \in Seq(Candle) /\ Len(b) = N - n
      /\ \A i \in 1..N - n : b[i] = s[n + i]
  BY <1>1, <1>2, SubSeqProperties
<1>5. /\ \A i \in 1..n : a[i] \in ToSet(a)
      /\ \A x \in ToSet(a) : \E i \in 1..n : x = a[i]
  BY <1>3, ListElements
<1>6. \A i \in 1..N - n : b[i] \in ToSet(b)
  BY <1>4, ListElements
<1> HIDE DEF N, a, b
<1>7. ToSet(a) \subseteq ToSet(s)
  BY <1>1, <1>2, <1>3, <1>5
<1>8. \A x \in ToSet(s) : x \in ToSet(a) \cup ToSet(b)
  <2> SUFFICES ASSUME NEW x \in ToSet(s)
               PROVE  x \in ToSet(a) \cup ToSet(b)
    OBVIOUS
  <2>1. PICK i \in 1..N : x = s[i]
    BY <1>1
  <2>2. CASE i <= n
    <3>1. i \in 1..n
      BY <1>1, <2>2
    <3> QED BY <1>3, <1>5, <2>1, <3>1
  <2>3. CASE ~(i <= n)
    <3>1. i - n \in 1..N - n /\ n + (i - n) = i
      BY <1>1, <2>3
    <3> QED BY <1>4, <1>6, <2>1, <3>1
  <2> QED BY <2>2, <2>3
<1> QED BY <1>1, <1>3, <1>7, <1>8 DEF N, a, b

\* The frames lost with the link are the last, and noted in missed.
LEMMA DropKeeps == IInv /\ Drop => IInv'
<1> SUFFICES ASSUME IInv, Drop PROVE IInv'
  OBVIOUS
<1>1. PICK n \in 0..Len(sent) :
        /\ sent' = SubSeq(sent, 1, n)
        /\ missed' = missed \cup OpenTimes(SubSeq(sent, n + 1, Len(sent)))
  BY Zenon DEF Drop
<1>2. /\ market' = market /\ proc' = proc /\ candles' = candles
      /\ file' = file /\ starts' = starts /\ link' = "down"
      /\ link = "up"
  BY Zenon DEF Drop, processVars
<1>3. /\ link' # "up" /\ link' \in {"up", "down"} /\ proc # "off"
      /\ sent \in Seq(Candle)
  <2>1. link' # "up" /\ link' \in {"up", "down"} /\ "live" # "off"
    BY <1>2
  <2> QED BY <1>2, <2>1, Zenon DEF IInv, TypeOK
<1> DEFINE cut == SubSeq(sent, n + 1, Len(sent))
<1>4. /\ sent' \in Seq(Candle) /\ Len(sent') = n /\ Len(sent) \in Nat
      /\ \A i \in 1..n : sent'[i] = sent[i]
      /\ ToSet(sent') \subseteq ToSet(sent)
      /\ ToSet(sent) \subseteq ToSet(sent') \cup ToSet(cut)
  BY <1>1, <1>3, PrefixContents, Zenon
<1>5. \A x \in ToSet(cut) : x.t \in missed'
  BY <1>1, Zenon DEF OpenTimes
<1>6. missed \subseteq missed'
  BY <1>1
<1>7. TypeOK'
  <2>1. missed' \subseteq Times
    <3>1. cut \in Seq(Candle)
      <4>1. \A i \in n + 1..Len(sent) : i \in 1..Len(sent)
        BY <1>4
      <4>2. n + 1 \in Int /\ Len(sent) \in Int
        BY <1>4
      <4> QED BY <1>3, <4>1, <4>2, SubSeqProperties, ListElements
    <3>2. \A x \in ToSet(cut) : x.t \in Times
      BY <3>1, ListElements, Zenon
    <3>3. missed \subseteq Times
      BY Zenon DEF IInv, TypeOK
    <3> QED BY <1>1, <3>2, <3>3, Zenon DEF OpenTimes
  <2> QED BY <1>2, <1>3, <1>4, <2>1, Zenon DEF IInv, TypeOK
<1>8. HeldFromMarket'
  <2>1. Held' \subseteq Held
    BY <1>2, <1>4, Zenon DEF Held
  <2> QED BY <1>2, <2>1, Zenon DEF IInv, HeldFromMarket
<1>9. SentInOrder'
  <2>1. \A i \in 1..Len(sent') : i \in 1..Len(sent) /\ i \in 1..n
    BY <1>4
  <2>2. /\ \A i, j \in 1..Len(sent) : i < j => sent[i].v < sent[j].v
        /\ \A x \in ToSet(candles), y \in ToSet(sent) : x.v < y.v
    BY Zenon DEF IInv, SentInOrder
  <2>3. \A i, j \in 1..Len(sent') : i < j => sent'[i].v < sent'[j].v
    BY <1>4, <2>1, <2>2, Zenon
  <2>4. \A x \in ToSet(candles'), y \in ToSet(sent') : x.v < y.v
    BY <1>2, <1>4, <2>2, Zenon
  <2> QED BY <2>3, <2>4, Zenon DEF SentInOrder
<1>10. CandlesKept'
  <2> SUFFICES ASSUME proc = "live", NEW c \in ToSet(market),
                      c.t \notin missed'
               PROVE  c \in ToSet(candles) \cup ToSet(sent')
    BY <1>2, Zenon DEF CandlesKept
  <2>1. c \in ToSet(candles) \cup ToSet(sent)
    BY <1>6, Zenon DEF IInv, CandlesKept
  <2> QED BY <1>4, <1>5, <2>1, Zenon
<1>11. FileWithoutGaps'
  BY <1>2, <1>6, Zenon DEF IInv, FileWithoutGaps
<1> QED BY <1>2, <1>3, <1>7, <1>8, <1>9, <1>10, <1>11, Zenon
           DEF IInv, MarketRanks, MemoryAheadOfFile

\* The frame handled is newer than the list it is merged into, so it takes the
\* place of nothing the exchange shows last.
LEMMA ReceiveKeeps == IInv /\ Receive => IInv'
<1> SUFFICES ASSUME IInv, Receive PROVE IInv'
  OBVIOUS
<1> DEFINE c == Head(sent)
<1>1. /\ market' = market /\ proc' = proc /\ file' = file
      /\ starts' = starts /\ link' = link /\ missed' = missed
      /\ proc = "live" /\ sent # <<>>
      /\ candles' = Upsert(candles, c) /\ sent' = Tail(sent)
  BY Zenon DEF Receive
<1>2. TypeOK /\ MarketRanks
  BY Zenon DEF IInv
<1>3. /\ sent \in Seq(Candle) /\ candles \in Seq(Candle)
      /\ Ascending(candles) /\ file \in Seq(Candle)
  BY <1>2, Zenon DEF TypeOK
<1>4. /\ sent' \in Seq(Candle) /\ c \in ToSet(sent)
      /\ Len(sent) \in Nat /\ Len(sent) >= 1 /\ c = sent[1]
      /\ Len(sent') = Len(sent) - 1
      /\ \A i \in 1..Len(sent) - 1 : sent'[i] = sent[i + 1]
      /\ ToSet(sent) = {c} \cup ToSet(sent')
  BY <1>1, <1>3, HeadAndTail, Zenon
<1>5. /\ \A x \in ToSet(market) : x.t \in Int /\ x.v \in Nat
      /\ \A x, y \in ToSet(market) : x.t = y.t => x = y
      /\ \A x \in Held : x \in Candle /\ x.t \in Int /\ x.v \in Nat
  BY <1>2, MarketElements, HeldElements, Zenon
<1>6. c \in Held /\ c \in Candle
  BY <1>4, <1>5, Zenon DEF Held
<1>7. /\ candles' \in Seq(Candle) /\ Ascending(candles')
      /\ ToSet(candles') = {d \in ToSet(candles) : d.t # c.t} \cup {c}
  BY <1>1, <1>3, <1>6, UpsertContents, Zenon
<1> HIDE DEF c
<1>8. \A x \in ToSet(candles) : x.v < c.v
  BY <1>4, Zenon DEF IInv, SentInOrder
<1>9. TypeOK'
  BY <1>1, <1>2, <1>4, <1>7, Zenon DEF TypeOK
<1>10. HeldFromMarket'
  <2>1. Held' \subseteq Held
    BY <1>1, <1>4, <1>7, Zenon DEF Held
  <2> QED BY <1>1, <2>1, Zenon DEF IInv, HeldFromMarket
<1>11. SentInOrder'
  <2>1. /\ \A i, j \in 1..Len(sent) : i < j => sent[i].v < sent[j].v
        /\ \A x \in ToSet(candles), y \in ToSet(sent) : x.v < y.v
    BY Zenon DEF IInv, SentInOrder
  <2> DEFINE n == Len(sent)
  <2>2. \A i \in 1..n - 1 : i + 1 \in 1..n /\ 1 < i + 1
    BY <1>4
  <2>3. \A i, j \in 1..n - 1 : i < j => i + 1 < j + 1
    BY <1>4
  <2> HIDE DEF n
  <2>4. \A i, j \in 1..n - 1 : i < j => sent'[i].v < sent'[j].v
    BY <1>4, <2>1, <2>2, <2>3, Zenon DEF n
  <2>5. \A y \in ToSet(sent') : c.v < y.v
    <3> SUFFICES ASSUME NEW y \in ToSet(sent') PROVE c.v < y.v
      OBVIOUS
    <3>1. PICK i \in 1..n - 1 : y = sent'[i]
      BY <1>4, ListElements, Zenon DEF n
    <3>2. 1 \in 1..n /\ i + 1 \in 1..n /\ 1 < i + 1
      BY <1>4, <2>2 DEF n
    <3>3. y = sent[i + 1]
      BY <1>4, <3>1, Zenon DEF n
    <3> QED BY <1>4, <2>1, <3>2, <3>3, Zenon DEF n
  <2>6. \A x \in ToSet(candles'), y \in ToSet(sent') : x.v < y.v
    BY <1>4, <1>7, <2>1, <2>5, Zenon
  <2> QED BY <1>4, <2>4, <2>6, Zenon DEF SentInOrder, n
<1>12. MemoryAheadOfFile'
  <2>1. \A d \in ToSet(candles) : d.v <= c.v
    <3>1. \A d \in ToSet(candles) : d.v \in Nat /\ c.v \in Nat
      BY <1>5, <1>6, Zenon DEF Held
    <3> QED BY <1>8, <3>1
  <2>2. Covers(candles', candles)
    BY <1>1, <1>3, <1>6, <2>1, UpsertCovers, Zenon
  <2>3. Covers(candles, file)
    BY <1>1, Zenon DEF IInv, MemoryAheadOfFile
  <2>4. Covers(candles', file)
    BY <1>3, <1>7, <2>2, <2>3, CoversTransitive, Zenon
  <2>5. proc # "off"
    BY <1>1
  <2> QED BY <1>1, <2>4, <2>5, Zenon DEF MemoryAheadOfFile
<1>13. CandlesKept'
  <2> SUFFICES ASSUME NEW x \in ToSet(market), x.t \notin missed
               PROVE  x \in ToSet(candles') \cup ToSet(sent')
    BY <1>1, Zenon DEF CandlesKept
  <2>1. x \in ToSet(candles) \cup ToSet(sent)
    BY <1>1, Zenon DEF IInv, CandlesKept
  <2>2. x \in ToSet(candles) => x.t # c.t
    <3> SUFFICES ASSUME x \in ToSet(candles), x.t = c.t PROVE FALSE
      OBVIOUS
    <3>1. PICK y \in ToSet(market) : y.t = c.t /\ c.v <= y.v
      BY <1>6, Zenon DEF IInv, HeldFromMarket
    <3>2. y = x
      BY <1>5, <3>1, Zenon
    <3>3. x.v < c.v /\ c.v <= x.v
      BY <1>8, <3>1, <3>2, Zenon
    <3>4. x.v \in Nat /\ c.v \in Nat
      BY <1>5, <1>6, Zenon
    <3> QED BY <3>3, <3>4
  <2> QED BY <1>4, <1>7, <2>1, <2>2, Zenon
<1> QED BY <1>1, <1>9, <1>10, <1>11, <1>12, <1>13, Zenon
           DEF IInv, MarketRanks, FileWithoutGaps

-----------------------------------------------------------------------------
\* A request starts at a whole second.
LEMMA StartIsInt ==
  ASSUME TypeOK, NEW now \in Int
  PROVE  ComputeStart(file, now) \in Int
<1>1. IntervalSeconds \in Int /\ BootstrapLimit \in Int /\ 2000 \in Int
  BY RestAssumption
<1>2. file \in Seq(Candle)
  BY Zenon DEF TypeOK
<1>3. CASE file = <<>>
  <2> DEFINE back == IF BootstrapLimit <= 0 THEN 2000 ELSE BootstrapLimit
  <2>1. back \in Int
    BY <1>1
  <2>2. ComputeStart(file, now) = now - back * IntervalSeconds
    BY <1>3 DEF ComputeStart
  <2> HIDE DEF back
  <2>3. back * IntervalSeconds \in Int
    BY <1>1, <2>1
  <2> QED BY <2>2, <2>3
<1>4. CASE file # <<>>
  <2> DEFINE i == IF Len(file) > 1 THEN Len(file) - 1 ELSE 1
  <2>1. i \in 1..Len(file)
    <3>1. Len(file) \in Nat /\ Len(file) >= 1
      BY <1>2, <1>4, HeadAndTail, Zenon
    <3> QED BY <3>1
  <2>2. ComputeStart(file, now) = file[i].t + 1
    BY <1>4 DEF ComputeStart
  <2>3. file[i].t \in Int
    BY <1>2, <2>1, ListElements, Zenon
  <2> HIDE DEF i
  <2> QED BY <2>2, <2>3
<1> QED BY <1>3, <1>4, Zenon

\* A candle before the start of a request is in the file, or the service has
\* taken note that it is not.
LEMMA BeforeStart ==
  ASSUME TypeOK, FileWithoutGaps, NEW now \in Int,
         NEW c \in ToSet(market), c.t \in Int,
         c.t < ComputeStart(file, now),
         c.t \notin missed, c.t \notin NotAsked(ComputeStart(file, now))
  PROVE  c \in ToSet(file)
<1> DEFINE start == ComputeStart(file, now)
<1>1. file \in Seq(Candle) /\ Ascending(file)
  BY Zenon DEF TypeOK
<1>2. file # <<>>
  <2> SUFFICES ASSUME file = <<>> PROVE FALSE
    OBVIOUS
  <2>1. Len(file) # 1
    BY EmptySeq
  <2>2. c.t \in {t \in OpenTimes(market) : t < start}
    BY Zenon DEF OpenTimes
  <2> QED BY <2>1, <2>2, Zenon DEF NotAsked
<1> DEFINE n == Len(file)
<1>3. n \in Nat /\ n >= 1
  BY <1>1, <1>2, HeadAndTail, Zenon
<1>4. /\ \A i \in 1..n : file[i] \in ToSet(file) /\ file[i].t \in Int
      /\ DOMAIN file = 1..n
  BY <1>1, ListElements, Zenon
<1>5. \A x \in ToSet(file) : c.t < x.t => c \in ToSet(file)
  BY Zenon DEF FileWithoutGaps
<1>6. CASE n = 1
  <2>1. start = file[1].t + 1
    BY <1>2, <1>6 DEF ComputeStart
  <2>2. 1 \in 1..n
    BY <1>3
  <2>3. c.t # file[1].t
    <3>1. c.t \notin OpenTimes(file)
      BY <1>6, Zenon DEF NotAsked
    <3> QED BY <1>4, <2>2, <3>1, Zenon DEF OpenTimes
  <2>4. file[1].t \in Int /\ c.t < start
    BY <1>4, <2>2, Zenon
  <2> HIDE DEF start
  <2>5. c.t < file[1].t
    BY <2>1, <2>3, <2>4
  <2> QED BY <1>4, <1>5, <2>2, <2>5, Zenon
<1>7. CASE n > 1
  <2>1. start = file[n - 1].t + 1
    BY <1>2, <1>7 DEF ComputeStart
  <2>2. n - 1 \in 1..n /\ n \in 1..n /\ n - 1 < n
    BY <1>3, <1>7
  <2>3. file[n - 1].t < file[n].t
    BY <1>1, <1>4, <2>2, Zenon DEF Ascending
  <2>4. file[n - 1].t \in Int /\ file[n].t \in Int /\ c.t < start
    BY <1>4, <2>2, Zenon
  <2> HIDE DEF start, n
  <2>5. c.t < file[n].t
    BY <2>1, <2>3, <2>4
  <2> QED BY <1>4, <1>5, <2>2, <2>5, Zenon
<1> HIDE DEF n
<1>8. n = 1 \/ n > 1
  BY <1>3
<1> QED BY <1>6, <1>7, <1>8, Zenon

\* The clock shows whole seconds.
LEMMA NowIsInt ==
  ASSUME NEW now \in Now
  PROVE  now \in Int
BY DEF Now

\* What a start may add to missed are open times.
LEMMA NotedTimes ==
  ASSUME TypeOK, MarketRanks, NEW start
  PROVE  NotAsked(start) \subseteq Times /\ Asked(start) \subseteq Times
<1>1. \A x \in ToSet(market) : x.t \in Times
  BY MarketElements, Zenon
<1>2. \A x \in ToSet(file) : x.t \in Times
  BY HeldElements, Zenon DEF Held
<1>3. Asked(start) \subseteq Times
  BY <1>1, Zenon DEF Asked, OpenTimes
<1>4. NotAsked(start) \subseteq Times
  <2>1. /\ OpenTimes(file) \subseteq Times
        /\ {t \in OpenTimes(market) : t < start} \subseteq Times
    BY <1>1, <1>2, Zenon DEF OpenTimes
  <2> QED BY <2>1 DEF NotAsked
<1> QED BY <1>3, <1>4

\* A start that does not fetch takes note of all it would have asked for.
LEMMA StartUnfetchedKeeps ==
  IInv /\ (\E now \in Now : StartUnfetched(now)) => IInv'
<1> SUFFICES ASSUME IInv, NEW now \in Now, StartUnfetched(now) PROVE IInv'
  BY Zenon
<1> DEFINE start == ComputeStart(file, now)
<1>1. /\ market' = market /\ proc' = "live" /\ candles' = file
      /\ file' = file /\ starts' = starts + 1 /\ link' = link
      /\ sent' = sent /\ proc = "off" /\ starts < MaxStarts
      /\ missed' = missed \cup NotAsked(start) \cup Asked(start)
  BY Zenon DEF StartUnfetched
<1>2. TypeOK /\ MarketRanks /\ FileWithoutGaps
  BY Zenon DEF IInv
<1>3. /\ candles = <<>> /\ sent = <<>> /\ link = "down"
  BY <1>1, Zenon DEF IInv, MemoryAheadOfFile
<1>4. file \in Seq(Candle) /\ Ascending(file)
  BY <1>2, Zenon DEF TypeOK
<1>5. now \in Int /\ start \in Int
  <2>1. now \in Int
    BY NowIsInt
  <2> QED BY <1>2, <2>1, StartIsInt, Zenon
<1> HIDE DEF start
<1>6. TypeOK'
  <2>1. starts' \in 0..MaxStarts
    <3>1. starts \in 0..MaxStarts
      BY <1>2, Zenon DEF TypeOK
    <3> QED BY <1>1, <3>1, HistoryAssumption
  <2>2. missed' \subseteq Times
    <3>1. missed \subseteq Times
      BY <1>2, Zenon DEF TypeOK
    <3> QED BY <1>1, <1>2, <3>1, NotedTimes
  <2>3. proc' \in {"off", "live"} /\ link' # "up" /\ link' \in {"up", "down"}
    BY <1>1, <1>3
  <2> QED BY <1>1, <1>2, <1>4, <2>1, <2>2, <2>3, Zenon DEF TypeOK
<1>7. HeldFromMarket'
  <2>1. Held' \subseteq Held
    BY <1>1, Zenon DEF Held
  <2> QED BY <1>1, <2>1, Zenon DEF IInv, HeldFromMarket
<1>8. SentInOrder'
  <2>1. 1..Len(sent') = {}
    BY <1>1, <1>3
  <2> QED BY <1>1, <1>3, <2>1, EmptyElements, Zenon DEF SentInOrder
<1>9. MemoryAheadOfFile'
  <2>1. proc' # "off" /\ Covers(file, file)
    BY <1>1, <1>4, CoversReflexive
  <2> QED BY <1>1, <2>1, Zenon DEF MemoryAheadOfFile
<1>10. CandlesKept'
  <2> SUFFICES ASSUME NEW c \in ToSet(market), c.t \notin missed'
               PROVE  c \in ToSet(file)
    BY <1>1, Zenon DEF CandlesKept
  <2>1. /\ c.t \notin missed /\ c.t \notin NotAsked(start)
        /\ c.t \notin Asked(start)
    BY <1>1
  <2>2. c.t \in OpenTimes(market) /\ c.t \in Int
    BY <1>2, MarketElements, Zenon DEF OpenTimes
  <2>3. ~(c.t >= start)
    BY <2>1, <2>2, Zenon DEF Asked
  <2>4. c.t < start
    BY <1>5, <2>2, <2>3
  <2> QED BY <1>2, <1>5, <2>1, <2>2, <2>4, BeforeStart, Zenon DEF start
<1>11. FileWithoutGaps'
  <2>1. missed \subseteq missed'
    BY <1>1
  <2> QED BY <1>1, <1>2, <2>1, Zenon DEF FileWithoutGaps
<1> QED BY <1>1, <1>2, <1>6, <1>7, <1>8, <1>9, <1>10, <1>11, Zenon
           DEF IInv, MarketRanks

\* What a start that fetches leaves in the file and in memory.
LEMMA StartMerges ==
  ASSUME IInv, NEW now \in Now, Start(now)
  PROVE  /\ file' \in Seq(Candle) /\ Ascending(file')
         /\ ToSet(file') \subseteq ToSet(file) \cup ToSet(market)
         /\ Covers(file', file)
         /\ \A c \in ToSet(market) : c.t \notin missed' => c \in ToSet(file')
         /\ missed' \subseteq Times
<1> DEFINE start == ComputeStart(file, now)
<1>0. PICK answer \in Answers(market, start) :
        /\ file' = Merge(file, FetchKline(answer))
        /\ missed' = (missed \cup NotAsked(start) \cup NotAnswered(start, answer)
                         \cup BeyondLimit(answer))
                       \ OpenTimes(FetchKline(answer))
  BY Zenon DEF Start
<1> DEFINE fetched == FetchKline(answer)
<1>1. /\ file' = Merge(file, fetched)
      /\ missed' = (missed \cup NotAsked(start) \cup NotAnswered(start, answer)
                       \cup BeyondLimit(answer))
                     \ OpenTimes(fetched)
  BY <1>0
<1>2. TypeOK /\ MarketRanks /\ FileWithoutGaps
  BY Zenon DEF IInv
<1>3. /\ file \in Seq(Candle) /\ Ascending(file)
      /\ market \in Seq(Candle) /\ Ascending(market)
  BY <1>2, Zenon DEF TypeOK
<1>4. now \in Int /\ start \in Int
  <2>1. now \in Int
    BY NowIsInt
  <2> QED BY <1>2, <2>1, StartIsInt, Zenon
<1> HIDE DEF start
<1>5. /\ answer \in Seq(Candle) /\ ToSet(answer) \subseteq ToSet(market)
      /\ fetched \in Seq(Candle) /\ Ascending(fetched)
      /\ ToSet(fetched) \subseteq ToSet(answer)
      /\ \A i \in 1..Len(answer) :
           (BootstrapLimit > 0 => i > Len(answer) - BootstrapLimit)
             => answer[i] \in ToSet(fetched)
  BY <1>3, <1>4, FetchContents, Zenon
<1>6. /\ fetched \in Seq(Candle) /\ Ascending(fetched)
      /\ ToSet(fetched) \subseteq ToSet(market)
  BY <1>5, Zenon
<1> HIDE DEF fetched
<1>7. /\ file' \in Seq(Candle) /\ Ascending(file')
      /\ ToSet(file') =
           {d \in ToSet(file) : \A x \in ToSet(fetched) : x.t # d.t}
             \cup ToSet(fetched)
  BY <1>1, <1>3, <1>6, MergeContents, Zenon
<1>8. /\ \A x \in ToSet(market) : x.t \in Int /\ x.v \in Nat
      /\ \A x, y \in ToSet(market) : x.t = y.t => x = y
  BY <1>2, MarketElements, Zenon
<1>9. Covers(file', file)
  <2> SUFFICES ASSUME NEW d \in ToSet(file), NEW x \in ToSet(fetched), x.t = d.t
               PROVE  d.v <= x.v
    BY <1>1, <1>3, <1>6, MergeCovers, Zenon
  <2>1. PICK y \in ToSet(market) : y.t = d.t /\ d.v <= y.v
    BY Zenon DEF IInv, HeldFromMarket, Held
  <2>2. x \in ToSet(market)
    BY <1>6, Zenon
  <2>3. y = x
    BY <1>8, <2>1, <2>2, Zenon
  <2> QED BY <2>1, <2>3, Zenon
<1>10. ASSUME NEW c \in ToSet(market), c.t \notin missed'
       PROVE  c \in ToSet(file')
  <2>1. CASE c.t \in OpenTimes(fetched)
    <3>1. PICK x \in ToSet(fetched) : x.t = c.t
      BY <2>1, Zenon DEF OpenTimes
    <3>2. x = c
      BY <1>6, <1>8, <3>1, Zenon
    <3> QED BY <1>7, <3>2, Zenon
  <2>2. CASE c.t \notin OpenTimes(fetched)
    <3>1. /\ c.t \notin missed /\ c.t \notin NotAsked(start)
          /\ c.t \notin NotAnswered(start, answer)
          /\ c.t \notin BeyondLimit(answer)
      BY <1>1, <1>10, <2>2, Zenon
    <3>2. \A x \in ToSet(fetched) : x.t # c.t
      BY <2>2, Zenon DEF OpenTimes
    <3>3. c.t < start
      <4> SUFFICES ASSUME c.t >= start PROVE FALSE
        BY <1>4, <1>8
      <4>1. c.t \in Asked(start)
        BY Zenon DEF Asked, OpenTimes
      <4>2. PICK x \in ToSet(answer) : x.t = c.t
        BY <3>1, <4>1, Zenon DEF NotAnswered, OpenTimes
      <4>3. x = c
        BY <1>5, <1>8, <4>2, Zenon
      <4>4. PICK i \in 1..Len(answer) : c = answer[i]
        BY <1>5, <4>2, <4>3, ListElements, Zenon
      <4>5. ~(BootstrapLimit > 0 => i > Len(answer) - BootstrapLimit)
        BY <1>5, <3>2, <4>4, Zenon
      <4>6. BootstrapLimit > 0 /\ i \in 1..Len(answer) - BootstrapLimit
        <5>1. Len(answer) \in Nat /\ BootstrapLimit \in Int
          BY <1>5, ListElements, RestAssumption
        <5> DEFINE n == Len(answer)
        <5> HIDE DEF n
        <5>2. BootstrapLimit > 0 /\ i \in 1..n /\ ~(i > n - BootstrapLimit)
          BY <4>5, Zenon DEF n
        <5>3. n \in Nat
          BY <5>1 DEF n
        <5>4. i \in 1..n - BootstrapLimit
          BY <5>1, <5>2, <5>3
        <5> QED BY <5>2, <5>4, Zenon DEF n
      <4>7. c.t \in BeyondLimit(answer)
        BY <4>4, <4>6, Zenon DEF BeyondLimit
      <4> QED BY <3>1, <4>7, Zenon
    <3>4. c \in ToSet(file)
      BY <1>2, <1>4, <1>8, <3>1, <3>3, BeforeStart, Zenon DEF start
    <3> QED BY <1>7, <3>2, <3>4, Zenon
  <2> QED BY <2>1, <2>2, Zenon
<1>11. missed' \subseteq Times
  <2>1. missed \subseteq Times
    BY <1>2, Zenon DEF TypeOK
  <2>2. NotAsked(start) \subseteq Times /\ NotAnswered(start, answer) \subseteq Times
    BY <1>2, NotedTimes, Zenon DEF NotAnswered
  <2>3. BeyondLimit(answer) \subseteq Times
    <3>1. \A i \in 1..Len(answer) : answer[i].t \in Times
      BY <1>5, ListElements DEF Candle
    <3>2. \A i \in 1..Len(answer) - BootstrapLimit :
            BootstrapLimit > 0 => i \in 1..Len(answer)
      <4> DEFINE n == Len(answer)
      <4>1. n \in Nat /\ BootstrapLimit \in Int
        BY <1>5, ListElements, RestAssumption
      <4> HIDE DEF n
      <4>2. \A i \in 1..n - BootstrapLimit : BootstrapLimit > 0 => i \in 1..n
        BY <4>1
      <4> QED BY <4>2 DEF n
    <3> QED BY <3>1, <3>2, Zenon DEF BeyondLimit
  <2> QED BY <1>1, <2>1, <2>2, <2>3
<1>12. ToSet(file') \subseteq ToSet(file) \cup ToSet(market)
  BY <1>6, <1>7, Zenon
<1> QED BY <1>7, <1>9, <1>10, <1>11, <1>12, Zenon

\* A start that does has what is in the file and what it fetched.
LEMMA StartKeeps == IInv /\ (\E now \in Now : Start(now)) => IInv'
<1> SUFFICES ASSUME IInv, NEW now \in Now, Start(now) PROVE IInv'
  BY Zenon
<1>1. /\ market' = market /\ proc' = "live" /\ candles' = file'
      /\ starts' = starts + 1 /\ link' = link
      /\ sent' = sent /\ proc = "off" /\ starts < MaxStarts
  BY Zenon DEF Start
<1>2. TypeOK /\ MarketRanks
  BY Zenon DEF IInv
<1>3. /\ candles = <<>> /\ sent = <<>> /\ link = "down"
  BY <1>1, Zenon DEF IInv, MemoryAheadOfFile
<1>4. /\ file' \in Seq(Candle) /\ Ascending(file')
      /\ ToSet(file') \subseteq ToSet(file) \cup ToSet(market)
      /\ \A c \in ToSet(market) : c.t \notin missed' => c \in ToSet(file')
      /\ missed' \subseteq Times
  BY StartMerges, Zenon
<1>5. TypeOK'
  <2>1. starts' \in 0..MaxStarts
    <3>1. starts \in 0..MaxStarts
      BY <1>2, Zenon DEF TypeOK
    <3> QED BY <1>1, <3>1, HistoryAssumption
  <2>2. proc' \in {"off", "live"} /\ link' # "up" /\ link' \in {"up", "down"}
    BY <1>1, <1>3
  <2> QED BY <1>1, <1>2, <1>4, <2>1, <2>2, Zenon DEF TypeOK
<1>6. HeldFromMarket'
  <2> SUFFICES ASSUME NEW x \in Held'
               PROVE  /\ \E y \in ToSet(market) : y.t = x.t /\ x.v <= y.v
                      /\ \A y \in ToSet(market) : y.t < x.t => y.v < x.v
    BY <1>1, Zenon DEF HeldFromMarket
  <2>1. x \in Held \/ x \in ToSet(market)
    BY <1>1, <1>4, Zenon DEF Held
  <2>2. CASE x \in Held
    BY <2>2, Zenon DEF IInv, HeldFromMarket
  <2>3. CASE x \in ToSet(market)
    <3>1. x.v \in Nat
      BY <1>2, <2>3, MarketElements, Zenon
    <3>2. x.v <= x.v
      BY <3>1
    <3> QED BY <1>2, <2>3, <3>2, Zenon DEF MarketRanks
  <2> QED BY <2>1, <2>2, <2>3, Zenon
<1>7. SentInOrder'
  <2>1. 1..Len(sent') = {}
    BY <1>1, <1>3
  <2> QED BY <1>1, <1>3, <2>1, EmptyElements, Zenon DEF SentInOrder
<1>8. MemoryAheadOfFile'
  <2>1. proc' # "off" /\ Covers(file', file')
    BY <1>1, <1>4, CoversReflexive
  <2> QED BY <1>1, <2>1, Zenon DEF MemoryAheadOfFile
<1>9. CandlesKept' /\ FileWithoutGaps'
  BY <1>1, <1>4, Zenon DEF CandlesKept, FileWithoutGaps
<1> QED BY <1>1, <1>2, <1>5, <1>6, <1>7, <1>8, <1>9, Zenon
           DEF IInv, MarketRanks

-----------------------------------------------------------------------------
\* The invariant holds throughout.
THEOREM Invariance == Spec => []IInv
<1>1. Init => IInv
  BY InitIInv
<1>2. IInv /\ [Next]_vars => IInv'
  BY TradeKeeps, RollKeeps, ConnectKeeps, DropKeeps, ReceiveKeeps, FlushKeeps,
     StopKeeps, StartKeeps, StartUnfetchedKeeps, RestKeeps, Zenon
     DEF Next, Finished
<1> QED BY <1>1, <1>2, PTL DEF Spec

\* The lists of the market, the store and the file stay ascending lists of
\* candles, and the websocket is up only while the process is.
THEOREM TypeCorrect == Spec => []TypeOK
<1>1. IInv => TypeOK
  BY Zenon DEF IInv
<1> QED BY <1>1, Invariance, PTL

\* The service loses a closed candle only for a reason missed records: not by
\* a kill, a restart, or a save that came late or never.
THEOREM KeptClosedCandles == Spec => []ClosedCandlesKept
<1>1. IInv => ClosedCandlesKept
  <2> SUFFICES ASSUME IInv PROVE ClosedCandlesKept
    OBVIOUS
  <2>1. market \in Seq(Candle) /\ Ascending(market) /\ market # <<>>
    BY LastIsNewest, Zenon DEF IInv
  <2>2. ToSet(Front(market)) \subseteq ToSet(market)
    BY <2>1, LastAndFront
  <2> QED BY <2>2, Zenon DEF IInv, CandlesKept, ClosedCandlesKept
<1> QED BY <1>1, Invariance, PTL

\* No restart, merge or save takes a candle from the file or puts older
\* content over newer.
THEOREM FileMovesForward == Spec => FileForward
<1>1. IInv /\ [Next]_vars => [Covers(file', file)]_vars
  <2> SUFFICES ASSUME IInv, Next PROVE Covers(file', file)
    BY Zenon
  <2>1. Covers(file, file)
    BY CoversReflexive, Zenon DEF IInv, TypeOK
  <2>2. CASE \E now \in Now : Start(now)
    BY <2>2, StartMerges, Zenon
  <2>3. CASE Flush
    BY <2>3, Zenon DEF Flush, IInv, MemoryAheadOfFile
  <2>4. CASE file' = file
    BY <2>1, <2>4, Zenon
  <2> QED BY <2>2, <2>3, <2>4, Zenon
          DEF Next, Trade, Roll, Show, Connect, Drop, Receive, Stop,
              StartUnfetched, Finished, vars, processVars
<1> QED BY <1>1, Invariance, PTL DEF Spec, FileForward
=============================================================================
