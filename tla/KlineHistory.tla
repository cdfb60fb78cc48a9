----------------------------- MODULE KlineHistory -----------------------------
(***************************************************************************)
(* The candles of one pair over the whole life of the kline service: what  *)
(* the exchange shows of them, what the websocket brings while it is up,   *)
(* what the flush loop leaves on disk, what kills lose and what the REST   *)
(* bootstrap of the next start brings back.                                *)
(*                                                                         *)
(* A composition of the parts the other modules cut finer.  The live phase *)
(* appears as its promise to readers of the file (SnapshotFile, which      *)
(* KlineLive implements): at any moment the file may be brought up to the  *)
(* list in memory.  The connection appears as what KlineConn shows of it:  *)
(* a sequence of frames, of which a drop loses the last ones.              *)
(***************************************************************************)
EXTENDS KlineRest, FiniteSetsExt

CONSTANTS
  FirstCandles,             \* numbers of candles there may be at first
  MaxRank,                  \* bound: contents the exchange ever shows
  MaxStarts                 \* bound: starts of the service

ASSUME HistoryAssumption ==
  /\ FirstCandles \subseteq Nat \ {0} /\ Min(Times) \in Times
  /\ \A n \in FirstCandles : \A i \in 1..n :
       Min(Times) + (i - 1) * IntervalSeconds \in Times
  /\ MaxRank \in Nat /\ MaxStarts \in Nat

VARIABLES
  market,                   \* the exchange's candles; the last one is open
  proc,                     \* the process: off, live
  candles,                  \* the pair's list in the store
  file,                     \* the list of its JSON file, empty without one
  link,                     \* the websocket: up (subscribed), down
  sent,                     \* frames sent to the service and not handled yet
  starts                    \* starts so far

\* History variable: the open times of which the service had no way to learn
\* the content the exchange shows last.
VARIABLE missed

processVars == <<proc, candles, file, starts>>
vars == <<market, processVars, link, sent, missed>>

OpenTimes(s) == {c.t : c \in ToSet(s)}

TypeOK ==
  /\ market \in Seq(Candle) /\ Ascending(market)
  /\ proc \in {"off", "live"}
  /\ candles \in Seq(Candle) /\ Ascending(candles)
  /\ file \in Seq(Candle) /\ Ascending(file)
  /\ link \in {"up", "down"} /\ (link = "up" => proc = "live")
  /\ sent \in Seq(Candle)
  /\ starts \in 0..MaxStarts
  /\ missed \subseteq Times

Init ==
  /\ \E n \in FirstCandles :
       market = [i \in 1..n |-> [t |-> Min(Times) + (i - 1) * IntervalSeconds,
                                 v |-> i]]
  /\ proc = "off" /\ candles = <<>> /\ file = <<>> /\ starts = 0
  /\ link = "down" /\ sent = <<>> /\ missed = {}

-----------------------------------------------------------------------------
(* The exchange and the connection.                                        *)

\* The exchange shows a candle and pushes it to a subscriber.
Show(c) ==
  /\ c \in Candle /\ c.v <= MaxRank
  /\ IF link = "up"
     THEN /\ sent' = Append(sent, c)
          /\ missed' = missed \ {c.t}
     ELSE /\ missed' = IF proc = "live" THEN missed \cup {c.t} ELSE missed
          /\ UNCHANGED sent
  /\ UNCHANGED <<processVars, link>>

\* A trade changes the open candle.
Trade ==
  LET c == [Last(market) EXCEPT !.v = @ + 1]
  IN  Show(c) /\ market' = Append(Front(market), c)

\* The open candle closes and the first trade of the next one opens it.
Roll ==
  LET c == [t |-> Last(market).t + IntervalSeconds, v |-> Last(market).v + 1]
  IN  Show(c) /\ market' = Append(market, c)

\* Dialled and subscribed: after the bootstrap, or after a back-off.
Connect ==
  /\ proc = "live" /\ link = "down"
  /\ link' = "up"
  /\ UNCHANGED <<market, processVars, sent, missed>>

\* The socket is lost, with the frames that had not reached the channel.
Drop ==
  /\ link = "up"
  /\ link' = "down"
  /\ \E n \in 0..Len(sent) :
       /\ sent' = SubSeq(sent, 1, n)
       /\ missed' = missed \cup OpenTimes(SubSeq(sent, n + 1, Len(sent)))
  /\ UNCHANGED <<market, processVars>>

-----------------------------------------------------------------------------
(* The live phase.                                                         *)

\* The handler upserts the candle of the next frame.
Receive ==
  /\ proc = "live" /\ sent # <<>>
  /\ candles' = Upsert(candles, Head(sent))
  /\ sent' = Tail(sent)
  /\ UNCHANGED <<market, proc, file, starts, link, missed>>

\* A save of the pair succeeds.
Flush ==
  /\ proc = "live" /\ file # candles
  /\ file' = candles
  /\ UNCHANGED <<market, proc, candles, starts, link, sent, missed>>

\* The process is killed, or exits (after a Flush, when that succeeds).
Stop ==
  /\ proc = "live"
  /\ proc' = "off" /\ candles' = <<>> /\ link' = "down" /\ sent' = <<>>
  /\ UNCHANGED <<market, file, starts, missed>>

-----------------------------------------------------------------------------
(* A start: preload and bootstrap of the pair, then the live phase.        *)

\* What no request of this start asks for, though the file does not hold it
\* in its last content: without a file what lies further back than the limit,
\* and with a file of one candle that candle.
NotAsked(start) ==
  IF Len(file) = 1 THEN OpenTimes(file)
  ELSE IF file = <<>> THEN {t \in OpenTimes(market) : t < start} ELSE {}

Asked(start) == {t \in OpenTimes(market) : t >= start}

\* What the exchange leaves out of an answer that would be too long.
NotAnswered(start, answer) == Asked(start) \ OpenTimes(answer)

\* What the limit leaves out of an answer: its oldest candles.
BeyondLimit(answer) ==
  IF BootstrapLimit > 0
  THEN {answer[i].t : i \in 1..Len(answer) - BootstrapLimit}
  ELSE {}

\* The file is read, the fetch succeeds, and so does the save of the merged
\* list.  (A read that fails is LoadExistingFails of KlineBootstrap.)
Start(now) ==
  LET start == ComputeStart(file, now)
  IN  /\ proc = "off" /\ starts < MaxStarts
      /\ proc' = "live" /\ starts' = starts + 1
      /\ \E answer \in Answers(market, start) :
           LET fetched == FetchKline(answer)
           IN  /\ file' = Merge(file, fetched)
               /\ missed' = (missed \cup NotAsked(start)
                                \cup NotAnswered(start, answer)
                                \cup BeyondLimit(answer))
                              \ OpenTimes(fetched)
      /\ candles' = file'
      /\ UNCHANGED <<market, link, sent>>

\* The fetch or the save fails: the pair goes live with what the file held.
StartUnfetched(now) ==
  LET start == ComputeStart(file, now)
  IN  /\ proc = "off" /\ starts < MaxStarts
      /\ proc' = "live" /\ starts' = starts + 1
      /\ candles' = file
      /\ missed' = missed \cup NotAsked(start) \cup Asked(start)
      /\ UNCHANGED <<market, file, link, sent>>

\* The clock of the service while the last candle is open.
Now == Last(market).t..Last(market).t + IntervalSeconds - 1

\* The market goes on as long as its bound allows; the service may rest.
Finished == proc = "off" /\ starts = MaxStarts /\ UNCHANGED vars

Next ==
  \/ Trade \/ Roll \/ Connect \/ Drop
  \/ Receive \/ Flush \/ Stop
  \/ \E now \in Now : Start(now) \/ StartUnfetched(now)
  \/ Finished

Spec == Init /\ [][Next]_vars

-----------------------------------------------------------------------------
(* Safety.                                                                 *)

\* The service loses a closed candle, or keeps it in other than its final
\* content, only for one of the reasons that missed records: its last push
\* came while the link was down or was lost with the link, a request failed,
\* the exchange left it out of an answer or the limit cut it off, or no
\* request asked for it.  Kills, restarts and saves that come late or never
\* lose none: what they take, the next start asks for again.
ClosedCandlesKept ==
  proc = "live" =>
    \A c \in ToSet(Front(market)) :
      c.t \notin missed => c \in ToSet(candles) \cup ToSet(sent)

\* No restart, merge or save takes a candle from the file or puts older
\* content over newer.
FileForward == [][Covers(file', file)]_vars
=============================================================================
