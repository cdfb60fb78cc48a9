------------------------------ MODULE KlineRest ------------------------------
(***************************************************************************)
(* What the bootstrap of one pair computes: internal/rest/client.go and    *)
(* the pure part of bootstrapPair in internal/rest/bootstrap.go.           *)
(*                                                                         *)
(* Times are seconds; candles of the pair's interval open every            *)
(* IntervalSeconds of them.                                                *)
(***************************************************************************)
EXTENDS Candles

CONSTANTS
  IntervalSeconds,          \* the length of the pair's interval
  BootstrapLimit,           \* cfg.BootstrapLimit
  AnswerLimit               \* candles the exchange returns at most: 2000

ASSUME RestAssumption ==
  /\ IntervalSeconds \in Nat \ {0}
  /\ BootstrapLimit \in Int /\ AnswerLimit \in Nat \ {0}

\* The answers there may be to a request without end: what the exchange has
\* from start on or, when it is more than it returns at once, as many of
\* those in a row as it does.  Which, nothing in the repository says.
Answers(history, start) ==
  LET first == SearchIndex(history, start)
      lastRun == Len(history) - AnswerLimit + 1
  IN  IF lastRun <= first
      THEN {SubSeq(history, first, Len(history))}
      ELSE {SubSeq(history, i, i + AnswerLimit - 1) : i \in first..lastRun}

\* FetchKline: of an answer longer than the limit, the last candles.
FetchKline(answer) ==
  IF BootstrapLimit > 0 /\ Len(answer) > BootstrapLimit
  THEN SubSeq(answer, Len(answer) - BootstrapLimit + 1, Len(answer))
  ELSE answer

\* A slip: the request starts after the last candle of the file, which was
\* still open when it was written.
ComputeStartAfterLast(existing, now) ==
  IF existing # <<>>
  THEN Last(existing).t + 1
  ELSE now - (IF BootstrapLimit <= 0 THEN 2000 ELSE BootstrapLimit)
               * IntervalSeconds

\* computeStart: after the last candle but one of the file, so that the last,
\* which was still open, is fetched again; after the only one if there is no
\* other; as far back as the limit goes if there is none.
ComputeStart(existing, now) ==
  IF existing # <<>>
  THEN existing[IF Len(existing) > 1 THEN Len(existing) - 1 ELSE 1].t + 1
  ELSE now - (IF BootstrapLimit <= 0 THEN 2000 ELSE BootstrapLimit)
               * IntervalSeconds
=============================================================================
