------------------------------- MODULE Candles -------------------------------
(***************************************************************************)
(* The candle lists of the kline service: package internal/kline.          *)
(*                                                                         *)
(* A candle is its open time t and its content v.  The eleven payload      *)
(* strings of the Go struct (o, h, l, c, v, a, q, ro, rc, rh, rl) are      *)
(* replaced together on every upsert, so one number stands for them all:   *)
(* v is the rank, in order of arrival, of the push that carried them.  A   *)
(* larger v is newer content of the same candle.                           *)
(***************************************************************************)
EXTENDS Integers, SequencesExt

CONSTANT Times              \* the candle open times the exchange may send

ASSUME TimesAssumption == Times \subseteq Int

Candle == [t : Times, v : Nat \ {0}]

-----------------------------------------------------------------------------
(* What the operators of this package promise about a list.                *)

\* Open times strictly increase along the list.
Ascending(s) == \A i, j \in DOMAIN s : i < j => s[i].t < s[j].t

\* Every candle of older is in newer, with content at least as new.
Covers(newer, older) ==
  \A x \in ToSet(older) : \E y \in ToSet(newer) : y.t = x.t /\ y.v >= x.v

-----------------------------------------------------------------------------
(* sort.Search, by its contract: the least index whose candle is not       *)
(* before the given time, one past the end if there is none.               *)

AtOrAfter(existing, i, time) == i > Len(existing) \/ existing[i].t >= time

SearchIndex(existing, time) ==
  CHOOSE i \in 1..Len(existing) + 1 :
    /\ AtOrAfter(existing, i, time)
    /\ \A j \in 1..i - 1 : ~AtOrAfter(existing, j, time)

\* Two slips a rewrite of Upsert could make: appending a candle whatever its
\* time, and writing over the candle found without comparing its time.
UpsertAppending(existing, incoming) == Append(existing, incoming)

UpsertOverwriting(existing, incoming) ==
  LET idx == SearchIndex(existing, incoming.t)
  IN  IF idx <= Len(existing)
      THEN ReplaceAt(existing, idx, incoming)
      ELSE Append(existing, incoming)

\* Replace the candle with the incoming open time, or insert it in order.
Upsert(existing, incoming) ==
  LET idx == SearchIndex(existing, incoming.t)
  IN  IF idx <= Len(existing) /\ existing[idx].t = incoming.t
      THEN ReplaceAt(existing, idx, incoming)
      ELSE InsertAt(existing, idx, incoming)

\* Two slips: what is fetched replaces the list, or is put behind it.
MergeReplacing(existing, fetched) == fetched

MergeAppending(existing, fetched) == existing \o fetched

\* The loop of bootstrapPair: Upsert of one fetched candle after the other.
Merge(existing, fetched) ==
  LET after[n \in 0..Len(fetched)] ==
        IF n = 0 THEN existing ELSE Upsert(after[n - 1], fetched[n])
  IN  after[Len(fetched)]
=============================================================================
