---------------------------- MODULE SnapshotFile ----------------------------
(***************************************************************************)
(* What the kline service promises a reader of its JSON files: the file of *)
(* a pair always shows one complete, ordered candle list, which only ever  *)
(* moves forward, and never ahead of what the service has received.  How   *)
(* and when the list is published is left open.                            *)
(***************************************************************************)
EXTENDS Candles

CONSTANT AllKeys

VARIABLES
  latest,                   \* key -> the list the service has built
  saved                     \* key -> the list a reader of the file gets

vars == <<latest, saved>>

Init ==
  /\ latest = [k \in AllKeys |-> <<>>]
  /\ saved = [k \in AllKeys |-> <<>>]

\* The service merges one candle, newer than what it held for that time.
Apply(k) ==
  /\ \E c \in ToSet(latest'[k]) :
       /\ \A d \in ToSet(latest[k]) : d.t = c.t => d.v < c.v
       /\ latest' = [latest EXCEPT ![k] = Upsert(latest[k], c)]
  /\ UNCHANGED saved

\* The file of one pair moves, in one step, to a list between the one it
\* showed and the one the service holds.
Publish(k) ==
  /\ saved' = [saved EXCEPT ![k] = saved'[k]]
  /\ Ascending(saved'[k])
  /\ Covers(saved'[k], saved[k])
  /\ Covers(latest[k], saved'[k])
  /\ UNCHANGED latest

\* A new process starts from what the files show.
Recover == latest' = saved /\ UNCHANGED saved

Next == Recover \/ \E k \in AllKeys : Apply(k) \/ Publish(k)

Spec == Init /\ [][Next]_vars
=============================================================================
