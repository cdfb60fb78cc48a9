----------------------------- MODULE CandleStore -----------------------------
(***************************************************************************)
(* The in-memory snapshot store of the kline service: type Store of        *)
(* internal/store/store.go.                                                *)
(*                                                                         *)
(* An entry is the candle list of one symbol-interval pair and a dirty     *)
(* flag.  The map of entries is its key set, the lists (empty outside the  *)
(* key set) and the set of keys whose flag is up.  Every operation runs    *)
(* under the store's RWMutex, so each is one atomic step of whichever      *)
(* goroutine calls it.                                                     *)
(***************************************************************************)
EXTENDS Candles

CONSTANT AllKeys            \* every symbol-interval pair a message can name

VARIABLES
  keys,                     \* the keys of s.entries
  candles,                  \* key -> candle list of its entry
  dirty                     \* the keys whose entry is dirty

storeVars == <<keys, candles, dirty>>

NoCandles == [k \in AllKeys |-> <<>>]

StoreTypeOK ==
  /\ keys \subseteq AllKeys
  /\ candles \in [AllKeys -> Seq(Candle)]
  /\ dirty \subseteq keys

-----------------------------------------------------------------------------
Has(k) == k \in keys

\* Upsert without raising the flag.
UpsertEntryUnmarked(k, c) ==
  /\ keys' = keys \cup {k}
  /\ candles' = [candles EXCEPT ![k] = Upsert(candles[k], c)]
  /\ UNCHANGED dirty

\* Upsert: create the entry when it is missing, merge the candle, mark it
\* dirty.  KlineMirror has the goroutine it starts outside the lock.
UpsertEntry(k, c) ==
  /\ keys' = keys \cup {k}
  /\ candles' = [candles EXCEPT ![k] = Upsert(candles[k], c)]
  /\ dirty' = dirty \cup {k}

\* The deep copies GetDirty returns.
DirtyClones == [k \in AllKeys |-> IF k \in dirty THEN candles[k] ELSE <<>>]

\* ClearDirty lowers the flag whatever the entry holds by now.
ClearDirtyEntry(k) ==
  /\ dirty' = dirty \ {k}
  /\ UNCHANGED <<keys, candles>>

\* A new process's map after Load was called once for every pair of pairs.
LoadEntries(pairs, lists) ==
  /\ keys' = pairs
  /\ candles' = [k \in AllKeys |-> IF k \in pairs THEN lists[k] ELSE <<>>]
  /\ dirty' = {}
=============================================================================
