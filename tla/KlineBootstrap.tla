---------------------------- MODULE KlineBootstrap ----------------------------
(***************************************************************************)
(* The start of the kline service, from main's preload to the go           *)
(* statements of the live phase: cmd/server/main.go and Bootstrap in       *)
(* internal/rest/bootstrap.go, whose workers handle one pair each.         *)
(*                                                                         *)
(* The exchange moves between two starts; KlineHistory has it move at any  *)
(* time, for one pair.  The pairs are distinct: a symbol listed twice in   *)
(* SYMBOLS would give two workers the same pair and temporary file.        *)
(***************************************************************************)
EXTENDS CandleFiles, KlineRest

CONSTANTS
  Order,                    \* the pairs, in the order they are launched
  SymbolOf,                 \* pair -> its symbol
  Listed,                   \* the symbols the exchange knows
  Workers,                  \* cfg.BootstrapWorkers, at least 1
  InitialFiles,             \* what earlier processes may have left in files
  InitialRows,              \* and in the table
  Unreadable,               \* bound: pairs whose file a read may fail on
  MaxShown,                 \* bound: candles of a pair the exchange shows
  MaxStarts                 \* bound: starts of the service

\* The first n candles of a listed pair, while the last of them is open.
MarketOf(n) ==
  [i \in 1..n |-> [t |-> i * IntervalSeconds,
                   v |-> IF i < n THEN 2 * i ELSE 2 * i - 1]]

\* What earlier processes left is theirs: lists in order, of candles the
\* exchange has shown.
ASSUME BootstrapAssumption ==
  /\ Order \in Seq(AllKeys) /\ IsInjective(Order) /\ ToSet(Order) = AllKeys
  /\ SymbolOf \in [AllKeys -> Range(SymbolOf)]
  /\ Listed \subseteq Range(SymbolOf)
  /\ Workers \in Nat \ {0}
  /\ InitialFiles \subseteq [AllKeys -> FileState]
  /\ \A f \in InitialFiles : \A k \in AllKeys :
       Ascending(f[k].list) /\ Covers(MarketOf(2), f[k].list)
  /\ InitialRows \subseteq [AllKeys -> Seq(Candle)]
  /\ \A r \in InitialRows : \A k \in AllKeys : Ascending(r[k])
  /\ Unreadable \subseteq AllKeys
  /\ MaxShown \in Nat /\ MaxShown >= 2 /\ MaxStarts \in Nat
  /\ \A i \in 1..MaxShown : i * IntervalSeconds \in Times

VARIABLES
  main,                     \* off, launching, waiting, live, exited
  cancelled,                \* ctx is done
  useDB,                    \* TimescaleDB answered at this start
  next,                     \* Order[next] is launched next
  pc,                       \* pair -> where its worker is
  merged,                   \* pair -> the list its worker is to save
  invalid,                  \* invalidSymbols
  unread,                   \* the pairs whose file could not be read
  subscribed,               \* the symbols main hands to the manager
  rows,                     \* pair -> its table rows, by open time
  shown,                    \* candles the exchange shows of a listed pair
  starts                    \* starts so far

workVars == <<pc, merged, invalid, unread>>
mainVars == <<main, cancelled, useDB, next, subscribed, starts>>
vars == <<storeVars, fileVars, workVars, mainVars, rows, shown>>

Symbols == Range(SymbolOf)

\* Where a worker holds a slot of the semaphore, and where it has ended.
Busy == {"begin", "fetch", "save", "fill", "rename", "db", "load"}
Ended == {"skipped", "failed", "loaded"}
Running == {k \in AllKeys : pc[k] \in Busy}

TypeOK ==
  /\ StoreTypeOK /\ dirty = {}
  /\ FilesTypeOK
  /\ main \in {"off", "launching", "waiting", "live", "exited"}
  /\ cancelled \in BOOLEAN /\ useDB \in BOOLEAN
  /\ next \in 1..Len(Order) + 1
  /\ pc \in [AllKeys -> {"idle"} \cup Busy \cup Ended]
  /\ Cardinality(Running) <= Workers
  /\ merged \in [AllKeys -> Seq(Candle)]
  /\ invalid \subseteq Symbols \ Listed
  /\ unread \subseteq Unreadable
  /\ subscribed \subseteq Symbols
  /\ rows \in [AllKeys -> Seq(Candle)]
  /\ shown \in 1..MaxShown
  /\ starts \in 0..MaxStarts

\* What the exchange shows of a listed pair; the last candle is open.
Market == MarketOf(shown)

Init ==
  /\ keys = {} /\ candles = NoCandles /\ dirty = {}
  /\ file \in InitialFiles
  /\ tmp = [k \in AllKeys |-> NoFile]
  /\ main = "off" /\ cancelled = FALSE /\ useDB = FALSE /\ next = 1
  /\ pc = [k \in AllKeys |-> "idle"] /\ merged = NoCandles
  /\ invalid = {} /\ unread = {} /\ subscribed = {}
  /\ rows \in InitialRows
  /\ shown = 2 /\ starts = 0

-----------------------------------------------------------------------------
(* main up to Bootstrap.                                                   *)

\* DB.LoadLatest: the newest rows, oldest first.
LoadLatest(k) ==
  LET limit == IF BootstrapLimit <= 0 THEN 2000 ELSE BootstrapLimit
  IN  SubSeq(rows[k], IF Len(rows[k]) > limit THEN Len(rows[k]) - limit + 1
                      ELSE 1, Len(rows[k]))

\* preloadLatestFromDB, or preloadExistingFiles; either leaves a pair empty
\* when its query, or its read, fails.
Preload(db) ==
  \E failed \in SUBSET (IF db THEN AllKeys ELSE Unreadable) :
    LoadEntries(AllKeys,
      [k \in AllKeys |-> IF k \in failed THEN <<>>
                         ELSE IF db THEN LoadLatest(k) ELSE LoadFile(k)])

\* A new process; initTimescale returns no database when it does not answer.
Boot ==
  /\ main \in {"off", "exited"} /\ starts < MaxStarts
  /\ starts' = starts + 1
  /\ useDB' \in BOOLEAN
  /\ Preload(useDB')
  /\ main' = "launching" /\ cancelled' = FALSE /\ next' = 1
  /\ pc' = [k \in AllKeys |-> "idle"] /\ merged' = NoCandles
  /\ invalid' = {} /\ unread' = {} /\ subscribed' = {}
  /\ UNCHANGED <<fileVars, rows, shown>>

-----------------------------------------------------------------------------
(* Bootstrap: the launch loop.                                             *)

\* A slip: a loop without the semaphore.
LaunchUnlimited ==
  /\ main = "launching" /\ next <= Len(Order)
  /\ pc' = [pc EXCEPT ![Order[next]] = "begin"]
  /\ next' = next + 1
  /\ UNCHANGED <<storeVars, fileVars, merged, invalid, unread, main, cancelled,
                 useDB, subscribed, starts, rows, shown>>

\* The loop has a slot of the semaphore and starts the next worker.
Launch ==
  /\ main = "launching" /\ next <= Len(Order)
  /\ Cardinality(Running) < Workers
  /\ pc' = [pc EXCEPT ![Order[next]] = "begin"]
  /\ next' = next + 1
  /\ UNCHANGED <<storeVars, fileVars, merged, invalid, unread, main, cancelled,
                 useDB, subscribed, starts, rows, shown>>

\* The loop is through, or leaves by ctx.Done, which its select may take
\* even when there is a slot.
EndLaunch ==
  /\ main = "launching" /\ (next > Len(Order) \/ cancelled)
  /\ main' = "waiting"
  /\ UNCHANGED <<storeVars, fileVars, workVars, cancelled, useDB, next,
                 subscribed, starts, rows, shown>>

-----------------------------------------------------------------------------
(* Bootstrap: the worker of pair k.                                        *)

Go(k, from, to) == pc[k] = from /\ pc' = [pc EXCEPT ![k] = to]

\* A slip: a worker that returns without giving its slot back.
SkipHolding(k) ==
  /\ pc[k] = "begin" /\ SymbolOf[k] \in invalid
  /\ UNCHANGED vars

\* The exchange does not know the symbol, as another worker has found out.
Skip(k) ==
  /\ Go(k, "begin", "skipped") /\ SymbolOf[k] \in invalid
  /\ UNCHANGED <<storeVars, fileVars, merged, invalid, unread, mainVars, rows,
                 shown>>

\* The entry becomes what the file holds, whatever was preloaded ...
LoadExisting(k) ==
  /\ Go(k, "begin", "fetch") /\ SymbolOf[k] \notin invalid
  /\ candles' = [candles EXCEPT ![k] = LoadFile(k)]
  /\ UNCHANGED <<keys, dirty, fileVars, merged, invalid, unread, mainVars,
                 rows, shown>>

\* ... or empty, when the file is there and reading it fails.
LoadExistingFails(k) ==
  /\ Go(k, "begin", "fetch") /\ SymbolOf[k] \notin invalid
  /\ k \in Unreadable /\ file[k].st # "none"
  /\ candles' = [candles EXCEPT ![k] = <<>>]
  /\ unread' = unread \cup {k}
  /\ UNCHANGED <<keys, dirty, fileVars, merged, invalid, mainVars, rows,
                 shown>>

\* The clock while the last candle is open.
Now == shown * IntervalSeconds..(shown + 1) * IntervalSeconds - 1

\* The answer is merged into the list of the file.
Fetch(k) ==
  /\ Go(k, "fetch", "save") /\ SymbolOf[k] \in Listed
  /\ \E now \in Now :
       \E answer \in Answers(Market, ComputeStart(candles[k], now)) :
         merged' = [merged EXCEPT ![k] = Merge(candles[k], FetchKline(answer))]
  /\ UNCHANGED <<storeVars, fileVars, invalid, unread, mainVars, rows,
                 shown>>

\* An error, the ten second timeout, or ctx is done: the pair is left as is.
FetchFails(k) ==
  /\ Go(k, "fetch", "failed")
  /\ UNCHANGED <<storeVars, fileVars, merged, invalid, unread, mainVars, rows,
                 shown>>

\* Code 1001: the other pairs of the symbol are skipped from now on.
ContractNotExist(k) ==
  /\ Go(k, "fetch", "failed") /\ SymbolOf[k] \notin Listed
  /\ invalid' = invalid \cup {SymbolOf[k]}
  /\ UNCHANGED <<storeVars, fileVars, merged, unread, mainVars, rows, shown>>

\* SaveFile, in the steps of CandleFiles, and its errors.
StartSave(k) ==
  /\ Go(k, "save", "fill") /\ TruncateTmp(k)
  /\ UNCHANGED <<storeVars, merged, invalid, unread, mainVars, rows, shown>>

FillSave(k) ==
  /\ Go(k, "fill", "rename") /\ FillTmp(k, merged[k])
  /\ UNCHANGED <<storeVars, merged, invalid, unread, mainVars, rows, shown>>

\* A slip: SaveFile renames without looking at WriteFile's error.
SaveFailsIgnored(k) ==
  /\ Go(k, "fill", "rename")
  /\ UNCHANGED <<storeVars, fileVars, merged, invalid, unread, mainVars, rows,
                 shown>>

SaveFails(k) ==
  /\ Go(k, "save", "failed") \/ Go(k, "fill", "failed")
  /\ UNCHANGED <<storeVars, fileVars, merged, invalid, unread, mainVars, rows,
                 shown>>

RenameSave(k) ==
  /\ Go(k, "rename", IF useDB THEN "db" ELSE "load") /\ RenameTmp(k)
  /\ UNCHANGED <<storeVars, merged, invalid, unread, mainVars, rows, shown>>

RenameFails(k) ==
  /\ Go(k, "rename", "failed") /\ RemoveTmp(k)
  /\ UNCHANGED <<storeVars, merged, invalid, unread, mainVars, rows, shown>>

\* upsertMergedToDB: one batch, which is applied as a whole ...
UpsertRows(k) ==
  /\ Go(k, "db", "load")
  /\ rows' = [rows EXCEPT ![k] = Merge(rows[k], merged[k])]
  /\ UNCHANGED <<storeVars, fileVars, merged, invalid, unread, mainVars, shown>>

\* ... or not at all: a candle does not parse, an error, five seconds are
\* over.
UpsertFails(k) ==
  /\ Go(k, "db", "load")
  /\ UNCHANGED <<storeVars, fileVars, merged, invalid, unread, mainVars, rows,
                 shown>>

\* The entry becomes the merged list, not dirty.  The worker then sleeps for
\* the throttle, which only delays its end.
LoadMerged(k) ==
  /\ Go(k, "load", "loaded")
  /\ candles' = [candles EXCEPT ![k] = merged[k]]
  /\ UNCHANGED <<keys, dirty, fileVars, merged, invalid, unread, mainVars,
                 rows, shown>>

\* The steps of a worker that wait for nobody: a request and a query that
\* are not answered time out.
OwnStep(k) ==
  \/ Skip(k) \/ LoadExisting(k) \/ LoadExistingFails(k) \/ FetchFails(k)
  \/ StartSave(k) \/ FillSave(k) \/ SaveFails(k)
  \/ RenameSave(k) \/ RenameFails(k) \/ UpsertFails(k) \/ LoadMerged(k)

Work(k) == OwnStep(k) \/ Fetch(k) \/ ContractNotExist(k) \/ UpsertRows(k)

-----------------------------------------------------------------------------
(* main after Bootstrap.                                                   *)

\* symbolsWithBootstrapData: the symbols with a candle in some interval, all
\* of them if there is none.
WithData ==
  LET kept == {SymbolOf[k] : k \in {j \in AllKeys : candles[j] # <<>>}}
  IN  IF kept = {} THEN Symbols ELSE kept

\* A slip: a bootstrap that does not wait for its workers.
GoLiveUnawaited ==
  /\ main = "waiting" /\ ~cancelled
  /\ main' = "live" /\ subscribed' = WithData
  /\ UNCHANGED <<storeVars, fileVars, workVars, cancelled, useDB, next, starts,
                 rows, shown>>

\* All workers have ended: the live phase starts.
GoLive ==
  /\ main = "waiting" /\ ~cancelled /\ Running = {}
  /\ main' = "live" /\ subscribed' = WithData
  /\ UNCHANGED <<storeVars, fileVars, workVars, cancelled, useDB, next, starts,
                 rows, shown>>

\* ctx was done before: flushOnShutdown finds nothing dirty, main returns.
Leave ==
  /\ main = "waiting" /\ cancelled /\ Running = {}
  /\ main' = "exited"
  /\ UNCHANGED <<storeVars, fileVars, workVars, cancelled, useDB, next,
                 subscribed, starts, rows, shown>>

Main == Launch \/ EndLaunch \/ GoLive \/ Leave

-----------------------------------------------------------------------------
(* The signal, kills, the exchange.                                        *)

Cancel ==
  /\ main \in {"launching", "waiting"} /\ ~cancelled
  /\ cancelled' = TRUE
  /\ UNCHANGED <<storeVars, fileVars, workVars, main, useDB, next, subscribed,
                 starts, rows, shown>>

Kill ==
  /\ main \in {"launching", "waiting", "live"}
  /\ main' = "off" /\ pc' = [k \in AllKeys |-> "idle"]
  /\ UNCHANGED <<storeVars, fileVars, merged, invalid, unread, cancelled, useDB,
                 next, subscribed, starts, rows, shown>>

ExchangeMoves ==
  /\ main \in {"off", "exited"} /\ shown < MaxShown
  /\ shown' = shown + 1
  /\ UNCHANGED <<storeVars, fileVars, workVars, mainVars, rows>>

Finished == main \in {"off", "exited"} /\ starts = MaxStarts /\ UNCHANGED vars

Next ==
  \/ Boot \/ Main \/ \E k \in AllKeys : Work(k)
  \/ Cancel \/ Kill \/ ExchangeMoves \/ Finished

Spec == Init /\ [][Next]_vars

\* main and the workers run, and the disk answers.
FairSpec == Spec /\ WF_vars(Main) /\ \A k \in AllKeys : WF_vars(OwnStep(k))

-----------------------------------------------------------------------------
(* Safety.                                                                 *)

\* No bootstrap, whatever fails in it and wherever it is cut short, tears a
\* file, takes a candle from it or puts older content over newer, but for
\* one case: a file that could not be read is taken for an empty one, and
\* what is fetched replaces it.
FilesForward ==
  [][\A k \in AllKeys :
       /\ file'[k].st = "torn" => file[k].st = "torn"
       /\ k \notin unread => Covers(LoadFile(k)', LoadFile(k))]_vars

\* The live phase starts from the files: it finds in memory the list that is
\* on disk, so that its flushes only move the file forward, and a symbol with
\* a list is subscribed.  Two pairs are out of it: one that was skipped is
\* left as preloaded, and one that could not be read and was not fetched is
\* left empty.
LiveStartsFromFiles ==
  main = "live" =>
    /\ Running = {}
    /\ \A k \in AllKeys :
         pc[k] # "skipped" /\ (k \in unread => pc[k] = "loaded") =>
           /\ candles[k] = LoadFile(k)
           /\ candles[k] # <<>> => SymbolOf[k] \in subscribed

(* Liveness.                                                               *)

\* A start ends, in the live phase or, when told to stop, in an exit, though
\* workers fail, are skipped, or wait for each other's slots.
BootstrapEnds ==
  /\ main = "launching" ~> main \in {"live", "exited", "off"}
  /\ cancelled /\ main # "live" ~> main \in {"exited", "off"}
=============================================================================
