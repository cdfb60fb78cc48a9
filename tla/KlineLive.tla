------------------------------ MODULE KlineLive ------------------------------
(***************************************************************************)
(* The live phase of the kline service, from the end of the bootstrap to   *)
(* process exit: main (cmd/server/main.go), the flush loop goroutine       *)
(* (internal/store/file.go) and the goroutine of the websocket handler     *)
(* (internal/ws/handler.go) over the shared store and the JSON files.      *)
(* Neither TimescaleDB nor Redis is configured.                            *)
(***************************************************************************)
EXTENDS CandleFiles

CONSTANTS
  Keys,                     \* the configured symbol-interval pairs
  BadKeys,                  \* the pairs whose file can never be written
  NoKey,                    \* the current entry of a flush that has none
  MaxPush,                  \* bound: pushes received in a behaviour
  MaxDiskErrors,            \* bound: saves that fail for a good pair
  MaxRestarts               \* bound: starts of a new process

ASSUME LiveAssumption ==
  /\ Keys \subseteq AllKeys
  /\ BadKeys \subseteq Keys
  /\ NoKey \notin AllKeys
  /\ MaxPush \in Nat /\ MaxDiskErrors \in Nat /\ MaxRestarts \in Nat

\* Who runs FlushDirtyEntries: the flush loop, and main after the loop.
Flushers == {"loop", "main"}

VARIABLES
  fpc,                      \* flusher -> where it is in FlushDirtyEntries
  batch,                    \* flusher -> entries of its slice not done yet
  clone,                    \* flusher -> the lists GetDirty copied
  cur,                      \* flusher -> the entry it is saving
  loop,                     \* the flush loop: ticking, last (ctx.Done), returned
  main,                     \* the process: serving, flushing, exited, crashed
  cancelled,                \* ctx is done (SIGINT or SIGTERM)
  handler,                  \* the handler goroutine: running, stopped
  held,                     \* the push it holds between Has and Upsert, if any
  pushes,                   \* pushes received so far
  diskErrors,               \* transient save errors so far
  restarts                  \* restarts so far

flushVars == <<fpc, batch, clone, cur, loop>>
handlerVars == <<handler, held, pushes>>
procVars == <<main, cancelled, restarts>>
vars == <<storeVars, fileVars, flushVars, handlerVars, procVars, diskErrors>>

Push == [key : AllKeys, candle : Candle]

TypeOK ==
  /\ StoreTypeOK
  /\ FilesTypeOK
  /\ fpc \in [Flushers -> {"idle", "next", "writing", "rename", "clear"}]
  /\ batch \in [Flushers -> SUBSET AllKeys]
  /\ clone \in [Flushers -> [AllKeys -> Seq(Candle)]]
  /\ cur \in [Flushers -> AllKeys \cup {NoKey}]
  /\ loop \in {"ticking", "last", "returned"}
  /\ main \in {"serving", "flushing", "exited", "crashed"}
  /\ cancelled \in BOOLEAN
  /\ handler \in {"running", "stopped"}
  /\ held \subseteq Push
  /\ pushes \in Nat /\ diskErrors \in Nat /\ restarts \in Nat

Alive == main \in {"serving", "flushing"}

\* The goroutines as they start: nothing in hand.
FreshGoroutines ==
  /\ fpc' = [f \in Flushers |-> "idle"]
  /\ batch' = [f \in Flushers |-> {}]
  /\ clone' = [f \in Flushers |-> NoCandles]
  /\ cur' = [f \in Flushers |-> NoKey]
  /\ loop' = "ticking"
  /\ main' = "serving"
  /\ cancelled' = FALSE
  /\ handler' = "running"
  /\ held' = {}

\* No file exists yet, and the bootstrap loaded an empty list for each pair.
Init ==
  /\ keys = Keys /\ candles = NoCandles /\ dirty = {}
  /\ file = [k \in AllKeys |-> NoFile] /\ tmp = [k \in AllKeys |-> NoFile]
  /\ fpc = [f \in Flushers |-> "idle"]
  /\ batch = [f \in Flushers |-> {}]
  /\ clone = [f \in Flushers |-> NoCandles]
  /\ cur = [f \in Flushers |-> NoKey]
  /\ loop = "ticking" /\ main = "serving" /\ cancelled = FALSE
  /\ handler = "running" /\ held = {}
  /\ pushes = 0 /\ diskErrors = 0 /\ restarts = 0

-----------------------------------------------------------------------------
(* FlushDirtyEntries, run by flusher f.                                    *)

\* GetDirty: one pass under the read lock copies every dirty entry.
BeginFlush(f) ==
  /\ fpc[f] = "idle"
  /\ fpc' = [fpc EXCEPT ![f] = "next"]
  /\ batch' = [batch EXCEPT ![f] = dirty]
  /\ clone' = [clone EXCEPT ![f] = DirtyClones]
  /\ UNCHANGED <<storeVars, fileVars, cur, handlerVars, cancelled, restarts,
                 diskErrors>>

\* A transient error is bounded; a bad pair fails every time.
CanFail(k) == k \in BadKeys \/ diskErrors < MaxDiskErrors
CountError(k) ==
  diskErrors' = IF k \in BadKeys THEN diskErrors ELSE diskErrors + 1

\* The loop body goes on to the next entry of the slice.
NextEntry(f, k) ==
  /\ fpc' = [fpc EXCEPT ![f] = "next"]
  /\ batch' = [batch EXCEPT ![f] = @ \ {k}]
  /\ cur' = [cur EXCEPT ![f] = NoKey]
  /\ UNCHANGED <<clone, loop>>

\* A rewrite that returns on the first error instead of going on.
SaveRefusedAborts(f) ==
  /\ Alive /\ fpc[f] = "next"
  /\ \E k \in batch[f] : CanFail(k) /\ CountError(k)
  /\ batch' = [batch EXCEPT ![f] = {}]
  /\ UNCHANGED <<storeVars, fileVars, fpc, clone, cur, loop, handlerVars,
                 procVars>>

\* SaveFile fails before it opens the temporary file.
SaveRefused(f) ==
  /\ Alive /\ fpc[f] = "next"
  /\ \E k \in batch[f] : CanFail(k) /\ CountError(k) /\ NextEntry(f, k)
  /\ UNCHANGED <<storeVars, fileVars, handlerVars, procVars>>

\* SaveFile opens the temporary file of the next entry, in any order: the
\* slice was filled by ranging over a map.
StartWrite(f) ==
  /\ Alive /\ fpc[f] = "next"
  /\ \E k \in batch[f] \ BadKeys :
       /\ TruncateTmp(k)
       /\ cur' = [cur EXCEPT ![f] = k]
  /\ fpc' = [fpc EXCEPT ![f] = "writing"]
  /\ UNCHANGED <<storeVars, batch, clone, loop, handlerVars, procVars,
                 diskErrors>>

FinishWrite(f) ==
  /\ Alive /\ fpc[f] = "writing"
  /\ FillTmp(cur[f], clone[f][cur[f]])
  /\ fpc' = [fpc EXCEPT ![f] = "rename"]
  /\ UNCHANGED <<storeVars, batch, clone, cur, loop, handlerVars, procVars,
                 diskErrors>>

\* A rewrite that renames without looking at WriteFile's error.
FailWriteIgnored(f) ==
  /\ Alive /\ fpc[f] = "writing"
  /\ CanFail(cur[f]) /\ CountError(cur[f])
  /\ fpc' = [fpc EXCEPT ![f] = "rename"]
  /\ UNCHANGED <<storeVars, fileVars, batch, clone, cur, loop, handlerVars,
                 procVars>>

\* os.WriteFile fails half way: SaveFile returns and leaves the torn file.
FailWrite(f) ==
  /\ Alive /\ fpc[f] = "writing"
  /\ CanFail(cur[f]) /\ CountError(cur[f])
  /\ NextEntry(f, cur[f])
  /\ UNCHANGED <<storeVars, fileVars, handlerVars, procVars>>

Rename(f) ==
  /\ Alive /\ fpc[f] = "rename"
  /\ RenameTmp(cur[f])
  /\ fpc' = [fpc EXCEPT ![f] = "clear"]
  /\ UNCHANGED <<storeVars, batch, clone, cur, loop, handlerVars, procVars,
                 diskErrors>>

\* A rewrite that clears the flag after a save that failed.
FailRenameCleared(f) ==
  /\ Alive /\ fpc[f] = "rename"
  /\ CanFail(cur[f]) /\ CountError(cur[f])
  /\ RemoveTmp(cur[f])
  /\ fpc' = [fpc EXCEPT ![f] = "clear"]
  /\ UNCHANGED <<storeVars, batch, clone, cur, loop, handlerVars, procVars>>

FailRename(f) ==
  /\ Alive /\ fpc[f] = "rename"
  /\ CanFail(cur[f]) /\ CountError(cur[f])
  /\ RemoveTmp(cur[f])
  /\ NextEntry(f, cur[f])
  /\ UNCHANGED <<storeVars, handlerVars, procVars>>

\* The save succeeded: the flag goes down, whatever happened to the entry
\* since GetDirty copied it.
ClearDirty(f) ==
  /\ Alive /\ fpc[f] = "clear"
  /\ ClearDirtyEntry(cur[f])
  /\ NextEntry(f, cur[f])
  /\ UNCHANGED <<fileVars, handlerVars, procVars, diskErrors>>

\* FlushDirtyEntries returns; the loop goes back to its select, or returns
\* and closes flushDone; main leaves, and the process exits.
EndFlush(f) ==
  /\ Alive /\ fpc[f] = "next" /\ batch[f] = {}
  /\ fpc' = [fpc EXCEPT ![f] = "idle"]
  /\ clone' = [clone EXCEPT ![f] = NoCandles]
  /\ loop' = IF f = "loop" /\ loop = "last" THEN "returned" ELSE loop
  /\ main' = IF f = "main" THEN "exited" ELSE main
  /\ UNCHANGED <<storeVars, fileVars, batch, cur, handlerVars, cancelled,
                 restarts, diskErrors>>

FlushStep(f) ==
  \/ SaveRefused(f) \/ StartWrite(f) \/ FinishWrite(f) \/ FailWrite(f)
  \/ Rename(f) \/ FailRename(f) \/ ClearDirty(f) \/ EndFlush(f)

-----------------------------------------------------------------------------
(* FlushLoop, main and the signal.                                         *)

\* The 500 ms ticker.  Once ctx is done both cases of the select are ready,
\* and either may be taken.
Tick ==
  /\ Alive /\ loop = "ticking"
  /\ BeginFlush("loop")
  /\ UNCHANGED <<loop, main>>

\* A return lost: a break in the ctx.Done case only leaves the select.
LoopDoneNoReturn ==
  /\ Alive /\ cancelled /\ loop = "ticking"
  /\ BeginFlush("loop")
  /\ UNCHANGED <<loop, main>>

\* ctx.Done: one last flush before the loop returns.
LoopDone ==
  /\ Alive /\ cancelled /\ loop = "ticking"
  /\ BeginFlush("loop")
  /\ loop' = "last"
  /\ UNCHANGED main

\* A main that would not wait for flushDone.
FinalFlushUnawaited ==
  /\ main = "serving" /\ cancelled
  /\ BeginFlush("main")
  /\ main' = "flushing"
  /\ UNCHANGED loop

\* main is past <-ctx.Done and <-flushDone and enters flushOnShutdown.
FinalFlush ==
  /\ main = "serving" /\ cancelled /\ loop = "returned"
  /\ BeginFlush("main")
  /\ main' = "flushing"
  /\ UNCHANGED loop

Cancel ==
  /\ main = "serving" /\ ~cancelled
  /\ cancelled' = TRUE
  /\ UNCHANGED <<storeVars, fileVars, flushVars, handlerVars, main, restarts,
                 diskErrors>>

-----------------------------------------------------------------------------
(* Handler.Run: nothing waits for this goroutine; it runs until its select *)
(* takes ctx.Done, or until main leaves.                                   *)

\* The same with the payload left out, as of a push decoded too late.
EmptyPushCandle(t, rank) == [t |-> t, v |-> 0]

\* The candle of a push, every field copied from it.
PushCandle(t, rank) == [t |-> t, v |-> rank]

\* A handler that does not look the pair up.
HandlePushUnchecked(k, t) ==
  /\ Alive /\ handler = "running" /\ held = {} /\ pushes < MaxPush
  /\ pushes' = pushes + 1
  /\ held' = {[key |-> k, candle |-> PushCandle(t, pushes + 1)]}
  /\ UNCHANGED <<storeVars, fileVars, flushVars, handler, procVars, diskErrors>>

\* A push arrives on msgChan: one for an unknown pair is discarded.
HandlePush(k, t) ==
  /\ Alive /\ handler = "running" /\ held = {} /\ pushes < MaxPush
  /\ pushes' = pushes + 1
  /\ held' = {m \in {[key |-> k, candle |-> PushCandle(t, pushes + 1)]} :
                Has(m.key)}
  /\ UNCHANGED <<storeVars, fileVars, flushVars, handler, procVars, diskErrors>>

UpsertPush ==
  /\ Alive
  /\ \E m \in held : UpsertEntry(m.key, m.candle)
  /\ held' = {}
  /\ UNCHANGED <<fileVars, flushVars, handler, pushes, procVars, diskErrors>>

HandlerDone ==
  /\ Alive /\ cancelled /\ handler = "running" /\ held = {}
  /\ handler' = "stopped"
  /\ UNCHANGED <<storeVars, fileVars, flushVars, held, pushes, procVars,
                 diskErrors>>

-----------------------------------------------------------------------------
(* The process.                                                            *)

\* The process is killed.  What it had in memory is never read again.
Crash ==
  /\ Alive /\ restarts < MaxRestarts
  /\ main' = "crashed"
  /\ UNCHANGED <<storeVars, fileVars, flushVars, handlerVars, cancelled,
                 restarts, diskErrors>>

\* A new process: preloadExistingFiles seeds the store with the files, and
\* a bootstrap whose fetches all fail leaves it at that.
Restart ==
  /\ ~Alive /\ restarts < MaxRestarts
  /\ restarts' = restarts + 1
  /\ LoadEntries(Keys, [k \in AllKeys |-> LoadFile(k)])
  /\ FreshGoroutines
  /\ UNCHANGED <<fileVars, pushes, diskErrors>>

Stopped == ~Alive /\ UNCHANGED vars

Next ==
  \/ \E f \in Flushers : FlushStep(f)
  \/ Tick \/ LoopDone \/ FinalFlush \/ Cancel
  \/ \E k \in AllKeys, t \in Times : HandlePush(k, t)
  \/ UpsertPush \/ HandlerDone
  \/ Crash \/ Restart \/ Stopped

Spec == Init /\ [][Next]_vars

\* The scheduler runs every goroutine that can run, the ticker ticks, and
\* a select whose two cases are ready again and again takes each of them.
Fairness ==
  /\ \A f \in Flushers : WF_vars(FlushStep(f))
  /\ WF_vars(Tick) /\ SF_vars(LoopDone) /\ WF_vars(FinalFlush)
  /\ WF_vars(UpsertPush)

FairSpec == Spec /\ Fairness

-----------------------------------------------------------------------------
(* Safety.                                                                 *)

\* No kill and no failed save ever leaves a half-written list under the name
\* readers open: SaveFile writes beside the file and renames.
WholeFiles == \A k \in AllKeys : file[k].st # "torn"

\* FlushDirtyEntries never runs twice at once, so two saves never share a
\* temporary file: main enters its final flush only after flushDone.
OneFlusher ==
  \A f, g \in Flushers : f # g => fpc[f] = "idle" \/ fpc[g] = "idle"

\* Data only moves forward: memory is at least as new as every copy a flush
\* has in hand, and that copy at least as new as the file it will replace.
\* No save, however late, puts an older list over a newer one.
SnapshotOrder ==
  \A k \in AllKeys :
    /\ Covers(candles[k], LoadFile(k))
    /\ \A f \in Flushers : k \in batch[f] =>
         /\ Covers(clone[f][k], LoadFile(k))
         /\ Covers(candles[k], clone[f][k])

\* Lists stay sorted without duplicates in memory and on disk, in whatever
\* order pushes arrive: the binary search of the next Upsert relies on it.
AscendingLists ==
  \A k \in AllKeys : Ascending(candles[k]) /\ Ascending(LoadFile(k))

\* The store and the directory hold the configured pairs and nothing else,
\* though Upsert would create an entry for any pair a message names.
OnlyConfiguredPairs ==
  /\ keys = Keys
  /\ \A k \in AllKeys \ Keys : file[k] = NoFile /\ tmp[k] = NoFile

(* Action properties.                                                      *)

\* A failed save keeps the entry dirty, to be retried on the next tick: in a
\* running process a flag goes down only when the file shows the list that
\* the flush copied from the entry.
CleanOnlyAfterSave ==
  [][\A k \in dirty \ dirty' :
       Alive => \E f \in Flushers : cur[f] = k /\ LoadFile(k) = clone[f][k]]_vars

\* An entry whose file is behind memory and that no flush will pick up.
Forgotten(k) == k \notin dirty /\ candles[k] # LoadFile(k)

\* An update is forgotten in one way only: it arrived after the running
\* flush copied its entry and before that flush cleared the flag.
ForgottenOnlyWhileSaving ==
  [][\A k \in AllKeys : ~Forgotten(k) /\ Forgotten(k)' =>
       \E f \in Flushers : /\ fpc[f] = "clear" /\ cur[f] = k
                           /\ candles[k] # clone[f][k]]_vars

(* What readers of the files are promised.                                 *)

Snapshots == INSTANCE SnapshotFile
  WITH latest <- candles, saved <- [k \in AllKeys |-> LoadFile(k)]

\* The files behave as the published snapshots of the list in memory.
PublishesSnapshots == Snapshots!Spec

-----------------------------------------------------------------------------
(* Liveness.                                                               *)

\* A dirty entry is saved in the end, however many saves fail first and
\* whatever other pairs can never be saved, unless the service is told to
\* stop.
DirtyIsRetried ==
  \A k \in Keys \ BadKeys :
    k \in dirty ~> (k \notin dirty \/ cancelled \/ ~Alive)

\* Once told to stop, the process exits: main waits for a flush loop that
\* does return, though its ticker stays ready.
ShutdownCompletes == cancelled ~> ~Alive

(* What the documents say.                                                 *)

Held(k, t, v) == \E c \in ToSet(candles[k]) : c.t = t /\ c.v >= v
OnFile(k, t, v) == \E c \in ToSet(LoadFile(k)) : c.t = t /\ c.v >= v

\* prd.md, acceptance criteria: every push.kline message updates the correct
\* file (here: ever, while the service keeps running).
EveryPushReachesFile ==
  \A k \in Keys, t \in Times, v \in 1..MaxPush :
    Held(k, t, v) ~> (OnFile(k, t, v) \/ cancelled \/ ~Alive)

\* prd.md, shutdown: all dirty entries are flushed to disk before exit.
NothingDirtyAtExit == main = "exited" => dirty = {}
=============================================================================
