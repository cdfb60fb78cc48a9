# Fidorix in TLA+

Two Go services that keep MEXC market data on disk: `kline/` (candle lists of
futures contracts, one JSON file per symbol-interval pair, optionally mirrored to
TimescaleDB and Redis) and `orderbook/` (spot order book snapshots). This
directory holds TLA+ models of their code, TLC configurations and TLAPS proofs.
`PROJECT.json` maps each definition to the lines it models.

## The system

| part (under `src/`) | state | operations | talks to |
|---|---|---|---|
| `kline/internal/kline/candle.go` | none: ascending candle lists | `Upsert` | called under the store's lock |
| `kline/internal/store/store.go` | `entries` (list and dirty flag per pair) under an RWMutex | `Upsert`, `GetDirty`, `ClearDirty`, `Load`, `Has`, `All` | handler, flush loop, bootstrap; one goroutine per upsert to the database and Redis |
| `kline/internal/store/file.go` | the JSON file and `.tmp` file of each pair | `LoadFile`, `SaveFile`, `FlushDirtyEntries`, `FlushLoop` | the store, the disk |
| `kline/cmd/server/main.go` | the phases of the process, `ctx`, `flushDone` | preload, bootstrap, start of the goroutines, shutdown | everything in `kline/` |
| `kline/internal/ws/handler.go` | none | `Run`, `handlePushKline` | the message channel, the store |
| `kline/internal/ws/conn.go`, `manager.go` | per shard: `conn`, two mutexes, the back-off; the channel of 1000 | `Run`, `Close`, `sendJSON`, `pingLoop`, `readLoop`; `Manager.Run`, `Close` | the exchange, the handler, main |
| `kline/internal/rest/` | progress of the bootstrap workers | `Bootstrap`, `FetchKline` | the exchange, store, files, database |
| `kline/internal/db/`, `redisclient/` | tables, latest keys, channels | `UpsertBatch`, `LoadLatest`, `SetLatestBar`, `PublishBar` | started by `Store.Upsert` |
| `orderbook/internal/exchange/websocket.go` | `conns`, `cancel`, `started` under a mutex; per loop: socket, delay, ping goroutine | `Start`, `Close`, `Wait`, `runConnection`, `connectWithBackoff`, `readLoop`, `pingLoop` | the exchange; managers, by callback |
| `orderbook/internal/exchange/rest.go` | attempts of one fetch | `FetchDepthSnapshot` | the exchange |
| `orderbook/internal/persistence/` | an in-progress flag per writer, the output file, a Redis key | `WriteSnapshot`, `WriteSnapshotBlocking` | managers, disk, Redis |
| configuration, symbol renaming | none | sequential parsing | main |

`orderbook/cmd` and `orderbook/internal/orderbook` (the managers) are imported or
documented by the code and are not in the repository. Deployment files hold no
program logic.

What is hard here: the handler goroutine changes an entry while a flush saves a
copy of it; saves fail or are cut short by a kill; the shutdown orders some
goroutines and not others; three goroutines close or write one connection;
`Close` runs against loops that are between two of their steps; sockets drop at
any moment; database and Redis writes run unordered; the bootstrap of a pair can
fail at any of its steps, and the next one has to bring back what kills, drops and
unsaved lists have taken. `PROJECT.json` lists each
of these at its line under `hazards`, with the properties about it.

What makes each part correct:

- candle list: ascending, one candle per time, the newest content wins;
- store and files: a file shows a complete list, never an older one than before;
  an entry is clean only when saved; what is dirty is saved in the end; nothing
  is left dirty at exit;
- bootstrap: no file loses candles or goes back, the live phase starts from what
  is on disk, a start ends in the live phase or in an exit;
- history of a pair: a closed candle is kept in its final content, unless the
  service never got that content;
- database and Redis mirror: older content does not overwrite newer, goroutines end;
- life cycle: the two flushes never overlap, the shutdown completes;
- connections: no concurrent writes, no socket or ping outlives its session, no
  message lost or reordered before the shutdown, every loop returns;
- snapshot writers: one write at a time, no reader finds half a file or an older
  one, the final write is the last word and ends;
- depth stream: the same as for connections, and a gap in the stream is announced before the next
  event.

## Modules

| module | models | builds on |
|---|---|---|
| `Candles` | `candle.go`: `Upsert`, with `sort.Search` by its contract; `Merge`, the loop of `bootstrapPair` over it | |
| `CandleStore` | `store.go`: the operations as atomic steps under the lock | `Candles` |
| `CandleFiles` | `file.go`: the files, and `SaveFile` cut where a kill or an error can fall | `CandleStore` |
| `KlineLive` | the live phase: flush loop, main, handler, kill and restart | `CandleFiles` |
| `KlineRest` | `rest/client.go` and the pure part of `bootstrapPair`: what a start asks for and keeps of the answer | `Candles` |
| `KlineBootstrap` | `main` up to the live phase, `Bootstrap` and its workers | `CandleFiles`, `KlineRest` |
| `KlineHistory` | one pair over many lives of the service: exchange, link, live phase, restarts | `KlineRest` |
| `KlineMirror` | the goroutines of `Store.Upsert`, TimescaleDB, Redis | `Candles` |
| `SnapshotFile` | the promise to a reader of the files; `KlineLive` implements it | `Candles` |
| `KlineConn` | `conn.go`, `manager.go`, the channel and `handler.Run` | |
| `ObWSClient` | `orderbook/internal/exchange/websocket.go` | |
| `ObWriter` | `orderbook/internal/persistence/`: both snapshot writers of a symbol | |
| `MCKlineLive`, `MCKlineBootstrap`, `MCKlineHistory`, `MCKlineMirror`, `MCKlineConn`, `MCObWSClient`, `MCObWriter` | instances for TLC | the module they name |
| `CandlesProofs`, `KlineLiveProofs`, `KlineBootstrapProofs`, `KlineHistoryProofs`, `KlineMirrorProofs`, `KlineConnProofs`, `ObWSClientProofs`, `ObWriterProofs` | theorems and proofs | the module they name |

Definitions whose comment calls them a slip, or a rewrite that forgets something,
are not part of any specification. Each stands just before the definition it is a
wrong version of; the `mutants` of `PROJECT.json` put it in that place, and TLC
then refutes the property named there.

### Candles, store and files

A candle is its open time and the rank of the push that brought its content: the
eleven payload strings are always replaced together, so nothing distinguishes
them, and the rank says which content is newer. A file is absent, torn or whole.
A flusher (the flush loop, or main in `flushOnShutdown`) takes a copy of the
dirty entries (`BeginFlush`), and for each, in any order because the code ranges
over a map: `StartWrite` (truncate `.tmp`), `FinishWrite`, `Rename`, `ClearDirty`,
with an error possible at each (`SaveRefused`, `FailWrite`, `FailRename`).
`HandlePush` checks `Has`; `UpsertPush` comes later, under the lock, so a flush
may pass in between. `Crash` may come at any step; `Restart` loads the files as
`preloadExistingFiles` does, with a bootstrap that fetches nothing: what a
bootstrap adds is the subject of the next two modules.

### Start and bootstrap

`KlineBootstrap` follows `main` from `Boot` (preload from the files or, when it
answers, the database) through the launch loop (`Launch` takes a slot of the
semaphore, `EndLaunch` leaves by the end of the pairs or by `ctx.Done`) to `GoLive`
or `Leave`. A worker is a program counter per pair: `Skip` when another worker has
found the symbol unknown, else `LoadExisting`, `Fetch`, `StartSave`, `FillSave`,
`RenameSave`, `UpsertRows`, `LoadMerged`, with the failure of each beside it. The
merge of the fetched candles happens in memory that no one else reads, so it is
part of `Fetch`. What is fetched and merged is `KlineRest`, evaluated on real
lists: `ComputeStart`, `FetchKline` with its limit, and `Merge` of `Candles`. The exchange
returns at most `AnswerLimit` candles (2000 by `kline/prd.md:258`): all it has from the
requested start on or, of more, any run of that many (`Answers`), because nothing in the
repository says which. It is assumed to show the same candles during one bootstrap, and
moves between starts. A throttle sleep only delays
the end of a worker. A read fails for the pairs of `Unreadable` only (a bound).
Out of `main` and `Bootstrap` the model leaves the directories, loggers and counters.

### One pair over many lives

`KlineHistory` puts the parts together for a single pair, each by what its own
module shows of it: the live phase may save the list in memory at any moment or
not at all (`SnapshotFile`, which `KlineLive` implements), the connection delivers
frames in order and a drop loses the last ones (`FeedIsComplete` of `KlineConn`),
a start does what a worker of `KlineBootstrap` does (`Start`, `StartUnfetched`).
The exchange is explicit: `Trade` changes the open candle, `Roll` closes it and
opens the next. The history variable `missed` collects the candles whose last
content the service had no way to learn: shown while the link was down, lost with it, in
a request that failed, left out of an answer by the exchange (`NotAnswered`), cut off by
the limit (`BeyondLimit`), or never asked for (`NotAsked`). `ClosedCandlesKept` says that it is the
only reason for which a closed candle is absent or stale.

### Mirror

In `KlineMirror` each push of a pair starts a goroutine that goes through `upsert`,
`set` and `publish`, whatever comes of each. An operation is applied and
acknowledged, or fails without effect, or its context ends when the command had
already reached the server, which may still apply it (`LateCommand`). The Redis client
repeats a command whose answer does not come in time, so an acknowledged `SET` may leave
a copy behind too, and there may be several (`Unanswered`). Per push the
history variables keep which goroutines had ended before it, so that "older" means
"done with before", not merely "pushed before".

### Connections of the kline service

Each connection has the program counter of `Run`, that of its ping goroutine, and
`c.conn` (nil or the last socket dialled). `writeMu` is held across a write only,
so it is free when neither is in `write`; sections of `connMu` are atomic.
Because a ping goroutine is joined before the next dial (`PingWithinSession`), a
socket needs no name of its own. `manager.Close` is main's, one connection after
the other. A message is a connection and a rank.

### Depth client of the orderbook service

As above, with the map `c.conns`, `Start` and `Close` cut at their locks (`Close`
is `Close`, then `Sweep`), and `Launch` after either. The managers are outside
the repository: `book` records only whether events reach them across a gap they
were not told of. They may detect such gaps themselves from version numbers.

### Snapshot writers of the orderbook service

`Writer` and `RedisWriter` follow the same protocol: an atomic flag, a background
job that is skipped while the flag is up, and a blocking one that tries, waits and
tries again (`Claim`, `ClaimFails`, `TryAgain`, `GiveUp`). A file write is cut at
the truncation, the rename and each error; since no step touches the output but
`Rename`, `FileIsWhole` in every state covers a kill at any point. A `SET` may be
applied, and may be left behind at the server and applied later, or both, because
the client retries. The manager offers versions of its book and makes one
blocking write per writer after its context is done, as `orderbook/README.md` and
`prd.md` describe it: it does not call `WriteSnapshot` any more by then. A caller
that did could make the blocking write lose the flag again and again; nothing in
the repository does.

## Runs

| run | shows | bounds |
|---|---|---|
| `kline_live` | safety and liveness of the live phase, and that it implements `SnapshotFile` | 2 configured pairs, one never writable, and 1 stray, 2 times, 3 pushes, 1 disk error, 1 restart |
| `kline_every_push` | *violation*: a push can be left out of its file | 1 pair, 2 pushes |
| `kline_exit` | *violation*: the process can exit with a dirty entry | 1 pair, 1 push |
| `kline_bootstrap` | safety and liveness of the start | 3 pairs of 2 symbols, one unknown to the exchange; 2 workers, limit 2, answers of at most 2, 2 starts, 3 candles shown, 4 sets of files |
| `kline_history` | what a pair keeps over its restarts | limit 2, answers of at most 3, 6 open times, 8 contents, 3 starts, first lists of 1 and 3 candles |
| `kline_mirror` | order and end of the goroutines for database and Redis | 3 pushes: a candle twice, then the next |
| `kline_conn_session` | safety and liveness of one connection | 2 subscriptions, channel of 2, 4 messages, back-off 1 to 3 |
| `kline_conn_feed` | two connections share the channel | 1 subscription, channel of 1, 2 messages on one and 1 on the other |
| `ob_ws` | safety of the depth client; loops whose socket `Close` finds stop, drops are noticed | 2 connections, delays 1 to 3 |
| `ob_ws_close` | *violation*: `Close` can leave a loop running | 1 connection |
| `ob_ws_backoff` | *violation*: repeated losses need not back off | 1 connection |
| `ob_writer` | both snapshot writers of one symbol | 2 versions of the book |

Why the bounds suffice. In the live phase three pushes over two times give each
of: an update of a candle, an insertion before and after one, and a push that
lands in the middle of a save of the same pair; two pairs let one save fail while
the other goes on; one restart shows what a kill left. Pairs do not interact
otherwise. The connections are independent but for the channel, the manager's
order and the map: two of them show those, and one alone can then afford more
messages and subscriptions (a channel of 2 and 4 messages). Delays 1, 2, 3 reach a doubling, the cap and a value
that is not a power of two. Sessions and drops are not bounded.
Three pairs over two workers make the launch loop wait for a slot, two pairs of the
unknown symbol let one worker find out what the other then skips, and the exchange has
more candles than it returns at once when there is no file. In `kline_history` an answer
can be longer than the limit, a list of five or six longer than an answer, so that its
oldest, its newest or both are missing, and three starts let a file be extended twice.
With two messages on one connection the second can be in the loop's hand while the
first is in the channel, or come in a later session, and the other connection can take the
place between them. Three
goroutines of a pair give an overlap and one that is done with. Two
versions let the final write differ from the background one, whose `SET` may be
late. `MaxPush`, `MaxDiskErrors`, `MaxRestarts`, `MaxShown`, `MaxStarts`, `MaxRank`,
`OpenTimes` and `Times`, `Unreadable`, `MaxMsgs` and `MaxVersion` are the only bounds
in guards.

No run uses symmetry or turns the deadlock check off: the states where a system may
stop have an explicit stuttering step (`Stopped`, `Finished`).

### Fairness

- `KlineLive`: weak fairness of each flusher's steps, of the ticker and of main's
  final flush (goroutines that can run do); strong fairness of `LoopDone`,
  because a Go `select` picks uniformly among ready cases. Pushes, errors, kills,
  and the signal are not fair.
- `KlineBootstrap`: weak fairness of main and of each worker's steps that wait for
  nobody (`OwnStep`): a request ends within the client's ten seconds and an upsert
  within five, by failing if not otherwise. That an exchange or a database answers
  is not assumed.
- `KlineMirror`: weak fairness of each goroutine's `OwnStep`, by the timeouts of five,
  three and three seconds.
- `KlineHistory`: none; it has safety properties only.
- `KlineConn`: the same as `KlineLive` for loops, pings and the handler; strong fairness where a
  mutex or a select is contended (`sync.Mutex` hands over to starving waiters).
  Writes end because of the five second deadline, dials because of the dialer's
  handshake timeout. A dropped socket fails its reader: Go's dialer turns TCP
  keepalive on. Messages are not fair: the exchange may stay silent for ever.
- `ObWSClient`: as above, but pings have no write deadline, so a write is
  assumed to settle only once the socket is no longer open.
- `ObWriter`: weak fairness of each write (three second timeout in Redis, a disk
  that answers) and of the blocking writer's tries. The end of its context is not
  fair.

## Where the code and its documents disagree

1. `file.go:118` clears the dirty flag whatever happened since `GetDirty`. A push
   merged in between waits for the next push of its pair, though `kline/prd.md:520`
   promises every push within a tick. `ForgottenOnlyWhileSaving` (checked and
   proved) says that this is the only way to lose one.
2. `main.go:116`: nothing waits for the handler goroutine, so the last flush is
   not always of "all dirty entries" (`kline/prd.md:419`).
3. `websocket.go:215` registers a socket after `Close` has swept the map, and
   that loop does not stop (`websocket.go:107`). `OnlyUnregisteredSurvive` bounds
   it: only a loop between dial and registration is missed. The kline service
   has the same shape and not the problem: it looks at the context again after
   it has assigned `c.conn` (`ManagerCloseStopsLoops`).
4. `websocket.go:135` dials again at once after a read error; only failed
   attempts are followed by a back-off (`orderbook/prd.md:218`).
5. `kline/prd.md:433` says that "no data is lost for closed candles" in a reconnection
   window, and `kline/prd.md:12` "Never lose a candle". `conn.go` fetches nothing after a
   reconnect: a candle whose last push fell into the window keeps what it had
   (`missed` in `KlineHistory`, from `Show` while the link is down and from `Drop`)
   until a restart asks for it. The same window lies between the fetch of a
   bootstrap and the subscription.
6. `kline/prd.md:338` starts the fetch after "the last closed candle". For a file of one
   candle, which was still open when it was saved, `computeStart` starts after that
   one (`bootstrap.go:174`): no start asks for it again (`NotAsked`).
7. `kline/prd.md:340` merges the fetched candles "into the store". `bootstrapPair` merges
   them into the list of the file and puts that in the store, over what was preloaded
   from the database (`LoadExisting`).
8. `redis.go:29` stores "the latest candle"; two goroutines of a pair that overlap,
   and a `SET` that timed out or that the client sent twice, may leave an older one there
   until the next push (`OldPushesStayBehind` says when it cannot).
9. `kline/prd.md:258` has at most 2000 candles per request, and the default
   `BOOTSTRAP_LIMIT` is as large: after a longer gap it is the exchange, not the cut
   of `client.go:81`, that decides which candles are missing. `FetchKline` makes one
   request, so they stay missing (`NotAnswered`), against `kline/prd.md:12` again.
10. Not modelled: `orderbook/prd.md:361` has a 429 followed by a wait and a retry;
   after the third attempt `FetchDepthSnapshot` waits and then gives up.

1 to 4 are the violation runs. 5 to 9 have no run of their own: the models show them
by what their invariants have to except. So they do for something no document speaks
of: a file that is there and cannot be read counts as empty (`bootstrap.go:108`), and
what is fetched, or else the first flush, replaces its history (`unread`).

## Proofs

Every safety invariant and every action property of the runs is a theorem, for all
values of the constants. Each proof has the same shape: an inductive invariant
`IInv` that TLC checked first on the bounds of the run, one lemma per action, and the
property from it.

Assumptions: only those named in the modules, each evaluated by TLC on the run's
instance. `TimesAssumption`, `LiveAssumption`, `MirrorAssumption`, `ConnAssumption`,
`MessagesAssumption`, `DelayAssumption`, `VersionAssumption`, `RestAssumption` give the
constants their types and keep counts above zero. Two say more:

- `HistoryAssumption`: the candles the exchange shows first lie on consecutive
  intervals and have open times of `Times`.
- `BootstrapAssumption`: the pairs are listed once each (`Order`); what earlier
  processes left in files are lists in order, of candles the exchange has shown, with
  content no newer than it shows now; what they left in the table are rows in order of
  open time, which is the table's primary key. `KlineLiveProofs` and
  `KlineHistoryProofs` prove of the files what is assumed here of the first ones.

`CandlesProofs`. `sort.Search` finds an index by well-founded induction on it
(`SearchIndexDef`); an insertion shifts the tail (`InsertAtProperties`); hence
`UpsertContents`: the result of `Upsert` on an ascending list is ascending and has
exactly the old candles of other times and the new one. `Covers` ("at least as
new as") is a preorder, and an upsert with a newer push moves a list forward
(`UpsertCovers`). `Merge` is a recursive function over the fetched candles. The
library's induction rules take an operator and cannot be used, so `MergeDef` unfolds
it by a least counterexample instead (`LeastNatural`, from the well-foundedness of
`<` on the naturals), and so do `MergeContents` (an ascending list: what was fetched,
and what the file held of other times) and `MergeCovers` (a list moves forward when
what is fetched is at least as new). `RunContents` says what a run of consecutive
candles of a list holds, which is what an answer is of the exchange's list. `NewestKept` is
the cut of `FetchKline`: what is left of an answer is ascending, and only the oldest
candles beyond the limit are missing.

`KlineLiveProofs`. `SnapshotOrder` is not inductive alone: the push in hand must
be newer than all content in memory (`FreshPushes`); a flusher's program counter
must agree with its batch, its current entry and the temporary file
(`FlushSteps`); the loop must be gone before main flushes (`LoopBeforeMain`), or
two flushers would share a temporary file; copies in flight must be ascending
(`SortedClones`). `IInv` is the conjunction of these and the invariants
(`Invariance`, one lemma per action). From it follow the safety invariants, the two
action properties (`CleanIsSaved`, `ForgottenInFlight`), and the refinement
`FilesPublishSnapshots`: an upsert is `Apply`, a rename is `Publish`, a restart is
`Recover`, and every other step stutters.

`KlineConnProofs`. The invariants of the control part (`Control`: `OneWriter`,
`NoSocketLeak`, `PingWithinSession` with `ConnIsSocket`, which says when `c.conn`
points to which socket, and `Sending`) support each other, as those of `ObWSClient`
do. `FeedIsComplete` needs to know where a message is: in the loop's hand, which holds
the last one read (`HandIsLast`), or in the channel, in order per connection and none
that was handled (`ChannelInOrder`), with nothing in between missing but a last
message dropped by `ctx.Done` (`NoneLost`).

`KlineBootstrapProofs`. What the live phase finds is the work of the workers, so the
invariant is a proof outline of one (`WorkerInOrder`): from the read to the end of a
failed worker the entry is the list on disk (`Basis`, which is empty for a file that
could not be read), the list to save covers it, the temporary file holds that list when
it is renamed, and after the rename the file is that list. A fetch can only bring
newer content because no file is ahead of the exchange (`FilesSound`). `AllLaunched`
ties `next` to the workers that have begun: the live phase is reached only with every
worker launched and, by `LiveQuietly`, ended. `StepKeeps` carries the part that all
steps of a worker share. `TypeOK` holds the bound of the semaphore, by cardinalities.

`KlineHistoryProofs`. `ClosedCandlesKept` is not inductive: a kill takes the memory
and the next start has only the file. What survives is `FileWithoutGaps` (before its
last candle the file lacks nothing that `missed` does not name), and a start asks
again from there on (`BeforeStart`). Of what it asked for it gets some run
(`FetchContents`, for every answer of `Answers`), and what that and the limit leave out is
in `missed` (`StartMerges`). A save re-establishes it because
a frame not yet handled is newer than all of memory (`SentInOrder`) and what is held of
a candle was shown after every earlier one had closed (`HeldFromMarket`): so it cannot
belong before the last candle saved. `CandlesKept` is the property for the open candle
as well, and `MemoryAheadOfFile` gives `FileForward`.

`KlineMirrorProofs`. That an old push stays behind rests on an order among goroutines
that nothing in the code names: what is behind an acknowledged write comes from
goroutines that had ended, hence never from the one that writes
(`OnlyEndedAreOlder`); what the servers hold is what was pushed under that rank
(`RanksAreExact`, `OnlyPushed`), and a late command is one of those left behind
(`OnlyLeftAreLate`), by a timeout or by a retry (`UnansweredKeeps`). That rows stay one per open time is `UpsertContents`.

`ObWSClientProofs`. The invariants of one loop support each other: a ping
goroutine that outlived its session could close the next socket behind the map's
back. Their conjunction with `GapsAnnounced` (a gap can be pending only in a loop
that had a session, and never while it reads) is inductive (`Invariance`), and
gives every safety invariant of the module and `OnlyUnregisteredSurvive`.

`ObWriterProofs`. That readers go forward needs an order among everything in
flight: no job holds an older snapshot than readers find, or may yet find in
Redis (`ShownIsOlder`, `LateIsOlder`), and the blocking snapshot is the newest
(`SnapshotsAscend`). A successful final write stays because it comes after the
stop and no background job is left by then (`BlockingIsLast`). With `FlagIsExact`
and `TmpIsOwn` (the temporary file belongs to the job that renames it) these are
inductive.

Two theorems have no run of their own and are proved only: `FlushIsExclusive` (the
flush loop and the final flush never overlap; `kline_live` shows what follows from it,
`WholeFiles` and `PublishesSnapshots`) and `PairsAreConfigured` (no message creates an
entry or a file for a pair that was not configured).

Model-checked only: liveness (`DirtyIsRetried`, `ShutdownCompletes`,
`ManagerCloseStopsLoops`, `DropEndsSession`, `ListedLoopsStop`, `DropIsNoticed`,
`BlockingReturns`, `BootstrapEnds`, `GoroutinesEnd`): TLAPS proves nothing of fairness
and `ENABLED`. That `KlineHistory` is a fair summary of the modules it composes is
argued in its comments and not stated as a refinement.

## Plan

In this order; items marked done are in the tables above.

1. done: `Candles`, `CandleStore`, `CandleFiles`, `KlineLive`, `SnapshotFile`.
2. done: `KlineConn`, `ObWSClient`.
3. done: `KlineRest`, `KlineBootstrap`, `KlineHistory`.
4. done: `KlineMirror`.
5. done: `ObWriter`.
6. Proofs: done for every safety property of a run.
7. `Shards`: `chunkSymbols` and the shards of `manager.New` against "a partition in
   order", and `sort.Search` as its loop against the contract used here.
8. `ObRest`: the retry loop of `FetchDepthSnapshot` with its attempts and waits.

## Not modelled

- `orderbook/internal/exchange/rest.go`: one goroutine, at most three attempts, no
  state shared with the rest of the repository (the managers that call it are not
  in it); planned last.
- Both `config.go` and `symbol.go`: sequential parsing and validation, without state.
  What the models take from them are the intervals' lengths and the configured
  pairs. `parseSymbols` does not remove repetitions; the models assume distinct pairs.
- `db.New`, `Migrate`, `Close`, and the number formats of `timescale_convert.go`.
- The order book managers and `orderbook/cmd`, which are not in the repository, and
  the deployment files.
- Logging, wording of errors, `UpdatedAt`.
