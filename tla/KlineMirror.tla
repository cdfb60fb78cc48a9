----------------------------- MODULE KlineMirror ------------------------------
(***************************************************************************)
(* What Store.Upsert does outside the lock (internal/store/store.go): it   *)
(* starts a goroutine that writes the pushed candle to TimescaleDB         *)
(* (internal/db/timescale.go) and then to Redis, as the latest bar and as  *)
(* a message (internal/redisclient/redis.go).  Nothing orders two of these *)
(* goroutines; what ends them are the timeouts of their three operations.  *)
(*                                                                         *)
(* One pair: the pairs share no row and no key.  The goroutine of a push   *)
(* is named by the push's rank.                                            *)
(***************************************************************************)
EXTENDS Candles

CONSTANT OpenTimes          \* those of the candles pushed, in order (a bound)

ASSUME MirrorAssumption == OpenTimes \in Seq(Times)

VARIABLES
  hasDB,                    \* s.db is not nil
  hasRedis,                 \* s.redis is not nil
  pushed,                   \* the candles upserted, in order
  job,                      \* rank -> the operation its goroutine is at
  rows,                     \* the pair's rows, by open time
  latest,                   \* the key kline:latest of the pair, if set
  late                      \* commands nobody waits for, still to apply

\* History variables: the goroutines that had ended when that of a push was
\* started; the pushes each operation has put behind it; the commands left.
VARIABLES before, passed, left

jobVars == <<hasDB, hasRedis, pushed, job, before>>
serverVars == <<rows, latest, late, passed, left>>
vars == <<jobVars, serverVars>>

MaxPush == Len(OpenTimes)
Ranks == 1..Len(pushed)
Command == [op : {"upsert", "set"}, candle : Candle]
Cmd(op, r) == [op |-> op, candle |-> pushed[r]]

TypeOK ==
  /\ hasDB \in BOOLEAN /\ hasRedis \in BOOLEAN
  /\ pushed \in Seq(Candle) /\ Len(pushed) <= MaxPush
  /\ job \in [Ranks -> {"upsert", "set", "publish", "ended"}]
  /\ rows \in Seq(Candle) /\ Ascending(rows)
  /\ latest \subseteq Candle
  /\ late \subseteq Command
  /\ before \in [Ranks -> SUBSET Ranks]
  /\ passed \in [{"upsert", "set"} -> SUBSET Ranks]
  /\ left \subseteq Command

Init ==
  /\ hasDB \in BOOLEAN /\ hasRedis \in BOOLEAN
  /\ pushed = <<>> /\ job = <<>>
  /\ rows = <<>> /\ latest = {}
  /\ late = {} /\ before = <<>> /\ left = {}
  /\ passed = [op \in {"upsert", "set"} |-> {}]

-----------------------------------------------------------------------------
\* persistExternal goes from one operation to the next, whatever came of it.
AfterUpsert == IF hasRedis THEN "set" ELSE "ended"

FirstOperation == IF hasDB THEN "upsert" ELSE AfterUpsert

\* Store.Upsert has released the lock and starts the goroutine, if there is
\* something to write to.
Push ==
  /\ Len(pushed) < MaxPush
  /\ LET rank == Len(pushed) + 1
     IN  pushed' = Append(pushed, [t |-> OpenTimes[rank], v |-> rank])
  /\ job' = Append(job, FirstOperation)
  /\ before' = Append(before, {r \in Ranks : job[r] = "ended"})
  /\ UNCHANGED <<hasDB, hasRedis, serverVars>>

Proceed(r, op, next) ==
  /\ job[r] = op
  /\ job' = [job EXCEPT ![r] = next]
  /\ before' = IF next = "ended" THEN [before EXCEPT ![r] = {}] ELSE before
  /\ UNCHANGED <<hasDB, hasRedis, pushed>>

\* The operation is acknowledged: what had been done to the same row, or key,
\* before is behind it.
Acknowledged(op, r) ==
  passed' = [passed EXCEPT ![op] = @ \cup
    {q \in before[r] : op = "set" \/ pushed[q].t = pushed[r].t}]

\* A command that got no answer may still be on its way to the server.
Unanswered(op, r) ==
  \/ UNCHANGED <<late, left>>
  \/ /\ late' = late \cup {Cmd(op, r)}
     /\ left' = left \cup {Cmd(op, r)}

\* An operation returns an error, which is logged: nothing was written (a
\* candle that does not parse, a server that refuses or does not answer in
\* time), or the context was over when the command had reached the server.
Fails(op, r) == Unanswered(op, r) /\ UNCHANGED <<rows, latest, passed>>

\* A slip: an INSERT without ON CONFLICT, on a table without its key.
UpsertRowDuplicating(r) ==
  /\ Proceed(r, "upsert", AfterUpsert)
  /\ rows' = Append(rows, pushed[r])
  /\ Acknowledged("upsert", r)
  /\ UNCHANGED <<latest, late, left>>

UpsertRow(r) ==
  /\ Proceed(r, "upsert", AfterUpsert)
  /\ rows' = Upsert(rows, pushed[r])
  /\ Acknowledged("upsert", r)
  /\ UNCHANGED <<latest, late, left>>

UpsertRowFails(r) == Proceed(r, "upsert", AfterUpsert) /\ Fails("upsert", r)

\* A slip: a SET sent off without waiting for its answer.
SetLatestUnawaited(r) ==
  /\ Proceed(r, "set", "publish")
  /\ late' = late \cup {Cmd("set", r)}
  /\ Acknowledged("set", r)
  /\ UNCHANGED <<rows, latest, left>>

\* The Redis client sends a command again when the answer does not come in
\* time: one of the copies is acknowledged, another may be left behind.
SetLatest(r) ==
  /\ Proceed(r, "set", "publish")
  /\ latest' = {pushed[r]}
  /\ Acknowledged("set", r)
  /\ Unanswered("set", r)
  /\ UNCHANGED rows

\* A slip: a SET without a deadline, which a silent server holds for ever.
SetLatestHangs(r) == job[r] = "set" /\ UNCHANGED vars

SetLatestFails(r) == Proceed(r, "set", "publish") /\ Fails("set", r)

\* Published or not, the goroutine ends; a subscriber keeps nothing here.
Publish(r) == Proceed(r, "publish", "ended") /\ UNCHANGED serverVars

\* A server applies a command nobody waits for any more; of a SET there may
\* be more copies on the way.
LateCommand ==
  \E c \in late :
    /\ late' = late \ {c} \/ (c.op = "set" /\ late' = late)
    /\ IF c.op = "upsert"
       THEN rows' = Upsert(rows, c.candle) /\ UNCHANGED latest
       ELSE latest' = {c.candle} /\ UNCHANGED rows
    /\ UNCHANGED <<jobVars, passed, left>>

\* Every push the bound allows has come and is dealt with.
Finished ==
  /\ Len(pushed) = MaxPush /\ \A r \in Ranks : job[r] = "ended"
  /\ UNCHANGED vars

\* The steps that wait for nobody: each context ends.
OwnStep(r) == UpsertRowFails(r) \/ SetLatestFails(r) \/ Publish(r)

Next ==
  \/ Push
  \/ \E r \in Ranks : OwnStep(r) \/ UpsertRow(r) \/ SetLatest(r)
  \/ LateCommand \/ Finished

Spec == Init /\ [][Next]_vars

\* The runtime runs every goroutine, and the timers of the contexts fire.
FairSpec ==
  Spec /\ \A r \in 1..MaxPush : WF_vars(r \in Ranks /\ OwnStep(r))

-----------------------------------------------------------------------------
\* The content a server shows never goes back to a push that was done with
\* when the goroutine of an acknowledged one was started: only goroutines
\* that overlap overwrite each other in the wrong order, and commands left
\* behind by a timeout or by the client's retry of a SET.
OldPushesStayBehind ==
  /\ \A c \in latest : c.v \in passed["set"] => Cmd("set", c.v) \in left
  /\ \A c \in ToSet(rows) : \A r \in passed["upsert"] :
       c.v = r => Cmd("upsert", r) \in left

\* Every goroutine ends, whatever the servers do: while they hang, goroutines
\* pile up for no longer than three timeouts.
GoroutinesEnd ==
  \A r \in 1..MaxPush :
    (r \in Ranks /\ job[r] # "ended") ~> (r \in Ranks /\ job[r] = "ended")
=============================================================================
