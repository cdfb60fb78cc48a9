------------------------------ MODULE ObWriter ------------------------------
(***************************************************************************)
(* The snapshot writers of the orderbook service for one symbol: Writer    *)
(* (internal/persistence/writer.go), which replaces a file, and            *)
(* RedisWriter (redis_writer.go), which sets a key.                        *)
(*                                                                         *)
(* Both let one write run at a time, guarded by an atomic flag:            *)
(* WriteSnapshot starts a goroutine or skips, WriteSnapshotBlocking polls  *)
(* for the flag and writes itself.  Their caller, the manager, is outside  *)
(* the repository; as the README and prd.md say, it offers the current     *)
(* book on a ticker and, once the ticker is stopped, makes one blocking    *)
(* write.  A snapshot is the version of the book it was taken from.        *)
(***************************************************************************)
EXTENDS Integers

CONSTANT MaxVersion         \* bound: versions of the book

ASSUME VersionAssumption == MaxVersion \in Nat \ {0}

Writers == {"file", "redis"}
Jobs == {"background", "blocking"}
Torn == -1                  \* a file that is not a whole snapshot

VARIABLES
  version,                  \* the version of the manager's book
  stopped,                  \* the manager's context is done
  inProgress,               \* the writers whose flag is set
  pc,                       \* writer -> job -> where it is
  snapshot,                 \* writer -> job -> the snapshot it writes
  result,                   \* writer -> what WriteSnapshotBlocking returned
  tmp,                      \* the temporary file: 0 is no file
  shown,                    \* writer -> what a reader finds: 0 is nothing
  late                      \* SET commands nobody waits for any more

callVars == <<version, stopped, result>>
vars == <<callVars, inProgress, pc, snapshot, tmp, shown, late>>

Versions == 1..MaxVersion
Writing == {"write", "fill", "publish"}

TypeOK ==
  /\ version \in Versions /\ stopped \in BOOLEAN
  /\ inProgress \subseteq Writers
  /\ pc \in [Writers -> [Jobs -> {"idle", "claim", "wait"} \cup Writing]]
  /\ snapshot \in [Writers -> [Jobs -> Versions]]
  /\ result \in [Writers -> {"none", "ok", "failed"}]
  /\ tmp \in {Torn, 0} \cup Versions
  /\ shown \in [Writers -> {Torn, 0} \cup Versions]
  /\ late \subseteq Versions

Init ==
  /\ version = 1 /\ stopped = FALSE
  /\ inProgress = {}
  /\ pc = [w \in Writers |-> [j \in Jobs |-> "idle"]]
  /\ snapshot = [w \in Writers |-> [j \in Jobs |-> 1]]
  /\ result = [w \in Writers |-> "none"]
  /\ tmp = 0 /\ shown = [w \in Writers |-> 0] /\ late = {}

Go(w, j, from, to) == pc[w][j] = from /\ pc' = [pc EXCEPT ![w][j] = to]

\* The job ends; only the blocking one has a caller to tell.
End(w, j, from, outcome) ==
  /\ Go(w, j, from, "idle")
  /\ result' = [result EXCEPT ![w] = IF j = "blocking" THEN outcome ELSE @]
  /\ UNCHANGED <<version, stopped, snapshot>>

\* A slip: a job that ends without lowering the flag.
ReturnHolding(w, j, from, outcome) ==
  End(w, j, from, outcome) /\ UNCHANGED inProgress

\* The job returns and its deferred Store(false) runs.
Return(w, j, from, outcome) ==
  End(w, j, from, outcome) /\ inProgress' = inProgress \ {w}

-----------------------------------------------------------------------------
(* The manager.                                                            *)

Advance ==
  /\ version < MaxVersion
  /\ version' = version + 1
  /\ UNCHANGED <<stopped, result, inProgress, pc, snapshot, tmp, shown, late>>

Stop ==
  /\ ~stopped
  /\ stopped' = TRUE
  /\ UNCHANGED <<version, result, inProgress, pc, snapshot, tmp, shown, late>>

\* A slip: a snapshot numbered as the one that follows it.
WriteSnapshotAhead(w) ==
  /\ ~stopped /\ w \notin inProgress
  /\ inProgress' = inProgress \cup {w}
  /\ Go(w, "background", "idle", "write")
  /\ snapshot' = [snapshot EXCEPT ![w]["background"] = version + 1]
  /\ UNCHANGED <<callVars, tmp, shown, late>>

\* WriteSnapshot wins the compare-and-swap and starts its goroutine; when
\* it loses it, or its context is done, it returns and changes nothing.
WriteSnapshot(w) ==
  /\ ~stopped /\ w \notin inProgress
  /\ inProgress' = inProgress \cup {w}
  /\ Go(w, "background", "idle", "write")
  /\ snapshot' = [snapshot EXCEPT ![w]["background"] = version]
  /\ UNCHANGED <<callVars, tmp, shown, late>>

WriteSnapshotBlocking(w) ==
  /\ stopped /\ result[w] = "none"
  /\ Go(w, "blocking", "idle", "claim")
  /\ snapshot' = [snapshot EXCEPT ![w]["blocking"] = version]
  /\ UNCHANGED <<callVars, inProgress, tmp, shown, late>>

\* A slip: a claim that does not wait for the write in progress.
ClaimUnguarded(w) ==
  /\ inProgress' = inProgress \cup {w}
  /\ Go(w, "blocking", "claim", "write")
  /\ UNCHANGED <<callVars, snapshot, tmp, shown, late>>

\* The blocking write finds the flag down and raises it, ...
Claim(w) ==
  /\ w \notin inProgress
  /\ inProgress' = inProgress \cup {w}
  /\ Go(w, "blocking", "claim", "write")
  /\ UNCHANGED <<callVars, snapshot, tmp, shown, late>>

\* ... or finds it up and waits, ...
ClaimFails(w) ==
  /\ w \in inProgress
  /\ Go(w, "blocking", "claim", "wait")
  /\ UNCHANGED <<callVars, inProgress, snapshot, tmp, shown, late>>

\* ... until its timer fires and it tries again, ...
TryAgain(w) ==
  /\ Go(w, "blocking", "wait", "claim")
  /\ UNCHANGED <<callVars, inProgress, snapshot, tmp, shown, late>>

\* ... or the context it was given ends, whether the flag is still up or not.
GiveUp(w) ==
  /\ End(w, "blocking", "wait", "failed")
  /\ UNCHANGED <<inProgress, tmp, shown, late>>

-----------------------------------------------------------------------------
(* Writer.writeSnapshot: a kill may leave the files as any state has them. *)

\* A slip: a write of the file in place, without the temporary one.
TruncateInPlace(j) ==
  /\ Go("file", j, "write", "fill")
  /\ shown' = [shown EXCEPT !["file"] = Torn]
  /\ UNCHANGED <<callVars, inProgress, snapshot, tmp, late>>

\* os.WriteFile opens the temporary file, which empties it, ...
Truncate(j) ==
  /\ Go("file", j, "write", "fill")
  /\ tmp' = Torn
  /\ UNCHANGED <<callVars, inProgress, snapshot, shown, late>>

\* ... and writes it.
Fill(j) ==
  /\ Go("file", j, "fill", "publish")
  /\ tmp' = snapshot["file"][j]
  /\ UNCHANGED <<callVars, inProgress, snapshot, shown, late>>

\* A slip: a failure to write that the caller never hears of.
WriteFailsSilently(j) ==
  /\ \E from \in {"write", "fill"} : Return("file", j, from, "ok")
  /\ UNCHANGED <<tmp, shown, late>>

\* The snapshot cannot be marshalled, or WriteFile cannot open the
\* file or write all of it.
WriteFails(j) ==
  /\ \E from \in {"write", "fill"} : Return("file", j, from, "failed")
  /\ UNCHANGED <<tmp, shown, late>>

Rename(j) ==
  /\ Return("file", j, "publish", "ok")
  /\ shown' = [shown EXCEPT !["file"] = tmp]
  /\ tmp' = 0
  /\ UNCHANGED late

\* os.Remove may fail too.
RenameFails(j) ==
  /\ Return("file", j, "publish", "failed")
  /\ tmp' \in {0, tmp}
  /\ UNCHANGED <<shown, late>>

-----------------------------------------------------------------------------
(* RedisWriter: SetOrderBook under a timeout.  The client retries, so the  *)
(* server may have the command more than once and apply one of them later. *)

Unanswered(j) == late' \in {late, late \cup {snapshot["redis"][j]}}

SetApplied(j) ==
  /\ Return("redis", j, "write", "ok")
  /\ shown' = [shown EXCEPT !["redis"] = snapshot["redis"][j]]
  /\ Unanswered(j)
  /\ UNCHANGED tmp

\* The command fails, or its timeout or the context it was given ends: it
\* may have been applied all the same.
SetAbandoned(j) ==
  /\ Return("redis", j, "write", "failed")
  /\ \E v \in {shown["redis"], snapshot["redis"][j]} :
       shown' = [shown EXCEPT !["redis"] = v]
  /\ Unanswered(j)
  /\ UNCHANGED tmp

LateSet ==
  /\ \E v \in late :
       /\ late' = late \ {v}
       /\ shown' = [shown EXCEPT !["redis"] = v]
  /\ UNCHANGED <<callVars, inProgress, pc, snapshot, tmp>>

-----------------------------------------------------------------------------
Job(j) ==
  \/ Truncate(j) \/ Fill(j) \/ WriteFails(j) \/ Rename(j) \/ RenameFails(j)
  \/ SetApplied(j) \/ SetAbandoned(j)

Finished == stopped /\ (\A w \in Writers : result[w] # "none") /\ UNCHANGED vars

Next ==
  \/ Advance \/ Stop \/ LateSet \/ Finished
  \/ \E w \in Writers :
       \/ WriteSnapshot(w) \/ WriteSnapshotBlocking(w)
       \/ Claim(w) \/ ClaimFails(w) \/ TryAgain(w) \/ GiveUp(w)
  \/ \E j \in Jobs : Job(j)

Spec == Init /\ [][Next]_vars

\* Every write ends: Redis within its timeout, a file as the disk allows.
\* The caller runs, and the timer between its tries fires.
Fairness ==
  /\ \A j \in Jobs : WF_vars(Job(j))
  /\ \A w \in Writers : WF_vars(Claim(w) \/ ClaimFails(w) \/ TryAgain(w))

FairSpec == Spec /\ Fairness

-----------------------------------------------------------------------------
\* The flag is up exactly while a job writes, and one job writes at a time.
FlagIsExact ==
  \A w \in Writers :
    /\ w \in inProgress <=> \E j \in Jobs : pc[w][j] \in Writing
    /\ \E j \in Jobs : pc[w][j] \notin Writing

\* Readers of the file never find half a snapshot, wherever the process is
\* killed: the jobs share one temporary file and never use it together.
FileIsWhole == shown["file"] # Torn

\* A blocking write that returned no error is the last word: no background
\* write that began before it lands after it.
FinalWriteStays ==
  result["file"] = "ok" => shown["file"] = snapshot["file"]["blocking"]

\* Readers of the file never see the book go back; readers of the key only
\* when a command nobody waited for is applied after all.
GoesForward ==
  [][/\ shown'["file"] >= shown["file"]
     /\ shown'["redis"] < shown["redis"] =>
          \E v \in late : v \notin late' /\ shown'["redis"] = v]_vars

\* The final write ends, however a write in progress does.
BlockingReturns ==
  \A w \in Writers : pc[w]["blocking"] # "idle" ~> result[w] # "none"
=============================================================================
