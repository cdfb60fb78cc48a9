--------------------------- MODULE ObWriterProofs ---------------------------
(***************************************************************************)
(* Proofs about the snapshot writers, for any number of versions.          *)
(***************************************************************************)
EXTENDS ObWriter, TLAPS

(* The strengthening.                                                      *)

\* A background job waits for nothing.
NoClaimInBackground ==
  \A w \in Writers : pc[w]["background"] \notin {"claim", "wait"}

\* What is about to be renamed is the job's own snapshot.
TmpIsOwn ==
  \A j \in Jobs : pc["file"][j] = "publish" => tmp = snapshot["file"][j]

\* The blocking write is the last one: it is made once, after the stop, and
\* no background job writes when it has succeeded.
BlockingIsLast ==
  \A w \in Writers :
    /\ pc[w]["blocking"] # "idle" => stopped /\ result[w] = "none"
    /\ result[w] # "none" => stopped
    /\ result[w] = "ok" => pc[w]["background"] = "idle"

\* No snapshot is ahead of the book, and the blocking one is the newest.
SnapshotsAscend ==
  \A w \in Writers :
    /\ \A j \in Jobs : snapshot[w][j] <= version
    /\ pc[w]["blocking"] # "idle" =>
         snapshot[w]["background"] <= snapshot[w]["blocking"]

\* A job writes nothing older than what readers find ...
ShownIsOlder ==
  \A w \in Writers :
    /\ shown[w] <= version
    /\ \A j \in Jobs : pc[w][j] # "idle" => shown[w] <= snapshot[w][j]

\* ... or may still find in Redis.
LateIsOlder ==
  \A v \in late :
    /\ v <= version
    /\ \A j \in Jobs : pc["redis"][j] # "idle" => v <= snapshot["redis"][j]

IInv ==
  /\ TypeOK
  /\ FlagIsExact
  /\ FileIsWhole
  /\ FinalWriteStays
  /\ NoClaimInBackground
  /\ TmpIsOwn
  /\ BlockingIsLast
  /\ SnapshotsAscend
  /\ ShownIsOlder
  /\ LateIsOlder

-----------------------------------------------------------------------------
\* The initial states satisfy the invariant.
LEMMA InitIInv == Init => IInv
<1> SUFFICES ASSUME Init PROVE IInv
  OBVIOUS
<1> USE VersionAssumption
    DEF Init, Writers, Jobs, Writing, Versions, Torn
<1>1. TypeOK
  <2>1. 1 \in Versions
    BY SMT
  <2> HIDE DEF Versions
  <2> QED BY <2>1, Zenon DEF TypeOK
<1>2. FlagIsExact /\ FileIsWhole /\ FinalWriteStays /\ TmpIsOwn
  BY SMT DEF FlagIsExact, FileIsWhole, FinalWriteStays, TmpIsOwn
<1>3. NoClaimInBackground /\ BlockingIsLast
  BY SMT DEF NoClaimInBackground, BlockingIsLast
<1>4. SnapshotsAscend /\ ShownIsOlder /\ LateIsOlder
  BY SMT DEF SnapshotsAscend, ShownIsOlder, LateIsOlder
<1> QED BY <1>1, <1>2, <1>3, <1>4 DEF IInv

\* A step of the manager or of the Redis server.
LEMMA OutsideIInv ==
  ASSUME IInv, Advance \/ Stop \/ LateSet
  PROVE  IInv'
<1> USE VersionAssumption
    DEF IInv, TypeOK, FlagIsExact, FileIsWhole, FinalWriteStays,
        NoClaimInBackground, TmpIsOwn, BlockingIsLast, SnapshotsAscend,
        ShownIsOlder, LateIsOlder, Go,
        Writers, Jobs, Writing, Versions, Torn, callVars
<1>1. CASE Advance
  <2>1. TypeOK'
    BY <1>1, SMT DEF Advance
  <2>2. FlagIsExact' /\ FileIsWhole' /\ FinalWriteStays'
    BY <1>1, SMT DEF Advance
  <2>3. NoClaimInBackground' /\ TmpIsOwn' /\ BlockingIsLast'
    BY <1>1, SMT DEF Advance
  <2>4. SnapshotsAscend' /\ ShownIsOlder' /\ LateIsOlder'
    BY <1>1, SMT DEF Advance
  <2> QED BY <2>1, <2>2, <2>3, <2>4
<1>2. CASE Stop
  <2>1. TypeOK'
    BY <1>2, SMT DEF Stop
  <2>2. FlagIsExact' /\ FileIsWhole' /\ FinalWriteStays'
    BY <1>2, SMT DEF Stop
  <2>3. NoClaimInBackground' /\ TmpIsOwn' /\ BlockingIsLast'
    BY <1>2, SMT DEF Stop
  <2>4. SnapshotsAscend' /\ ShownIsOlder' /\ LateIsOlder'
    BY <1>2, SMT DEF Stop
  <2> QED BY <2>1, <2>2, <2>3, <2>4
<1>3. CASE LateSet
  <2>1. TypeOK'
    BY <1>3, SMT DEF LateSet
  <2>2. FlagIsExact' /\ FileIsWhole' /\ FinalWriteStays'
    BY <1>3, SMT DEF LateSet
  <2>3. NoClaimInBackground' /\ TmpIsOwn' /\ BlockingIsLast'
    BY <1>3, SMT DEF LateSet
  <2>4. SnapshotsAscend' /\ ShownIsOlder' /\ LateIsOlder'
    BY <1>3, SMT DEF LateSet
  <2> QED BY <2>1, <2>2, <2>3, <2>4
<1> QED BY <1>1, <1>2, <1>3

\* A call of the manager, and the wait of the blocking one for the flag.
LEMMA CallIInv ==
  ASSUME IInv, NEW w \in Writers,
         \/ WriteSnapshot(w) \/ WriteSnapshotBlocking(w)
         \/ Claim(w) \/ ClaimFails(w) \/ TryAgain(w) \/ GiveUp(w)
  PROVE  IInv'
<1> USE VersionAssumption
    DEF IInv, TypeOK, FlagIsExact, FileIsWhole, FinalWriteStays,
        NoClaimInBackground, TmpIsOwn, BlockingIsLast, SnapshotsAscend,
        ShownIsOlder, LateIsOlder, Go, End,
        Writers, Jobs, Writing, Versions, Torn, callVars
<1>1. CASE WriteSnapshot(w)
  <2>1. TypeOK'
    BY <1>1, SMT DEF WriteSnapshot
  <2>2. FlagIsExact' /\ FileIsWhole' /\ FinalWriteStays'
    BY <1>1, SMT DEF WriteSnapshot
  <2>3. NoClaimInBackground' /\ TmpIsOwn' /\ BlockingIsLast'
    BY <1>1, SMT DEF WriteSnapshot
  <2>4. SnapshotsAscend' /\ ShownIsOlder' /\ LateIsOlder'
    BY <1>1, SMT DEF WriteSnapshot
  <2> QED BY <2>1, <2>2, <2>3, <2>4
<1>2. CASE WriteSnapshotBlocking(w)
  <2>1. TypeOK'
    BY <1>2, SMT DEF WriteSnapshotBlocking
  <2>2. FlagIsExact' /\ FileIsWhole' /\ FinalWriteStays'
    BY <1>2, SMT DEF WriteSnapshotBlocking
  <2>3. NoClaimInBackground' /\ TmpIsOwn' /\ BlockingIsLast'
    BY <1>2, SMT DEF WriteSnapshotBlocking
  <2>4. SnapshotsAscend' /\ ShownIsOlder' /\ LateIsOlder'
    BY <1>2, SMT DEF WriteSnapshotBlocking
  <2> QED BY <2>1, <2>2, <2>3, <2>4
<1>3. CASE Claim(w)
  <2>1. TypeOK'
    BY <1>3, SMT DEF Claim
  <2>2. FlagIsExact' /\ FileIsWhole' /\ FinalWriteStays'
    BY <1>3, SMT DEF Claim
  <2>3. NoClaimInBackground' /\ TmpIsOwn' /\ BlockingIsLast'
    BY <1>3, SMT DEF Claim
  <2>4. SnapshotsAscend' /\ ShownIsOlder' /\ LateIsOlder'
    BY <1>3, SMT DEF Claim
  <2> QED BY <2>1, <2>2, <2>3, <2>4
<1>4. CASE ClaimFails(w)
  <2>1. TypeOK'
    BY <1>4, SMT DEF ClaimFails
  <2>2. FlagIsExact' /\ FileIsWhole' /\ FinalWriteStays'
    BY <1>4, SMT DEF ClaimFails
  <2>3. NoClaimInBackground' /\ TmpIsOwn' /\ BlockingIsLast'
    BY <1>4, SMT DEF ClaimFails
  <2>4. SnapshotsAscend' /\ ShownIsOlder' /\ LateIsOlder'
    BY <1>4, SMT DEF ClaimFails
  <2> QED BY <2>1, <2>2, <2>3, <2>4
<1>5. CASE TryAgain(w)
  <2>1. TypeOK'
    BY <1>5, SMT DEF TryAgain
  <2>2. FlagIsExact' /\ FileIsWhole' /\ FinalWriteStays'
    BY <1>5, SMT DEF TryAgain
  <2>3. NoClaimInBackground' /\ TmpIsOwn' /\ BlockingIsLast'
    BY <1>5, SMT DEF TryAgain
  <2>4. SnapshotsAscend' /\ ShownIsOlder' /\ LateIsOlder'
    BY <1>5, SMT DEF TryAgain
  <2> QED BY <2>1, <2>2, <2>3, <2>4
<1>6. CASE GiveUp(w)
  <2>1. TypeOK'
    BY <1>6, SMT DEF GiveUp
  <2>2. FlagIsExact' /\ FileIsWhole' /\ FinalWriteStays'
    BY <1>6, SMT DEF GiveUp
  <2>3. NoClaimInBackground' /\ TmpIsOwn' /\ BlockingIsLast'
    BY <1>6, SMT DEF GiveUp
  <2>4. SnapshotsAscend' /\ ShownIsOlder' /\ LateIsOlder'
    BY <1>6, SMT DEF GiveUp
  <2> QED BY <2>1, <2>2, <2>3, <2>4
<1> QED BY <1>1, <1>2, <1>3, <1>4, <1>5, <1>6

\* A step of a job that writes the file.
LEMMA FileIInv ==
  ASSUME IInv, NEW j \in Jobs,
         \/ Truncate(j) \/ Fill(j) \/ WriteFails(j) \/ Rename(j)
         \/ RenameFails(j)
  PROVE  IInv'
<1> USE VersionAssumption
    DEF IInv, TypeOK, FlagIsExact, FileIsWhole, FinalWriteStays,
        NoClaimInBackground, TmpIsOwn, BlockingIsLast, SnapshotsAscend,
        ShownIsOlder, LateIsOlder, Go, End, Return,
        Writers, Jobs, Writing, Versions, Torn, callVars
<1>1. CASE Truncate(j)
  <2>1. TypeOK'
    BY <1>1, SMT DEF Truncate
  <2>2. FlagIsExact' /\ FileIsWhole' /\ FinalWriteStays'
    BY <1>1, SMT DEF Truncate
  <2>3. NoClaimInBackground' /\ TmpIsOwn' /\ BlockingIsLast'
    BY <1>1, SMT DEF Truncate
  <2>4. SnapshotsAscend' /\ ShownIsOlder' /\ LateIsOlder'
    BY <1>1, SMT DEF Truncate
  <2> QED BY <2>1, <2>2, <2>3, <2>4
<1>2. CASE Fill(j)
  <2>1. TypeOK'
    BY <1>2, SMT DEF Fill
  <2>2. FlagIsExact' /\ FileIsWhole' /\ FinalWriteStays'
    BY <1>2, SMT DEF Fill
  <2>3. NoClaimInBackground' /\ TmpIsOwn' /\ BlockingIsLast'
    BY <1>2, SMT DEF Fill
  <2>4. SnapshotsAscend' /\ ShownIsOlder' /\ LateIsOlder'
    BY <1>2, SMT DEF Fill
  <2> QED BY <2>1, <2>2, <2>3, <2>4
<1>3. CASE WriteFails(j)
  <2>1. TypeOK'
    BY <1>3, SMT DEF WriteFails
  <2>2. FlagIsExact' /\ FileIsWhole' /\ FinalWriteStays'
    BY <1>3, SMT DEF WriteFails
  <2>3. NoClaimInBackground' /\ TmpIsOwn' /\ BlockingIsLast'
    BY <1>3, SMT DEF WriteFails
  <2>4. SnapshotsAscend' /\ ShownIsOlder' /\ LateIsOlder'
    BY <1>3, SMT DEF WriteFails
  <2> QED BY <2>1, <2>2, <2>3, <2>4
<1>4. CASE Rename(j)
  <2>1. TypeOK'
    BY <1>4, SMT DEF Rename
  <2>2. FlagIsExact' /\ FileIsWhole' /\ FinalWriteStays'
    BY <1>4, SMT DEF Rename
  <2>3. NoClaimInBackground' /\ TmpIsOwn' /\ BlockingIsLast'
    BY <1>4, SMT DEF Rename
  <2>4. SnapshotsAscend' /\ ShownIsOlder' /\ LateIsOlder'
    BY <1>4, SMT DEF Rename
  <2> QED BY <2>1, <2>2, <2>3, <2>4
<1>5. CASE RenameFails(j)
  <2>1. TypeOK'
    BY <1>5, SMT DEF RenameFails
  <2>2. FlagIsExact' /\ FileIsWhole' /\ FinalWriteStays'
    BY <1>5, SMT DEF RenameFails
  <2>3. NoClaimInBackground' /\ TmpIsOwn' /\ BlockingIsLast'
    BY <1>5, SMT DEF RenameFails
  <2>4. SnapshotsAscend' /\ ShownIsOlder' /\ LateIsOlder'
    BY <1>5, SMT DEF RenameFails
  <2> QED BY <2>1, <2>2, <2>3, <2>4
<1> QED BY <1>1, <1>2, <1>3, <1>4, <1>5

\* A step of a job that sets the key.
LEMMA RedisIInv ==
  ASSUME IInv, NEW j \in Jobs, SetApplied(j) \/ SetAbandoned(j)
  PROVE  IInv'
<1> USE VersionAssumption
    DEF IInv, TypeOK, FlagIsExact, FileIsWhole, FinalWriteStays,
        NoClaimInBackground, TmpIsOwn, BlockingIsLast, SnapshotsAscend,
        ShownIsOlder, LateIsOlder, Go, End, Return,
        Writers, Jobs, Writing, Versions, Torn, callVars
<1>1. CASE SetApplied(j)
  <2>1. TypeOK'
    BY <1>1, SMT DEF SetApplied, Unanswered
  <2>2. FlagIsExact' /\ FileIsWhole' /\ FinalWriteStays'
    BY <1>1, SMT DEF SetApplied, Unanswered
  <2>3. NoClaimInBackground' /\ TmpIsOwn' /\ BlockingIsLast'
    BY <1>1, SMT DEF SetApplied, Unanswered
  <2>4. SnapshotsAscend' /\ ShownIsOlder' /\ LateIsOlder'
    BY <1>1, SMT DEF SetApplied, Unanswered
  <2> QED BY <2>1, <2>2, <2>3, <2>4
<1>2. CASE SetAbandoned(j)
  <2>1. TypeOK'
    BY <1>2, SMT DEF SetAbandoned, Unanswered
  <2>2. FlagIsExact' /\ FileIsWhole' /\ FinalWriteStays'
    BY <1>2, SMT DEF SetAbandoned, Unanswered
  <2>3. NoClaimInBackground' /\ TmpIsOwn' /\ BlockingIsLast'
    BY <1>2, SMT DEF SetAbandoned, Unanswered
  <2>4. SnapshotsAscend' /\ ShownIsOlder' /\ LateIsOlder'
    BY <1>2, SMT DEF SetAbandoned, Unanswered
  <2> QED BY <2>1, <2>2, <2>3, <2>4
<1> QED BY <1>1, <1>2

\* Every step preserves the invariant.
LEMMA StepIInv == IInv /\ [Next]_vars => IInv'
<1> SUFFICES ASSUME IInv, [Next]_vars PROVE IInv'
  OBVIOUS
<1>1. CASE UNCHANGED vars
  BY <1>1, Zenon DEF vars, callVars, IInv, TypeOK, FlagIsExact, FileIsWhole,
     FinalWriteStays, NoClaimInBackground, TmpIsOwn, BlockingIsLast,
     SnapshotsAscend, ShownIsOlder, LateIsOlder
<1>2. CASE Next
  BY <1>1, <1>2, OutsideIInv, CallIInv, FileIInv, RedisIInv
     DEF Next, Job, Finished
<1> QED BY <1>1, <1>2

\* The invariant holds in every reachable state.
THEOREM Invariance == Spec => []IInv
BY InitIInv, StepIInv, PTL DEF Spec

\* Type correctness.
THEOREM TypeCorrect == Spec => []TypeOK
<1>1. IInv => TypeOK
  BY DEF IInv
<1> QED BY <1>1, Invariance, PTL

\* The compare-and-swap of both writers admits one write at a time, and every
\* path out of a write lowers the flag.
THEOREM OneWriteAtATime == Spec => []FlagIsExact
<1>1. IInv => FlagIsExact
  BY DEF IInv
<1> QED BY <1>1, Invariance, PTL

\* Readers never find half a file, wherever a write is cut short.
THEOREM FileNeverTorn == Spec => []FileIsWhole
<1>1. IInv => FileIsWhole
  BY DEF IInv
<1> QED BY <1>1, Invariance, PTL

\* What a successful blocking write has put there stays.
THEOREM FinalWriteIsLast == Spec => []FinalWriteStays
<1>1. IInv => FinalWriteStays
  BY DEF IInv
<1> QED BY <1>1, Invariance, PTL

\* A step takes no reader back to an older book, a late SET excepted.
LEMMA StepForward ==
  ASSUME IInv, [Next]_vars
  PROVE  /\ shown'["file"] >= shown["file"]
         /\ shown'["redis"] < shown["redis"] =>
              \E v \in late : v \notin late' /\ shown'["redis"] = v
<1> USE DEF IInv, TypeOK, Writers, Jobs, Versions, Torn, callVars
<1>1. CASE UNCHANGED <<shown>>
  BY <1>1, VersionAssumption, SMT
<1>2. ASSUME NEW j \in Jobs, Rename(j)
      PROVE  /\ shown'["file"] >= shown["file"]
             /\ shown'["redis"] = shown["redis"]
  BY <1>2, SMT DEF Rename, Return, End, Go, TmpIsOwn, ShownIsOlder
<1>3. ASSUME NEW j \in Jobs, SetApplied(j) \/ SetAbandoned(j)
      PROVE  /\ shown'["file"] = shown["file"]
             /\ shown'["redis"] \in Int /\ shown'["redis"] >= shown["redis"]
  BY <1>3, VersionAssumption, SMT DEF SetApplied, SetAbandoned, Return, End, Go, ShownIsOlder
<1>4. CASE LateSet
  BY <1>4, VersionAssumption, SMT DEF LateSet
<1>5. shown["redis"] \in Int /\ shown["file"] \in Int
  BY VersionAssumption, SMT
<1>6. \/ UNCHANGED <<shown>>
      \/ LateSet
      \/ \E j \in Jobs : Rename(j) \/ SetApplied(j) \/ SetAbandoned(j)
  BY Zenon DEF Next, Job, Finished, vars, Advance, Stop, WriteSnapshot,
     WriteSnapshotBlocking, Claim, ClaimFails, TryAgain, GiveUp, Truncate,
     Fill, WriteFails, RenameFails
<1>7. CASE \E j \in Jobs : Rename(j) \/ SetApplied(j) \/ SetAbandoned(j)
  <2>1. PICK j \in Jobs : Rename(j) \/ SetApplied(j) \/ SetAbandoned(j)
    BY <1>7
  <2>2. CASE Rename(j)
    BY <2>2, <1>2, <1>5, SMT
  <2>3. CASE SetApplied(j) \/ SetAbandoned(j)
    BY <2>3, <1>3, <1>5, SMT
  <2> QED BY <2>1, <2>2, <2>3
<1> QED BY <1>1, <1>4, <1>6, <1>7

\* The file never goes back to an older book, and the key only when a command
\* nobody waited for is applied after all.
THEOREM ReadersGoForward == Spec => GoesForward
<1>1. IInv /\ [Next]_vars =>
        [/\ shown'["file"] >= shown["file"]
         /\ shown'["redis"] < shown["redis"] =>
              \E v \in late : v \notin late' /\ shown'["redis"] = v]_vars
  BY StepForward
<1> QED BY <1>1, Invariance, PTL DEF Spec, GoesForward
=============================================================================
