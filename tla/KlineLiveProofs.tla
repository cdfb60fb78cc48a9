--------------------------- MODULE KlineLiveProofs ---------------------------
(***************************************************************************)
(* The safety properties of KlineLive, for any pairs, open times and       *)
(* bounds.  They follow from one inductive invariant, IInv.                *)
(***************************************************************************)
EXTENDS KlineLive, CandlesProofs

\* A push in the handler's hands is newer than everything in memory.
FreshPushes ==
  /\ \A k \in AllKeys : \A d \in ToSet(candles[k]) : d.v <= pushes
  /\ \A m \in held : m.candle.v = pushes
  /\ held # {} => \A k \in AllKeys : \A d \in ToSet(candles[k]) : d.v < pushes

\* Nothing is kept of a pair that is not configured.
ConfiguredOnly ==
  /\ OnlyConfiguredPairs
  /\ \A k \in AllKeys \ Keys : candles[k] = <<>>
  /\ \A f \in Flushers : batch[f] \subseteq Keys
  /\ \A m \in held : m.key \in Keys

\* What the place in FlushDirtyEntries says of the entry being saved.
FlushSteps ==
  \A f \in Flushers :
    /\ batch[f] \subseteq dirty
    /\ fpc[f] = "idle" => batch[f] = {}
    /\ fpc[f] \in {"writing", "rename", "clear"} => cur[f] \in batch[f]
    /\ fpc[f] = "rename" => tmp[cur[f]] = WholeFile(clone[f][cur[f]])
    /\ fpc[f] = "clear" => file[cur[f]] = WholeFile(clone[f][cur[f]])

\* main flushes only once the loop has returned.
LoopBeforeMain ==
  /\ fpc["main"] # "idle" => loop = "returned"
  /\ loop = "returned" => fpc["loop"] = "idle"

SortedClones == \A f \in Flushers, k \in AllKeys : Ascending(clone[f][k])

IInv ==
  /\ TypeOK
  /\ FreshPushes
  /\ ConfiguredOnly
  /\ FlushSteps
  /\ LoopBeforeMain
  /\ AscendingLists
  /\ SortedClones
  /\ SnapshotOrder
  /\ WholeFiles

-----------------------------------------------------------------------------
\* The invariant holds when the process starts on an empty directory.
LEMMA InitIInv == Init => IInv
<1> SUFFICES ASSUME Init PROVE IInv
  OBVIOUS
<1> USE DEF Init
<1>1. <<>> \in Seq(Candle) /\ ToSet(<<>>) = {} /\ Ascending(<<>>)
  BY DEF ToSet, Ascending
<1>2. TypeOK
  BY <1>1, LiveAssumption DEF TypeOK, StoreTypeOK, FilesTypeOK, FileState,
     NoFile, NoCandles, Flushers
<1>3. FreshPushes /\ FlushSteps /\ LoopBeforeMain
  BY <1>1 DEF FreshPushes, FlushSteps, LoopBeforeMain, NoCandles, Flushers
<1>4. ConfiguredOnly
  BY LiveAssumption DEF ConfiguredOnly, OnlyConfiguredPairs, NoCandles
<1>5. AscendingLists /\ SortedClones /\ SnapshotOrder /\ WholeFiles
  BY <1>1, CoversEmpty DEF AscendingLists, SortedClones, SnapshotOrder,
     WholeFiles, LoadFile, NoFile, NoCandles
<1>6. QED
  BY <1>2, <1>3, <1>4, <1>5 DEF IInv

\* The next steps preserve it, one lemma for each kind of step.  First the
\* flush: GetDirty, by the loop or by main.
LEMMA BeginFlushIInv ==
  ASSUME IInv, NEW f \in Flushers, BeginFlush(f),
         \/ f = "loop" /\ loop # "returned" /\ loop' # "returned"
         \/ f = "main" /\ loop = "returned" /\ loop' = "returned",
         loop' \in {"ticking", "last", "returned"},
         main' \in {"serving", "flushing", "exited", "crashed"}
  PROVE  IInv'
<1> USE DEF IInv, BeginFlush, storeVars, fileVars, handlerVars
<1>1. TypeOK'
  BY DEF TypeOK, StoreTypeOK, FilesTypeOK, DirtyClones, Push, Flushers
<1>2. FreshPushes' /\ WholeFiles' /\ AscendingLists'
  BY DEF FreshPushes, WholeFiles, AscendingLists, LoadFile
<1>3. ConfiguredOnly'
  BY DEF ConfiguredOnly, OnlyConfiguredPairs, TypeOK, StoreTypeOK
<1>4. FlushSteps'
  BY DEF FlushSteps, TypeOK
<1>5. LoopBeforeMain'
  BY DEF LoopBeforeMain, TypeOK, Flushers
<1>6. SortedClones'
  BY DEF SortedClones, DirtyClones, AscendingLists, TypeOK, Ascending
<1>7. SnapshotOrder'
  BY CoversReflexive DEF SnapshotOrder, DirtyClones, TypeOK, StoreTypeOK,
     LoadFile
<1>8. QED
  BY <1>1, <1>2, <1>3, <1>4, <1>5, <1>6, <1>7

\* The loop body moves on after an entry, whether its save failed or not.
LEMMA NextEntryIInv ==
  ASSUME IInv, NEW f \in Flushers, NEW k \in batch[f],
         fpc[f] # "idle", NextEntry(f, k),
         UNCHANGED <<keys, candles, file, handlerVars, procVars>>,
         dirty' \in {dirty, dirty \ {k}}, diskErrors' \in Nat,
         \/ UNCHANGED tmp
         \/ tmp' = [tmp EXCEPT ![k] = NoFile]
  PROVE  IInv'
<1> USE DEF IInv, NextEntry, handlerVars, procVars
<1>1. TypeOK'
  <2>1. tmp' \in [AllKeys -> FileState]
    <3>1. NoFile \in FileState
      BY DEF NoFile, FileState
    <3>2. QED
      BY <3>1 DEF TypeOK, FilesTypeOK
  <2>2. batch' \in [Flushers -> SUBSET AllKeys]
    BY DEF TypeOK
  <2>3. QED
    BY <2>1, <2>2 DEF TypeOK, StoreTypeOK, FilesTypeOK, Push
<1>2. FreshPushes' /\ WholeFiles' /\ AscendingLists' /\ SortedClones'
  BY DEF FreshPushes, WholeFiles, AscendingLists, LoadFile, SortedClones
<1>3. ConfiguredOnly'
  BY DEF ConfiguredOnly, OnlyConfiguredPairs, TypeOK, StoreTypeOK, FilesTypeOK
<1>4. \A g \in Flushers \ {f} : fpc[g] = "idle"
  BY DEF LoopBeforeMain, Flushers
<1>5. FlushSteps'
  <2> SUFFICES ASSUME NEW g \in Flushers
               PROVE  /\ batch'[g] \subseteq dirty'
                      /\ fpc'[g] = "idle" => batch'[g] = {}
                      /\ fpc'[g] \notin {"writing", "rename", "clear"}
    BY DEF FlushSteps
  <2>1. CASE g = f
    BY <2>1 DEF TypeOK, FlushSteps
  <2>2. CASE g # f
    BY <1>4, <2>2 DEF TypeOK, FlushSteps
  <2>3. QED
    BY <2>1, <2>2
<1>6. LoopBeforeMain'
  BY <1>4 DEF LoopBeforeMain, TypeOK, Flushers
<1>7. SnapshotOrder'
  BY DEF SnapshotOrder, LoadFile, TypeOK
<1>8. QED
  BY <1>1, <1>2, <1>3, <1>5, <1>6, <1>7

LEMMA SaveRefusedIInv ==
  ASSUME IInv, NEW f \in Flushers, SaveRefused(f)
  PROVE  IInv'
<1>1. PICK k \in batch[f] : CountError(k) /\ NextEntry(f, k)
  BY DEF SaveRefused
<1>2. diskErrors' \in Nat
  BY <1>1 DEF CountError, IInv, TypeOK
<1>3. QED
  BY <1>1, <1>2, NextEntryIInv DEF SaveRefused, storeVars, fileVars

LEMMA FailWriteIInv ==
  ASSUME IInv, NEW f \in Flushers, FailWrite(f)
  PROVE  IInv'
<1>1. cur[f] \in batch[f]
  BY DEF FailWrite, IInv, FlushSteps
<1>2. diskErrors' \in Nat
  BY DEF FailWrite, CountError, IInv, TypeOK
<1>3. QED
  BY <1>1, <1>2, NextEntryIInv DEF FailWrite, storeVars, fileVars

LEMMA FailRenameIInv ==
  ASSUME IInv, NEW f \in Flushers, FailRename(f)
  PROVE  IInv'
<1>1. cur[f] \in batch[f]
  BY DEF FailRename, IInv, FlushSteps
<1>2. diskErrors' \in Nat
  BY DEF FailRename, CountError, IInv, TypeOK
<1>3. QED
  BY <1>1, <1>2, NextEntryIInv DEF FailRename, RemoveTmp, storeVars

LEMMA ClearDirtyIInv ==
  ASSUME IInv, NEW f \in Flushers, ClearDirty(f)
  PROVE  IInv'
<1>1. cur[f] \in batch[f]
  BY DEF ClearDirty, IInv, FlushSteps
<1>2. diskErrors' \in Nat
  BY DEF ClearDirty, IInv, TypeOK
<1>3. QED
  BY <1>1, <1>2, NextEntryIInv DEF ClearDirty, ClearDirtyEntry, fileVars

\* The temporary file is opened, then filled with the copy of the entry.
LEMMA StartWriteIInv ==
  ASSUME IInv, NEW f \in Flushers, StartWrite(f)
  PROVE  IInv'
<1> USE DEF IInv, StartWrite, handlerVars, procVars, storeVars
<1>1. PICK k \in batch[f] : TruncateTmp(k) /\ cur' = [cur EXCEPT ![f] = k]
  BY DEF StartWrite
<1> USE DEF TruncateTmp
<1>2. k \in Keys /\ k \in AllKeys
  BY LiveAssumption DEF ConfiguredOnly
<1>3. TypeOK'
  BY <1>1, <1>2 DEF TypeOK, StoreTypeOK, FilesTypeOK, FileState, TornFile,
     Push, Flushers
<1>4. FreshPushes' /\ WholeFiles' /\ AscendingLists' /\ SortedClones'
  BY <1>1 DEF FreshPushes, WholeFiles, AscendingLists, LoadFile, SortedClones
<1>5. ConfiguredOnly'
  BY <1>1, <1>2 DEF ConfiguredOnly, OnlyConfiguredPairs, TypeOK, FilesTypeOK
<1>6. \A g \in Flushers \ {f} : fpc[g] = "idle"
  BY DEF LoopBeforeMain, Flushers
<1>7. FlushSteps'
  BY <1>1, <1>6 DEF FlushSteps, TypeOK
<1>8. LoopBeforeMain'
  BY <1>6 DEF LoopBeforeMain, TypeOK, Flushers
<1>9. SnapshotOrder'
  BY <1>1 DEF SnapshotOrder, LoadFile
<1>10. QED
  BY <1>3, <1>4, <1>5, <1>7, <1>8, <1>9

LEMMA FinishWriteIInv ==
  ASSUME IInv, NEW f \in Flushers, FinishWrite(f)
  PROVE  IInv'
<1> USE DEF IInv, FinishWrite, FillTmp, handlerVars, procVars, storeVars
<1>1. cur[f] \in batch[f] /\ cur[f] \in Keys /\ cur[f] \in AllKeys
  BY LiveAssumption DEF ConfiguredOnly, FlushSteps
<1>2. TypeOK'
  BY <1>1 DEF TypeOK, StoreTypeOK, FilesTypeOK, FileState, WholeFile, Push,
     Flushers
<1>3. FreshPushes' /\ WholeFiles' /\ AscendingLists' /\ SortedClones'
  BY DEF FreshPushes, WholeFiles, AscendingLists, LoadFile, SortedClones
<1>4. ConfiguredOnly'
  BY <1>1 DEF ConfiguredOnly, OnlyConfiguredPairs, TypeOK, FilesTypeOK
<1>5. \A g \in Flushers \ {f} : fpc[g] = "idle"
  BY DEF LoopBeforeMain, Flushers
<1>6. FlushSteps'
  BY <1>1, <1>5 DEF FlushSteps, TypeOK, FilesTypeOK
<1>7. LoopBeforeMain'
  BY <1>5 DEF LoopBeforeMain, TypeOK, Flushers
<1>8. SnapshotOrder'
  BY DEF SnapshotOrder, LoadFile
<1>9. QED
  BY <1>2, <1>3, <1>4, <1>6, <1>7, <1>8

\* The rename shows readers the copy, which is newer than what it replaces
\* and older than memory.
LEMMA RenameIInv ==
  ASSUME IInv, NEW f \in Flushers, Rename(f)
  PROVE  IInv'
<1> USE DEF IInv, Rename, RenameTmp, handlerVars, procVars, storeVars
<1> DEFINE k == cur[f]
           s == clone[f][k]
<1>1. k \in batch[f] /\ k \in Keys /\ k \in AllKeys
  BY LiveAssumption DEF ConfiguredOnly, FlushSteps
<1>2. tmp[k] = WholeFile(s) /\ s \in Seq(Candle)
  BY <1>1 DEF FlushSteps, TypeOK
<1>3. /\ \A j \in AllKeys : LoadFile(j)' = IF j = k THEN s ELSE LoadFile(j)
      /\ file' = [file EXCEPT ![k] = WholeFile(s)]
  BY <1>1, <1>2 DEF LoadFile, WholeFile, TypeOK, FilesTypeOK
<1> HIDE DEF k, s
<1>4. TypeOK'
  BY <1>1, <1>2, <1>3 DEF TypeOK, StoreTypeOK, FilesTypeOK, FileState, WholeFile,
     NoFile, Push, Flushers, k
<1>5. FreshPushes' /\ SortedClones'
  BY DEF FreshPushes, SortedClones
<1>6. WholeFiles'
  BY <1>1, <1>3 DEF WholeFiles, WholeFile, TypeOK, FilesTypeOK
<1>7. AscendingLists'
  BY <1>1, <1>3 DEF AscendingLists, SortedClones, s
<1>8. ConfiguredOnly'
  BY <1>1, <1>3 DEF ConfiguredOnly, OnlyConfiguredPairs, TypeOK, FilesTypeOK, k
<1>9. \A g \in Flushers \ {f} : fpc[g] = "idle"
  BY DEF LoopBeforeMain, Flushers
<1>10. FlushSteps'
  BY <1>1, <1>3, <1>9 DEF FlushSteps, TypeOK, FilesTypeOK, k, s
<1>11. LoopBeforeMain'
  BY <1>9 DEF LoopBeforeMain, TypeOK, Flushers
<1>12. SnapshotOrder'
  <2> SUFFICES ASSUME NEW j \in AllKeys
               PROVE  /\ Covers(candles[j], LoadFile(j)')
                      /\ \A g \in Flushers : j \in batch[g] =>
                           /\ Covers(clone[g][j], LoadFile(j)')
                           /\ Covers(candles[j], clone[g][j])
    BY DEF SnapshotOrder
  <2>1. CASE j # k
    BY <1>3, <2>1 DEF SnapshotOrder
  <2>2. CASE j = k
    <3>1. Covers(candles[k], s)
      BY <1>1 DEF SnapshotOrder, s
    <3>2. \A g \in Flushers : k \in batch[g] => g = f
      BY <1>9 DEF FlushSteps
    <3>3. Covers(s, s)
      BY <1>2, CoversReflexive
    <3>4. QED
      BY <1>3, <2>2, <3>1, <3>2, <3>3 DEF s
  <2>3. QED
    BY <2>1, <2>2
<1>13. QED
  BY <1>4, <1>5, <1>6, <1>7, <1>8, <1>10, <1>11, <1>12

\* FlushDirtyEntries returns.
LEMMA EndFlushIInv ==
  ASSUME IInv, NEW f \in Flushers, EndFlush(f)
  PROVE  IInv'
<1> USE DEF IInv, EndFlush, handlerVars, storeVars, fileVars
<1>1. NoCandles \in [AllKeys -> Seq(Candle)] /\ \A k \in AllKeys : NoCandles[k] = <<>>
  BY DEF NoCandles
<1>2. TypeOK'
  BY <1>1 DEF TypeOK, StoreTypeOK, FilesTypeOK, Push
<1>3. FreshPushes' /\ WholeFiles' /\ AscendingLists'
  BY DEF FreshPushes, WholeFiles, AscendingLists, LoadFile
<1>4. SortedClones'
  BY <1>1 DEF SortedClones, TypeOK, Ascending
<1>5. ConfiguredOnly'
  BY DEF ConfiguredOnly, OnlyConfiguredPairs
<1>6. FlushSteps'
  BY DEF FlushSteps, TypeOK
<1>7. LoopBeforeMain'
  BY DEF LoopBeforeMain, TypeOK, Flushers
<1>8. SnapshotOrder'
  BY DEF SnapshotOrder, LoadFile, TypeOK
<1>9. QED
  BY <1>2, <1>3, <1>4, <1>5, <1>6, <1>7, <1>8

\* The handler takes a push, and merges it.
LEMMA HandlePushIInv ==
  ASSUME IInv, NEW k \in AllKeys, NEW t \in Times, HandlePush(k, t)
  PROVE  IInv'
<1> USE DEF IInv, HandlePush, PushCandle, Has, flushVars, storeVars, fileVars,
            procVars
<1>1. TypeOK'
  <2>1. pushes' \in Nat /\ PushCandle(t, pushes + 1) \in Candle
    BY DEF TypeOK, Candle
  <2>2. held' \subseteq Push
    BY <2>1 DEF Push
  <2>3. QED
    BY <2>1, <2>2 DEF TypeOK, StoreTypeOK, FilesTypeOK
<1>2. FreshPushes'
  <2>1. \A j \in AllKeys : \A d \in ToSet(candles[j]) : d.v \in Nat
    BY ToSetType DEF TypeOK, StoreTypeOK
  <2>2. QED
    BY <2>1 DEF FreshPushes, TypeOK
<1>3. ConfiguredOnly'
  BY DEF ConfiguredOnly, OnlyConfiguredPairs
<1>4. FlushSteps' /\ LoopBeforeMain' /\ SortedClones'
  BY DEF FlushSteps, LoopBeforeMain, SortedClones
<1>5. WholeFiles' /\ AscendingLists' /\ SnapshotOrder'
  BY DEF WholeFiles, AscendingLists, SnapshotOrder, LoadFile
<1>6. QED
  BY <1>1, <1>2, <1>3, <1>4, <1>5

\* What one push does to the list of its pair.
LEMMA UpsertPushList ==
  ASSUME IInv, NEW m \in held
  PROVE  /\ m.key \in Keys /\ m.key \in AllKeys /\ m.candle \in Candle
         /\ candles[m.key] \in Seq(Candle) /\ Ascending(candles[m.key])
         /\ \A d \in ToSet(candles[m.key]) : d.v < m.candle.v
         /\ Upsert(candles[m.key], m.candle) \in Seq(Candle)
         /\ Ascending(Upsert(candles[m.key], m.candle))
         /\ ToSet(Upsert(candles[m.key], m.candle))
              = {d \in ToSet(candles[m.key]) : d.t # m.candle.t} \cup {m.candle}
         /\ Covers(Upsert(candles[m.key], m.candle), candles[m.key])
<1> DEFINE s == candles[m.key]
           c == m.candle
<1>1. m.key \in Keys /\ m.key \in AllKeys /\ c \in Candle
  BY LiveAssumption DEF IInv, ConfiguredOnly, TypeOK, Push
<1>2. s \in Seq(Candle) /\ Ascending(s)
  BY <1>1 DEF IInv, TypeOK, StoreTypeOK, AscendingLists
<1>3. \A d \in ToSet(s) : d.v < c.v
  BY <1>1 DEF IInv, FreshPushes
<1> HIDE DEF s, c
<1>4. \A d \in ToSet(s) : d.v <= c.v
  <2>1. \A d \in ToSet(s) : d.v \in Nat
    BY <1>2, ToSetType
  <2>2. c.v \in Nat
    BY <1>1 DEF Candle
  <2>3. QED
    BY <1>3, <2>1, <2>2
<1>5. QED
  BY <1>1, <1>2, <1>3, <1>4, UpsertContents, UpsertCovers DEF s, c

LEMMA UpsertPushIInv ==
  ASSUME IInv, UpsertPush
  PROVE  IInv'
<1> USE DEF IInv, UpsertPush, UpsertEntry, flushVars, fileVars, procVars
<1>1. PICK m \in held : UpsertEntry(m.key, m.candle)
  BY DEF UpsertPush
<1> DEFINE k == m.key
           c == m.candle
           u == Upsert(candles[k], c)
<1>2. /\ k \in Keys /\ k \in AllKeys /\ c \in Candle
      /\ candles[k] \in Seq(Candle) /\ u \in Seq(Candle) /\ Ascending(u)
      /\ ToSet(u) = {d \in ToSet(candles[k]) : d.t # c.t} \cup {c}
      /\ Covers(u, candles[k])
  BY UpsertPushList
<1>3. /\ keys' = keys \cup {k} /\ dirty' = dirty \cup {k}
      /\ candles' = [candles EXCEPT ![k] = u]
  BY <1>1
<1>4. c.v = pushes
  BY DEF FreshPushes
<1> HIDE DEF k, c, u
<1>5. TypeOK'
  BY <1>2, <1>3 DEF TypeOK, StoreTypeOK, FilesTypeOK
<1>6. FreshPushes'
  BY <1>2, <1>3, <1>4 DEF FreshPushes, TypeOK, StoreTypeOK
<1>7. ConfiguredOnly'
  BY <1>2, <1>3 DEF ConfiguredOnly, OnlyConfiguredPairs, TypeOK, StoreTypeOK
<1>8. FlushSteps' /\ LoopBeforeMain' /\ SortedClones' /\ WholeFiles'
  BY <1>3 DEF FlushSteps, LoopBeforeMain, SortedClones, WholeFiles
<1>9. AscendingLists'
  BY <1>2, <1>3 DEF AscendingLists, LoadFile, TypeOK, StoreTypeOK
<1>10. SnapshotOrder'
  <2> SUFFICES ASSUME NEW j \in AllKeys
               PROVE  /\ Covers(candles'[j], LoadFile(j))
                      /\ \A g \in Flushers : j \in batch[g] =>
                           /\ Covers(clone[g][j], LoadFile(j))
                           /\ Covers(candles'[j], clone[g][j])
    BY DEF SnapshotOrder, LoadFile
  <2>1. CASE j # k
    BY <1>2, <1>3, <2>1 DEF SnapshotOrder, TypeOK, StoreTypeOK
  <2>2. CASE j = k
    <3>1. candles'[j] = u
      BY <1>2, <1>3, <2>2 DEF TypeOK, StoreTypeOK
    <3>2. LoadFile(j) \in Seq(Candle)
      BY DEF LoadFile, TypeOK, FilesTypeOK, FileState
    <3>3. Covers(u, LoadFile(j))
      BY <1>2, <2>2, <3>2, CoversTransitive DEF SnapshotOrder
    <3>4. ASSUME NEW g \in Flushers, j \in batch[g]
          PROVE  Covers(u, clone[g][j])
      <4>1. clone[g][j] \in Seq(Candle)
        BY DEF TypeOK
      <4>2. Covers(candles[k], clone[g][j])
        BY <2>2, <3>4 DEF SnapshotOrder
      <4>3. QED
        BY <1>2, <4>1, <4>2, CoversTransitive
    <3>5. QED
      BY <3>1, <3>3, <3>4 DEF SnapshotOrder
  <2>3. QED
    BY <2>1, <2>2
<1>11. QED
  BY <1>5, <1>6, <1>7, <1>8, <1>9, <1>10

\* A new process starts from the files.
LEMMA RestartIInv ==
  ASSUME IInv, Restart
  PROVE  IInv'
<1> USE DEF IInv, Restart, LoadEntries, FreshGoroutines, fileVars
<1>1. /\ \A k \in AllKeys : LoadFile(k) \in Seq(Candle) /\ LoadFile(k)' = LoadFile(k)
      /\ \A k \in AllKeys \ Keys : LoadFile(k) = <<>>
  BY DEF LoadFile, TypeOK, FilesTypeOK, FileState, ConfiguredOnly,
     OnlyConfiguredPairs, NoFile
<1>2. \A k \in AllKeys : candles'[k] = LoadFile(k)
  BY <1>1
<1>3. NoCandles \in [AllKeys -> Seq(Candle)] /\ \A k \in AllKeys : NoCandles[k] = <<>>
  BY DEF NoCandles
<1>4. TypeOK'
  <2>1. candles' \in [AllKeys -> Seq(Candle)]
    <3>1. candles' = [k \in AllKeys |-> IF k \in Keys THEN LoadFile(k) ELSE <<>>]
      OBVIOUS
    <3>2. <<>> \in Seq(Candle)
      OBVIOUS
    <3>3. QED
      BY <1>1, <3>1, <3>2
  <2>2. StoreTypeOK'
    BY <2>1, LiveAssumption DEF StoreTypeOK
  <2>3. clone' \in [Flushers -> [AllKeys -> Seq(Candle)]]
    BY <1>3
  <2>4. /\ fpc' \in [Flushers -> {"idle", "next", "writing", "rename", "clear"}]
        /\ batch' \in [Flushers -> SUBSET AllKeys]
        /\ cur' \in [Flushers -> AllKeys \cup {NoKey}]
    OBVIOUS
  <2>5. /\ FilesTypeOK' /\ held' \subseteq Push
        /\ pushes' \in Nat /\ diskErrors' \in Nat /\ restarts' \in Nat
    BY DEF TypeOK, FilesTypeOK
  <2>6. QED
    BY <2>2, <2>3, <2>4, <2>5 DEF TypeOK
<1>5. FreshPushes'
  <2> SUFFICES ASSUME NEW k \in AllKeys, NEW d \in ToSet(LoadFile(k))
               PROVE  d.v <= pushes
    BY <1>2 DEF FreshPushes
  <2>1. PICK y \in ToSet(candles[k]) : y.v >= d.v
    BY DEF SnapshotOrder, Covers
  <2>2. y.v <= pushes
    BY DEF FreshPushes
  <2>3. y.v \in Nat /\ d.v \in Nat
    BY <1>1, ToSetType DEF TypeOK, StoreTypeOK
  <2>4. QED
    BY <2>1, <2>2, <2>3 DEF TypeOK
<1>6. ConfiguredOnly'
  BY <1>1, <1>2 DEF ConfiguredOnly, OnlyConfiguredPairs
<1>7. FlushSteps' /\ LoopBeforeMain' /\ WholeFiles'
  BY DEF FlushSteps, LoopBeforeMain, WholeFiles, Flushers
<1>8. AscendingLists'
  BY <1>1, <1>2 DEF AscendingLists
<1>9. SortedClones'
  BY <1>3 DEF SortedClones, Ascending
<1>10. SnapshotOrder'
  BY <1>1, <1>2, CoversReflexive DEF SnapshotOrder
<1>11. QED
  BY <1>4, <1>5, <1>6, <1>7, <1>8, <1>9, <1>10

\* The steps that change no list, no file and no flush.
LEMMA OtherIInv ==
  ASSUME IInv,
         UNCHANGED <<storeVars, fileVars, flushVars, held, pushes, restarts,
                     diskErrors>>,
         main' \in {"serving", "flushing", "exited", "crashed"},
         cancelled' \in BOOLEAN, handler' \in {"running", "stopped"}
  PROVE  IInv'
<1> USE DEF IInv, storeVars, fileVars, flushVars
<1>1. TypeOK'
  BY DEF TypeOK, StoreTypeOK, FilesTypeOK
<1>2. FreshPushes' /\ ConfiguredOnly' /\ FlushSteps' /\ LoopBeforeMain'
  BY DEF FreshPushes, ConfiguredOnly, OnlyConfiguredPairs, FlushSteps,
     LoopBeforeMain
<1>3. AscendingLists' /\ SortedClones' /\ SnapshotOrder' /\ WholeFiles'
  BY DEF AscendingLists, SortedClones, SnapshotOrder, WholeFiles, LoadFile
<1>4. QED
  BY <1>1, <1>2, <1>3

-----------------------------------------------------------------------------
\* Every step preserves the invariant.
LEMMA NextIInv == IInv /\ [Next]_vars => IInv'
<1> SUFFICES ASSUME IInv, [Next]_vars PROVE IInv'
  OBVIOUS
<1> USE DEF flushVars, handlerVars, procVars
<1>1. ASSUME NEW f \in Flushers, FlushStep(f)
      PROVE  IInv'
  BY <1>1, SaveRefusedIInv, StartWriteIInv, FinishWriteIInv, FailWriteIInv,
     RenameIInv, FailRenameIInv, ClearDirtyIInv, EndFlushIInv DEF FlushStep
<1>2. CASE Tick
  BY <1>2, BeginFlushIInv DEF Tick, Flushers, IInv, TypeOK
<1>3. CASE LoopDone
  BY <1>3, BeginFlushIInv DEF LoopDone, Flushers, IInv, TypeOK
<1>4. CASE FinalFlush
  BY <1>4, BeginFlushIInv DEF FinalFlush, Flushers, IInv, TypeOK
<1>5. CASE Cancel
  BY <1>5, OtherIInv DEF Cancel, IInv, TypeOK
<1>6. ASSUME NEW k \in AllKeys, NEW t \in Times, HandlePush(k, t)
      PROVE  IInv'
  BY <1>6, HandlePushIInv
<1>7. CASE UpsertPush
  BY <1>7, UpsertPushIInv
<1>8. CASE HandlerDone
  BY <1>8, OtherIInv DEF HandlerDone, IInv, TypeOK
<1>9. CASE Crash
  BY <1>9, OtherIInv DEF Crash, IInv, TypeOK
<1>10. CASE Restart
  BY <1>10, RestartIInv
<1>11. CASE UNCHANGED vars
  BY <1>11, OtherIInv DEF vars, IInv, TypeOK
<1>12. QED
  BY <1>1, <1>2, <1>3, <1>4, <1>5, <1>6, <1>7, <1>8, <1>9, <1>10, <1>11
     DEF Next, Stopped

\* IInv is an invariant of the live phase.
THEOREM Invariance == Spec => []IInv
BY InitIInv, NextIInv, PTL DEF Spec

\* The variables keep their types.
THEOREM TypeCorrect == Spec => []TypeOK
<1>1. IInv => TypeOK
  BY DEF IInv
<1>2. QED
  BY <1>1, Invariance, PTL

\* No reader ever opens a half-written file.
THEOREM FilesAreWhole == Spec => []WholeFiles
<1>1. IInv => WholeFiles
  BY DEF IInv
<1>2. QED
  BY <1>1, Invariance, PTL

\* The flush loop and main never flush at the same time.
THEOREM FlushIsExclusive == Spec => []OneFlusher
<1>1. IInv => OneFlusher
  BY DEF IInv, LoopBeforeMain, OneFlusher, Flushers
<1>2. QED
  BY <1>1, Invariance, PTL

\* Memory is at least as new as every copy in hand, and that as the file.
THEOREM SnapshotsAreOrdered == Spec => []SnapshotOrder
<1>1. IInv => SnapshotOrder
  BY DEF IInv
<1>2. QED
  BY <1>1, Invariance, PTL

\* Every list stays sorted without duplicates, in memory and on disk.
THEOREM ListsAreAscending == Spec => []AscendingLists
<1>1. IInv => AscendingLists
  BY DEF IInv
<1>2. QED
  BY <1>1, Invariance, PTL

\* Nothing is kept of a pair that is not configured.
THEOREM PairsAreConfigured == Spec => []OnlyConfiguredPairs
<1>1. IInv => OnlyConfiguredPairs
  BY DEF IInv, ConfiguredOnly
<1>2. QED
  BY <1>1, Invariance, PTL

-----------------------------------------------------------------------------
(* Action properties.                                                      *)

\* A flag goes down only for an entry whose copy is on disk.
THEOREM CleanIsSaved == Spec => CleanOnlyAfterSave
<1> DEFINE Step == \A k \in dirty \ dirty' :
                     Alive => \E f \in Flushers : cur[f] = k
                                                /\ LoadFile(k) = clone[f][k]
<1>1. IInv /\ [Next]_vars => [Step]_vars
  <2> SUFFICES ASSUME IInv, Next, NEW k \in dirty, k \notin dirty', Alive
               PROVE  \E f \in Flushers : cur[f] = k /\ LoadFile(k) = clone[f][k]
    OBVIOUS
  <2>1. \E f \in Flushers : ClearDirty(f)
    BY DEF Next, FlushStep, SaveRefused, StartWrite, FinishWrite, FailWrite,
       Rename, FailRename, EndFlush, Tick, LoopDone, FinalFlush, BeginFlush,
       Cancel, HandlePush, UpsertPush, UpsertEntry, HandlerDone, Crash, Restart,
       Stopped, storeVars, vars
  <2>2. PICK f \in Flushers : ClearDirty(f)
    BY <2>1
  <2>3. k = cur[f]
    BY <2>2 DEF ClearDirty, ClearDirtyEntry
  <2>4. file[k] = WholeFile(clone[f][k])
    BY <2>2, <2>3 DEF ClearDirty, IInv, FlushSteps
  <2>5. LoadFile(k) = clone[f][k]
    BY <2>4 DEF LoadFile, WholeFile
  <2>6. QED
    BY <2>3, <2>5
<1>2. QED
  BY <1>1, Invariance, PTL DEF Spec, CleanOnlyAfterSave

\* An update is forgotten only while its entry is being saved.
THEOREM ForgottenInFlight == Spec => ForgottenOnlyWhileSaving
<1> DEFINE Step == \A k \in AllKeys : ~Forgotten(k) /\ Forgotten(k)' =>
                     \E f \in Flushers : /\ fpc[f] = "clear" /\ cur[f] = k
                                         /\ candles[k] # clone[f][k]
<1>1. IInv /\ [Next]_vars => [Step]_vars
  <2> SUFFICES ASSUME IInv, Next, NEW k \in AllKeys, ~Forgotten(k), Forgotten(k)'
               PROVE  \E f \in Flushers : /\ fpc[f] = "clear" /\ cur[f] = k
                                          /\ candles[k] # clone[f][k]
    OBVIOUS
  <2>1. ASSUME NEW f \in Flushers, ClearDirty(f)
        PROVE  /\ fpc[f] = "clear" /\ cur[f] = k
               /\ candles[k] # clone[f][k]
    <3>1. fpc[f] = "clear" /\ UNCHANGED <<candles, file>> /\ dirty' = dirty \ {cur[f]}
      BY <2>1 DEF ClearDirty, ClearDirtyEntry, fileVars
    <3>2. cur[f] = k /\ candles[k] # LoadFile(k)
      BY <3>1 DEF Forgotten, LoadFile
    <3>3. file[k] = WholeFile(clone[f][k])
      BY <3>1, <3>2 DEF IInv, FlushSteps
    <3>4. QED
      BY <3>1, <3>2, <3>3 DEF LoadFile, WholeFile
  <2>2. ASSUME NEW f \in Flushers, Rename(f)
        PROVE  FALSE
    <3>1. /\ UNCHANGED <<candles, dirty>>
          /\ file' = [file EXCEPT ![cur[f]] = tmp[cur[f]]]
      BY <2>2 DEF Rename, RenameTmp, storeVars
    <3>2. cur[f] = k
      BY <3>1 DEF Forgotten, LoadFile, IInv, TypeOK, FilesTypeOK
    <3>3. k \in dirty
      BY <2>2, <3>2 DEF Rename, IInv, FlushSteps
    <3>4. QED
      BY <3>1, <3>3 DEF Forgotten
  <2>3. CASE Restart
    <3>1. k \in Keys => candles'[k] = LoadFile(k) /\ UNCHANGED file
      BY <2>3 DEF Restart, LoadEntries, fileVars
    <3>2. k \notin Keys => candles'[k] = <<>> /\ file'[k] = NoFile
      BY <2>3 DEF Restart, LoadEntries, fileVars, IInv, ConfiguredOnly,
         OnlyConfiguredPairs
    <3>3. QED
      BY <3>1, <3>2 DEF Forgotten, LoadFile, NoFile
  <2>4. CASE UpsertPush
    <3>1. PICK m \in held : UpsertEntry(m.key, m.candle) /\ UNCHANGED file
      BY <2>4 DEF UpsertPush, fileVars
    <3>2. k # m.key
      BY <3>1 DEF UpsertEntry, Forgotten
    <3>3. candles'[k] = candles[k] /\ (k \in dirty' <=> k \in dirty)
      BY <3>1, <3>2 DEF UpsertEntry, IInv, TypeOK, StoreTypeOK
    <3>4. QED
      BY <3>1, <3>3 DEF Forgotten, LoadFile
  <2>5. CASE UNCHANGED <<candles, dirty, file>>
    BY <2>5 DEF Forgotten, LoadFile
  <2>6. \/ \E f \in Flushers : ClearDirty(f) \/ Rename(f)
        \/ Restart \/ UpsertPush \/ UNCHANGED <<candles, dirty, file>>
    BY DEF Next, FlushStep, SaveRefused, StartWrite, FinishWrite, FailWrite,
       FailRename, EndFlush, Tick, LoopDone, FinalFlush, BeginFlush,
       Cancel, HandlePush, HandlerDone, Crash, Stopped, storeVars, fileVars,
       vars, TruncateTmp, FillTmp, RemoveTmp
  <2>7. QED
    BY <2>1, <2>2, <2>3, <2>4, <2>5, <2>6
<1>2. QED
  BY <1>1, Invariance, PTL DEF Spec, ForgottenOnlyWhileSaving

-----------------------------------------------------------------------------
(* The files publish snapshots: KlineLive implements SnapshotFile.         *)

Saved == [k \in AllKeys |-> LoadFile(k)]

\* The abstract module's operators on lists are those of Candles.
LEMMA SameOperators ==
  /\ \A s, c : Snapshots!Upsert(s, c) = Upsert(s, c)
  /\ \A a, b : Snapshots!Covers(a, b) <=> Covers(a, b)
  /\ \A s : Snapshots!Ascending(s) <=> Ascending(s)
  /\ \A s : Snapshots!ToSet(s) = ToSet(s)
<1>1. \A s, i, time : Snapshots!AtOrAfter(s, i, time) <=> AtOrAfter(s, i, time)
  BY Zenon DEF Snapshots!AtOrAfter, AtOrAfter
<1>2. \A s, time : Snapshots!SearchIndex(s, time) = SearchIndex(s, time)
  BY Zenon DEF Snapshots!AtOrAfter, AtOrAfter, Snapshots!SearchIndex, SearchIndex
<1>3. \A s, c : Snapshots!Upsert(s, c) = Upsert(s, c)
  BY <1>2, Zenon DEF Snapshots!Upsert, Upsert, Snapshots!InsertAt, InsertAt,
     Snapshots!ReplaceAt, ReplaceAt
<1>4. \A s : Snapshots!ToSet(s) = ToSet(s)
  BY Zenon DEF Snapshots!ToSet, ToSet
<1>5. \A a, b : Snapshots!Covers(a, b) <=> Covers(a, b)
  BY <1>4, Zenon DEF Snapshots!Covers, Covers
<1>6. \A s : Snapshots!Ascending(s) <=> Ascending(s)
  BY Zenon DEF Snapshots!Ascending, Ascending
<1>7. QED
  BY <1>3, <1>4, <1>5, <1>6

\* A push merged in memory is the abstract Apply.
LEMMA UpsertPushApplies ==
  ASSUME IInv, UpsertPush
  PROVE  \E k \in AllKeys : Snapshots!Apply(k)
<1>1. PICK m \in held : UpsertEntry(m.key, m.candle)
  BY DEF UpsertPush
<1> DEFINE k == m.key
           c == m.candle
           u == Upsert(candles[k], c)
<1>2. /\ k \in AllKeys
      /\ \A d \in ToSet(candles[k]) : d.v < c.v
      /\ ToSet(u) = {d \in ToSet(candles[k]) : d.t # c.t} \cup {c}
  BY UpsertPushList
<1>3. candles' = [candles EXCEPT ![k] = u] /\ UNCHANGED file
  BY <1>1 DEF UpsertEntry, UpsertPush, fileVars
<1> HIDE DEF k, c, u
<1>4. candles'[k] = u
  BY <1>2, <1>3 DEF IInv, TypeOK, StoreTypeOK
<1>5. c \in ToSet(candles'[k])
  BY <1>2, <1>4
<1>6. candles' = [candles EXCEPT ![k] = Snapshots!Upsert(candles[k], c)]
  BY <1>3, SameOperators DEF u
<1>7. UNCHANGED Saved
  BY <1>3 DEF Saved, LoadFile
<1>8. Snapshots!Apply(k)
  BY <1>2, <1>5, <1>6, <1>7, SameOperators DEF Snapshots!Apply, Saved
<1>9. QED
  BY <1>2, <1>8

\* The rename is the abstract Publish.
LEMMA RenamePublishes ==
  ASSUME IInv, NEW f \in Flushers, Rename(f)
  PROVE  \E k \in AllKeys : Snapshots!Publish(k)
<1> DEFINE k == cur[f]
           s == clone[f][k]
<1>1. k \in batch[f] /\ k \in AllKeys
  BY LiveAssumption DEF Rename, IInv, FlushSteps, ConfiguredOnly
<1>2. file' = [file EXCEPT ![k] = WholeFile(s)] /\ UNCHANGED candles
  BY DEF Rename, RenameTmp, IInv, FlushSteps, storeVars
<1> HIDE DEF k
<1>3. \A j \in AllKeys : LoadFile(j)' = IF j = k THEN s ELSE LoadFile(j)
  BY <1>1, <1>2 DEF LoadFile, WholeFile, IInv, TypeOK, FilesTypeOK
<1>4. Saved' = [Saved EXCEPT ![k] = Saved'[k]]
  BY <1>1, <1>3 DEF Saved
<1>5. Ascending(Saved'[k]) /\ Covers(Saved'[k], Saved[k]) /\ Covers(candles[k], Saved'[k])
  <2>1. Saved[k] = LoadFile(k) /\ Saved'[k] = s
    BY <1>1, <1>3 DEF Saved
  <2>2. QED
    BY <1>1, <2>1 DEF IInv, SortedClones, SnapshotOrder
<1>6. Snapshots!Publish(k)
  BY <1>2, <1>4, <1>5, SameOperators DEF Snapshots!Publish, Saved
<1>7. QED
  BY <1>1, <1>6

\* A restart is the abstract Recover.
LEMMA RestartRecovers ==
  ASSUME IInv, Restart
  PROVE  Snapshots!Recover
<1>1. /\ candles' = [k \in AllKeys |-> IF k \in Keys THEN LoadFile(k) ELSE <<>>]
      /\ UNCHANGED file
  BY DEF Restart, LoadEntries, fileVars
<1>2. \A k \in AllKeys \ Keys : LoadFile(k) = <<>>
  BY DEF IInv, ConfiguredOnly, OnlyConfiguredPairs, LoadFile, NoFile
<1>3. candles' = Saved /\ UNCHANGED Saved
  BY <1>1, <1>2 DEF Saved, LoadFile
<1>4. QED
  BY <1>3 DEF Snapshots!Recover, Saved

\* Readers of the files see published snapshots, whatever the interleaving
\* of pushes, flushes, failed saves, kills and restarts.
THEOREM FilesPublishSnapshots == Spec => PublishesSnapshots
<1>1. Init => Snapshots!Init
  BY DEF Init, Snapshots!Init, NoCandles, LoadFile, NoFile
<1>2. IInv /\ [Next]_vars => [Snapshots!Next]_(Snapshots!vars)
  <2> SUFFICES ASSUME IInv, [Next]_vars
               PROVE  Snapshots!Next \/ UNCHANGED Snapshots!vars
    OBVIOUS
  <2>1. CASE UpsertPush
    BY <2>1, UpsertPushApplies DEF Snapshots!Next
  <2>2. ASSUME NEW f \in Flushers, Rename(f)
        PROVE  Snapshots!Next
    BY <2>2, RenamePublishes DEF Snapshots!Next
  <2>3. CASE Restart
    BY <2>3, RestartRecovers DEF Snapshots!Next
  <2>4. CASE UNCHANGED <<candles, file>>
    BY <2>4 DEF Snapshots!vars, LoadFile
  <2>5. \/ UpsertPush \/ (\E f \in Flushers : Rename(f)) \/ Restart
        \/ UNCHANGED <<candles, file>>
    BY DEF Next, FlushStep, SaveRefused, StartWrite, FinishWrite, FailWrite,
       FailRename, ClearDirty, ClearDirtyEntry, EndFlush, Tick, LoopDone,
       FinalFlush, BeginFlush, Cancel, HandlePush, HandlerDone, Crash, Stopped,
       storeVars, fileVars, vars, TruncateTmp, FillTmp, RemoveTmp
  <2>6. QED
    BY <2>1, <2>2, <2>3, <2>4, <2>5
<1>3. QED
  BY <1>1, <1>2, Invariance, PTL DEF Spec, PublishesSnapshots, Snapshots!Spec
=============================================================================
