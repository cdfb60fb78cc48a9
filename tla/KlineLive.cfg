SPECIFICATION FairSpec
CONSTANTS
  NoKey = NoKey
  AllKeys = {k1, k2, k3}
  Keys = {k1, k2}
  BadKeys = {k2}
  Times = {1, 2}
  MaxPush = 3
  MaxDiskErrors = 1
  MaxRestarts = 1
INVARIANTS
  TypeOK
  WholeFiles
  SnapshotOrder
  AscendingLists
PROPERTIES
  CleanOnlyAfterSave
  ForgottenOnlyWhileSaving
  PublishesSnapshots
  DirtyIsRetried
  ShutdownCompletes
