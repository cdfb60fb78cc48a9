SPECIFICATION FairSpec
CONSTANTS
  MaxVersion = 2
INVARIANTS
  TypeOK
  FlagIsExact
  FileIsWhole
  FinalWriteStays
PROPERTIES
  GoesForward
  BlockingReturns
