SPECIFICATION FairSpec
CONSTANTS
  a1 = a1
  a2 = a2
  b1 = b1
  A = A
  B = B
  AllKeys = {a1, a2, b1}
  Order <- MCOrder
  SymbolOf <- MCSymbolOf
  Listed = {B}
  Workers = 2
  InitialFiles <- MCInitialFiles
  InitialRows <- MCInitialRows
  Unreadable = {b1}
  Times = {2, 4, 6}
  IntervalSeconds = 2
  BootstrapLimit = 2
  AnswerLimit = 2
  MaxShown = 3
  MaxStarts = 2
INVARIANTS
  TypeOK
  LiveStartsFromFiles
PROPERTIES
  FilesForward
  BootstrapEnds
