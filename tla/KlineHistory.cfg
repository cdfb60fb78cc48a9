SPECIFICATION Spec
CONSTANTS
  Times = {2, 4, 6, 8, 10, 12}
  IntervalSeconds = 2
  BootstrapLimit = 2
  AnswerLimit = 3
  FirstCandles = {1, 3}
  MaxRank = 8
  MaxStarts = 3
INVARIANTS
  TypeOK
  ClosedCandlesKept
PROPERTIES
  FileForward
