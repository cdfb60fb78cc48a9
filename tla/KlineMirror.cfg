SPECIFICATION FairSpec
CONSTANTS
  Times = {1, 2}
  OpenTimes <- MCOpenTimes
INVARIANTS
  TypeOK
  OldPushesStayBehind
PROPERTIES
  GoroutinesEnd
