SPECIFICATION FairSpec
CONSTANTS
  Conns = {c1, c2}
  ReconnectDelay = 1
  MaxReconnectDelay = 3
INVARIANTS
  TypeOK
  NoSocketLeak
  MapIsExact
  PingWithinSession
  NoEventAcrossGap
PROPERTIES
  OnlyUnregisteredSurvive
  ListedLoopsStop
  DropIsNoticed
