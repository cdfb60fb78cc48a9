SPECIFICATION FairSpec
CONSTANTS
  NumConns = 1
  NumSubs = 2
  ChanSize = 2
  MaxBackoff = 3
  MaxMsgs <- SessionMsgs
INVARIANTS
  TypeOK
  OneWriter
  PingWithinSession
PROPERTIES
  ManagerCloseStopsLoops
  DropEndsSession
