SPECIFICATION Spec
CONSTANTS
  NumConns = 2
  NumSubs = 1
  ChanSize = 1
  MaxBackoff = 1
  MaxMsgs <- FeedMsgs
INVARIANTS
  NoSocketLeak
  FeedIsComplete
