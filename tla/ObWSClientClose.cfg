SPECIFICATION FairSpec
CONSTANTS
  Conns = {c1}
  ReconnectDelay = 1
  MaxReconnectDelay = 3
PROPERTIES
  CloseStopsLoops
