SPECIFICATION FairSpec
CONSTANTS
  NoKey = NoKey
  AllKeys = {k1}
  Keys = {k1}
  BadKeys = {}
  Times = {1}
  MaxPush = 2
  MaxDiskErrors = 0
  MaxRestarts = 0
PROPERTIES
  EveryPushReachesFile
