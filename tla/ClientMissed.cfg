\* A reconnect during the pause of a recovery that has filled its gap.
SPECIFICATION FairSpec
CONSTANTS
  MaxLog = 3
  MaxPasses = 2
  None = None
  MaxAuth = 1
  MaxConnects = 1
  MaxDrops = 1
  MaxLost = 1
CHECK_DEADLOCK FALSE
PROPERTIES MissedIsReplayed
