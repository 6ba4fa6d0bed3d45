\* One handle, a lost connection, a lost live message, two tries of everything.
SPECIFICATION FairSpec
CONSTANTS
  MaxLog = 3
  MaxPasses = 2
  None = None
  MaxAuth = 2
  MaxConnects = 2
  MaxDrops = 1
  MaxLost = 1
CHECK_DEADLOCK FALSE
INVARIANTS TypeOK InOrderOnce EndsAfterAll GapIsWorkedOn NoLateConnection
PROPERTIES GapEnds NeverStranded
