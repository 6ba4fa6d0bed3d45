\* Two replicas, appends unacked or late, replays that fail, a restart, two results in a cache, dedup before OCC: the write plane implements InteractionLog.
SPECIFICATION Spec
CONSTANTS
  Routers = {"r1", "r2"}
  Workers = {"w1", "w2"}
  RouterOf <- TwoReplicas
  Iids = {"i1"}
  TenantOf <- OneTenant
  Commands <- LifecycleCommands
  Trusted = {"desk"}
  DevMode = FALSE
  InitialLog <- NoFacts
  Slots = {1, 2, 3}
  NoObj = NoObj
  NoCommand = NoCommand
  MaxInter = 1
  MaxResults = 2
  MaxRefold = 2
  DedupFirst = TRUE
  DedupExpires = FALSE
  AppendFaults = {"ackLost", "late"}
  ReplayFails = TRUE
  MaxFaults = 1
  MaxCrashes = 1
INVARIANT TypeOK
PROPERTY ImplementsInteractionLog
INVARIANT AcceptedIsDurable
