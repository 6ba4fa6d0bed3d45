\* The start of an interaction and a transfer that fails between its two facts: every command is answered, one retry completes it, and the numbers grow.
SPECIFICATION FairSpec
CONSTANTS
  Routers = {"r1", "r2"}
  Workers = {"w1", "w2"}
  RouterOf <- TwoReplicas
  Iids = {"i1"}
  TenantOf <- OneTenant
  Commands <- StartTransfer
  Trusted = {"desk"}
  DevMode = FALSE
  InitialLog <- NoFacts
  Slots = {1, 2, 3}
  NoObj = NoObj
  NoCommand = NoCommand
  MaxInter = 1
  MaxResults = 2
  MaxRefold = 1
  DedupFirst = FALSE
  DedupExpires = FALSE
  AppendFaults = {"lost", "ackLost"}
  ReplayFails = TRUE
  MaxFaults = 2
  MaxCrashes = 0
PROPERTY EveryCommandAnswered
PROPERTY RetryCompletes
INVARIANT SeqGrows
