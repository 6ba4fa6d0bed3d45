\* One Router called by two goroutines that share state objects, with room for one of two interactions and a replay that fails.
SPECIFICATION Spec
CONSTANTS
  Routers = {"r1"}
  Workers = {"w1", "w2"}
  RouterOf <- OneRouterTwoCallers
  Iids = {"i1", "i2"}
  TenantOf <- OneTenant
  Commands <- TransferOrEndInTurns
  Trusted = {"desk"}
  DevMode = FALSE
  InitialLog <- OpenInTurns
  Slots = {1, 2, 3, 4, 5, 6}
  NoObj = NoObj
  NoCommand = NoCommand
  MaxInter = 1
  MaxResults = 8
  MaxRefold = 1
  DedupFirst = FALSE
  DedupExpires = FALSE
  AppendFaults = {}
  ReplayFails = TRUE
  MaxFaults = 1
  MaxCrashes = 0
INVARIANT LifecycleLegal
INVARIANT TokenNamesFact
