\* An ack is lost while another replica revokes the author.
SPECIFICATION Spec
CONSTANTS
  Routers = {"r1", "r2"}
  Workers = {"w1", "w2"}
  RouterOf <- TwoReplicas
  Iids = {"i1"}
  TenantOf <- OneTenant
  Commands <- LeaveRace
  Trusted = {"desk"}
  DevMode = FALSE
  InitialLog <- OpenWithAlice
  Slots = {1, 2, 3}
  NoObj = NoObj
  NoCommand = NoCommand
  MaxInter = 1
  MaxResults = 8
  MaxRefold = 2
  DedupFirst = FALSE
  DedupExpires = FALSE
  AppendFaults = {"ackLost"}
  ReplayFails = FALSE
  MaxFaults = 1
  MaxCrashes = 0
INVARIANT MembersOnlyWrite
