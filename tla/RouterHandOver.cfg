\* A transfer races the messages of the agent who leaves, one command id of which has two payloads, on two replicas; a restart, and facts that outlive the dedup window.
SPECIFICATION Spec
CONSTANTS
  Routers = {"r1", "r2"}
  Workers = {"w1", "w2"}
  RouterOf <- TwoReplicas
  Iids = {"i1"}
  TenantOf <- OneTenant
  Commands <- HandOver
  Trusted = {"desk"}
  DevMode = FALSE
  InitialLog <- OpenWithAlice
  Slots = {1, 2, 3}
  NoObj = NoObj
  NoCommand = NoCommand
  MaxInter = 1
  MaxResults = 8
  MaxRefold = 1
  DedupFirst = FALSE
  DedupExpires = TRUE
  AppendFaults = {}
  ReplayFails = FALSE
  MaxFaults = 0
  MaxCrashes = 1
INVARIANT MembersOnlyWrite
INVARIANT TransferHasNoGap
INVARIANT DenseLog
INVARIANT ExactlyOnce
INVARIANT AcceptedPayloadIsCommitted
