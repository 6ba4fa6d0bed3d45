\* A takeover while the old holder's ack is still under way.
SPECIFICATION Spec
CONSTANTS
  Replicas = {"p1", "p2"}
  Agents = {"alice", "bob"}
  Log <- JoinThenMessage
  NoReplica = NoReplica
  MaxDeliver = 2
  SnapshotEvery = 2
  MaxHistory = 2
  DrainsInTime = FALSE
  SlowHydrate = FALSE
  SlowReplay = FALSE
  MaxFaults = 2
INVARIANT FeedComplete
