\* Two projector replicas: crashes, lost leases, failed publishes and acks, a corrupt fact.
SPECIFICATION FairSpec
CONSTANTS
  Replicas = {"p1", "p2"}
  Agents = {"alice", "bob"}
  Log <- HandedOver
  NoReplica = NoReplica
  MaxDeliver = 2
  SnapshotEvery = 2
  MaxHistory = 2
  DrainsInTime = TRUE
  SlowHydrate = FALSE
  SlowReplay = FALSE
  MaxFaults = 3
INVARIANT TypeOK
INVARIANT FeedComplete
INVARIANT OnlyParticipants
INVARIANT FeedInOrder
INVARIANT SnapshotIsFold
PROPERTY EverythingSettles
