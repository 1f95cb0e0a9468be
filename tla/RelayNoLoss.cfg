SPECIFICATION Spec
CONSTANTS
  Replicas = {r1, r2}
  NoReplica = NoReplica
  NumEvents = 2
  Invalid = {2}
  BatchSize = 2
  MaxRetry = 1
  MaxOutages = 1
  MaxFaults = 1
  MaxCrashes = 1
  MaxShutdowns = 0
  MaxRestarts = 0
  MaxPurges = 1
SYMMETRY ReplicaSymmetry
INVARIANTS TypeOK PublishedIsInKafka
CHECK_DEADLOCK FALSE
