SPECIFICATION Spec
CONSTANTS
  Replicas = {r1}
  NoReplica = NoReplica
  NumEvents = 1
  Invalid = {}
  BatchSize = 1
  MaxRetry = 1
  MaxOutages = 1
  MaxFaults = 0
  MaxCrashes = 1
  MaxShutdowns = 0
  MaxRestarts = 1
  MaxPurges = 0
INVARIANTS PublishedIsInKafka
CHECK_DEADLOCK FALSE
