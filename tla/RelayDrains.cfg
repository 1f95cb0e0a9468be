SPECIFICATION FairSpec
CONSTANTS
  Replicas = {r1}
  NoReplica = NoReplica
  NumEvents = 2
  Invalid = {1}
  BatchSize = 2
  MaxRetry = 1
  MaxOutages = 1
  MaxFaults = 1
  MaxCrashes = 1
  MaxShutdowns = 1
  MaxRestarts = 2
  MaxPurges = 1
PROPERTIES BacklogDrains
CHECK_DEADLOCK FALSE
