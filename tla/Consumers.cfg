SPECIFICATION FairSpec
CONSTANTS
  valid = valid
  malformed = malformed
  unparseable = unparseable
  Events = {valid, unparseable}
  Valid = {valid}
  Identified = {valid}
  MaxRetryCount = 1
  MaxArrivals = 2
  MaxFaults = 2
INVARIANTS TypeOK Accounted BroadcastAtLeastOnce NotifiedOnce
PROPERTIES EventuallyAccounted
CHECK_DEADLOCK FALSE
