SPECIFICATION Spec
CONSTANTS
  p1 = p1
  ta = ta
  tb = tb
  k = k
  NoKey = NoKey
  NoTenant = NoTenant
  MaxRequests = 3
  Replicas = {p1}
  Tenants = {ta, tb}
  Keys = {k}
  Limit <- MCLimit
  WindowMs = 2
  MaxTime = 2
  MaxFaults = 1
INVARIANTS TypeOK ReplayIsTruthful ExecutedOnce NoLostClaim
PROPERTIES RefusedForItself
CHECK_DEADLOCK FALSE
