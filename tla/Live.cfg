SPECIFICATION FairSpec
CONSTANTS
  ta = ta
  tb = tb
  e1 = e1
  e2 = e2
  Connected = Connected
  Tenants = {ta, tb}
  Events = {e1, e2}
  EventTenant <- MCEventTenant
  MaxSwitches = 1
  MaxFaults = 1
INVARIANTS TypeOK HandledOnce OnlyGapsAreMissed
PROPERTIES OwnTenantOnly StreamComesBack
CHECK_DEADLOCK FALSE
