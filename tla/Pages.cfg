SPECIFICATION MCSpec
CONSTANTS
  ta = ta
  tb = tb
  w1 = w1
  w2 = w2
  demo = demo
  admin = admin
  bob = bob
  None = None
  Workflows = {w1, w2}
  DemoId = demo
  Users = {admin, bob}
  Tenants = {ta, tb}
  Role <- MCRole
  Requester <- MCRequester
  Plan <- MCPlan
  TenantOf <- MCTenantOf
  Existing = {w1}
  MaxInputs = 2
  MaxFaults = 1
  MaxPending = 2
INVARIANTS TypeOK NothingUnseenIsApproved NobodyWaitsBehind
PROPERTIES PreviewKeepsTheRules WidgetCatchesUp
CHECK_DEADLOCK FALSE
