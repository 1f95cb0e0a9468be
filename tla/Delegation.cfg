SPECIFICATION Spec
CONSTANTS
  w1 = w1
  w2 = w2
  bob = bob
  eve = eve
  t1 = t1
  t2 = t2
  Nobody = Nobody
  Workers = {w1, w2}
  People = {bob, eve}
  NumSteps = 2
  StepApprover <- MCStepApprover
  WorkflowApprover = bob
  SkipSiblings = TRUE
  Tenants = {t1, t2}
  OwnTenant = t1
  DelegationInputs <- MCDelegationInputs
  MaxTime = 2
  MaxRequests = 2
INVARIANTS TypeOK Backed ApprovalAnnounced
SYMMETRY Symmetry
CHECK_DEADLOCK FALSE
