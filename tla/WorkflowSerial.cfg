SPECIFICATION Spec
CONSTANTS
  s1 = s1
  s2 = s2
  s3 = s3
  s4 = s4
  NoStep = NoStep
  Workers = {w1}
  Steps = {s1, s2, s3, s4}
  StepOrder <- MixedOrder
  StepPolicy <- MixedPolicy
  TotalSteps = 2
  Ops = {"create", "submit", "approve", "reject", "cancel", "purge"}
  MaxRequests = 6
  MaxAbandons = 0
INVARIANTS Unanimity EventsChain AwaitedStepExists
PROPERTIES TerminalIsFinal ImplementsApprovalProcess
CHECK_DEADLOCK FALSE
