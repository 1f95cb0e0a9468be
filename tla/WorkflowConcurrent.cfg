SPECIFICATION Spec
CONSTANTS
  s1 = s1
  s2 = s2
  s3 = s3
  s4 = s4
  NoStep = NoStep
  Workers = {w1, w2}
  Steps = {s1, s2, s3}
  StepOrder <- EitherOrder
  StepPolicy <- EitherPolicy
  TotalSteps = 2
  Ops = {"create", "submit", "approve", "reject", "cancel", "purge"}
  MaxRequests = 5
  MaxAbandons = 1
SYMMETRY WorkerSymmetry
INVARIANTS TypeOK SettledBehind ApprovedEventTruthful TransitionsAnnounced
CHECK_DEADLOCK FALSE
