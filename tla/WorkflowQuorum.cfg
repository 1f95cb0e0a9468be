SPECIFICATION Spec
CONSTANTS
  s1 = s1
  s2 = s2
  s3 = s3
  s4 = s4
  NoStep = NoStep
  Workers = {w1, w2}
  Steps = {s1, s2}
  StepOrder <- PairOrder
  StepPolicy <- PairPolicy
  TotalSteps = 1
  Ops = {"create", "submit", "approve"}
  MaxRequests = 3
  MaxAbandons = 0
INVARIANTS QuorumAdvances
CHECK_DEADLOCK FALSE
