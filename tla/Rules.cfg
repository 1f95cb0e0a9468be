SPECIFICATION Spec
CONSTANTS
  t1 = t1
  t2 = t2
  eng = eng
  expense = expense
  purchase = purchase
  i1 = i1
  i2 = i2
  c1 = c1
  c2 = c2
  None = None
  RuleIds = {i1, i2}
  Calls = {c1, c2}
  Tenants = {t1, t2}
  Types = {expense, purchase}
  Departments = {eng}
  Approvers = {}
  Roles <- MCRoles
  RuleInputs <- MCRuleInputs
  CallInputs <- MCCallInputs
  LowTier = 3
  HighTier = 4
  MaxFaults = 1
INVARIANTS TypeOK PlannedByBestRule NoAmountBetween NoEmptyOrder
SYMMETRY Symmetry
CHECK_DEADLOCK FALSE
