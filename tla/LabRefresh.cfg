SPECIFICATION Spec
CONSTANTS
  s1 = s1
  s2 = s2
  o1 = o1
  o2 = o2
  l1 = l1
  l2 = l2
  Global = Global
  NoOne = NoOne
  PageScope = s1
  Scope <- OneScope
  Operator = {}
  Lab <- OneLab
  PageIn = {}
  Ttl = 1
  Horizon = 1
  CommandBudget = 3
  DeathBudget = 1
CHECK_DEADLOCK FALSE
INVARIANTS
  RefreshKeepsSwitch
