SPECIFICATION Spec
CONSTANTS
  c1 = c1
  c2 = c2
  c3 = c3
  m1 = m1
  m2 = m2
  None = None
  Cfgs = {c1, c2, c3}
  Broken = {c3}
  Modes = {m1, m2}
  Budgets <- SafetyBudgets
  MaxQueue = 3
CHECK_DEADLOCK FALSE
SYMMETRY Symmetry
INVARIANTS
  Agrees
  InLine
  NoUnwantedStart
  KeptWasAccepted
