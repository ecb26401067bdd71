SPECIFICATION FairSpec
CONSTANTS
  c1 = c1
  c2 = c2
  c3 = c3
  m1 = m1
  m2 = m2
  None = None
  Cfgs = {c1}
  Broken = {}
  Modes = {m1, m2}
  Budgets <- LivenessBudgets
  MaxQueue = 6
CHECK_DEADLOCK FALSE
PROPERTIES
  ModesMeet
  IntentIsCarriedOut
  ShownMeansRuns
