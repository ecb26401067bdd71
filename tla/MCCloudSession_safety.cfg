SPECIFICATION Spec
CONSTANTS
  c1 = c1
  c2 = c2
  Calls = {c1, c2}
  MaxLogins = 2
  MaxRotations = 2
  Budgets <- SafetyBudgets
SYMMETRY Interchangeable
\* The user may stop, and every bound may be used up: the system then rests.
CHECK_DEADLOCK FALSE
INVARIANTS
  NoReplay
  OutcomeIsKnown
  LeftStaysLeft
  LeftSessionIsAccountedFor
