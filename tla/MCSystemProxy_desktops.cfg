SPECIFICATION FairSpec
CONSTANTS
  p1 = p1
  p2 = p2
  user1 = user1
  user2 = user2
  on = on
  off = off
  N = 2
  Values = {p1, p2, user1, user2, on, off}
  UserValues <- TheirValues
  Target <- OurTargets
  Ports = {p1, p2}
  Budgets <- Desktops
  MaxQueue = 3
\* The user and the core may stop, and every bound may be used up.
CHECK_DEADLOCK FALSE
INVARIANTS
  Recoverable
  ActiveIsIntended
PROPERTIES
  ForeignGroupIsKept
  Cleanup
