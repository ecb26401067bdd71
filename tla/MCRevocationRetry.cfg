SPECIFICATION FairSpec
CONSTANTS
  p1 = p1
  p2 = p2
  p3 = p3
  Proofs = {p1, p2, p3}
  MaxFaults = 3
INVARIANTS
  TimerIsQuiet
  DenialIsShown
PROPERTIES
  KeepsWatch
  DrainsUntilEmpty
