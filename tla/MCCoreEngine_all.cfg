SPECIFICATION Spec
CONSTANTS
  c1 = c1
  c2 = c2
  m1 = m1
  m2 = m2
  a = a
  b = b
  c = c
  n1 = n1
  None = None
  Ticker = Ticker
  Callers = {c1, c2}
  Choices = {m1, m2}
  Tags = {a, b, c}
  Names = {n1}
  Addresses <- MCAddresses
  MaxRedirects = 1
  CacheSize = 2
  LogSize = 3
  Scenarios <- MCScenarios
SYMMETRY Symmetry
INVARIANTS
  RunningIsServed
  SnapshotIsOfOneSession
  EndedTrafficIsCounted
  PlanChoicesHold
  NewestIsKept
  VerdictIsRight
  DownloadIsGuarded
