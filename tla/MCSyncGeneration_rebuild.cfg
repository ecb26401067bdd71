CONSTANTS
  a = a
  b = b
  v1 = v1
  v2 = v2
  gone = gone
  Absent = Absent
  Devices <- MCDevices
  Records = {1, 2}
  Values <- MCValues
  Tombstone = gone
  MaxTime = 2
  Starts <- MCStarts
SPECIFICATION FairSpec
INVARIANTS
  EditsAreKept
  ScopeIsClean
PROPERTIES
  Settles
