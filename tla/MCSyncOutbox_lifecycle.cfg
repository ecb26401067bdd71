\* Protocol 2, one record, clocks that have nothing to do with the service's.
SPECIFICATION FairSpec
CONSTANTS
  d1 = d1
  d2 = d2
  Devices = {d1, d2}
  Records = {1}
  Values = {v1, gone}
  Tombstone = gone
  Absent = absent
  MaxTime = 2
  Skewed = TRUE
  MaxEdits <- TwoOne
  MaxFaults = 1
  Lifecycle = TRUE
INVARIANTS
  MirrorIsPublished
  UnknownResultIsHeld
  RunKnowsEveryEdit
PROPERTIES
  EditYieldsOnlyToAVerdict
  Converges
