\* Protocol 1, two records, clocks that are right: pages and batches are cut.
SPECIFICATION Spec
CONSTANTS
  d1 = d1
  d2 = d2
  Devices = {d1, d2}
  Records = {1, 2}
  Values = {v1, gone}
  Tombstone = gone
  Absent = absent
  MaxTime = 2
  Skewed = FALSE
  MaxEdits <- TwoOne
  MaxFaults = 1
  Lifecycle = FALSE
INVARIANTS
  CursorLeavesNoHole
PROPERTIES
  NothingRegresses
