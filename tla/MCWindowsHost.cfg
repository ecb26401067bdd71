SPECIFICATION Spec
CONSTANTS
  user = user
  service = service
  other = other
  cache = cache
  state = state
  None = None
  User = user
  Service = service
  Foreign = {other}
  Files <- MCFiles
  Scenarios <- MCScenarios
CHECK_DEADLOCK FALSE
INVARIANTS
  HandleFollowsTunnel
  ImportIsWhole
PROPERTIES
  AtMostOneTunnel
  NewestStateRuns
