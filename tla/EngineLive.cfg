SPECIFICATION FairSpec
CONSTANTS
  Requests = {r1, r2}
  Resetters = {}
  Watch = watch
  ReadyAfter = 1
  ZkFaults = TRUE
INVARIANT RecordTrails
PROPERTY WarmupResolves
PROPERTY StopDrains
CHECK_DEADLOCK FALSE
