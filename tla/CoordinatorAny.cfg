SPECIFICATION Spec
CONSTANTS
  Instances = {i1}
  Ids = {s1, s2}
  Ramps = {ramp1, ramp2}
  Completers = {c1}
  Putters = {}
  Steps <- OneStep
  Full = 2
  OneAtATime = FALSE
  SameMs = TRUE
  ZkFaults = TRUE
  None = None
PROPERTY RunningEnds
CHECK_DEADLOCK FALSE
