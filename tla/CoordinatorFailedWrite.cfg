SPECIFICATION Spec
CONSTANTS
  Instances = {i1, i2}
  Ids = {s1}
  Ramps = {ramp1}
  Completers = {c1, c2}
  Putters = {}
  Steps <- TwoSteps
  Full = 3
  OneAtATime = FALSE
  SameMs = FALSE
  ZkFaults = TRUE
  None = None
INVARIANT AnsweredIsPromoted
CHECK_DEADLOCK FALSE
