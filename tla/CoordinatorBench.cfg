SPECIFICATION Spec
CONSTANTS
  Instances = {i1, i2}
  Ids = {s1, s2}
  Ramps = {ramp1, ramp2}
  Completers = {c1, c2}
  Putters = {p1}
  Steps <- TwoSteps
  Full = 3
  OneAtATime = TRUE
  SameMs = FALSE
  ZkFaults = FALSE
  None = None
INVARIANT PromotionSticks
INVARIANT HoldingMirrors
PROPERTY RatioRises
PROPERTY ImplementsSession
CHECK_DEADLOCK FALSE
