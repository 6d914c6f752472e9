SPECIFICATION SpecAll
CONSTANTS
  Instances = {act, warm}
  Ids = {s1, s2}
  Ramps = {ramp1, ramp2}
  Completers = {c1, c2}
  Putters = {p1, p2}
  Steps <- NoSteps
  Full = 2
  OneAtATime = FALSE
  SameMs = FALSE
  ZkFaults = TRUE
  None = None
  Warm = warm
  Active = act
  Scenarios <- AllScenarios
  Runs = 1
  MaxRuns = 1
  ReadyAfter = 1
  MaxShadows = 1
  MaxRestarts = 1
INVARIANT TypeOKAll
INVARIANT ProbedAsIntended
INVARIANT ProbesUnmirrored
INVARIANT PromotionFinal
INVARIANT AnsweredIsPromoted
PROPERTY ProtocolKept
PROPERTY PromotionHeard
CHECK_DEADLOCK FALSE
