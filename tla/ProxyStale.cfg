SPECIFICATION Spec
CONSTANTS
  MaxWrites = 2
  Faults = FALSE
PROPERTY FollowsConfig
CHECK_DEADLOCK FALSE
