SPECIFICATION Spec
CONSTANTS
  MaxWrites = 4
  Faults = TRUE
INVARIANT TypeOK
INVARIANT NoLostUpdate
PROPERTY WatcherStops
PROPERTY ImplementsFeed
CHECK_DEADLOCK FALSE
