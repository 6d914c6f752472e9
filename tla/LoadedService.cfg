SPECIFICATION Spec
CONSTANTS
  Requests = {r1, r2}
  Watch = watch
  Numbers = {0}
  MaxResets = 2
  None = None
INVARIANT TypeOK
INVARIANT ReadsComplete
INVARIANT BuiltOnce
INVARIANT ReadyIsWarm
INVARIANT SnapshotCoherent
CHECK_DEADLOCK FALSE
PROPERTY RequestsEnd
