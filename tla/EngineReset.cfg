SPECIFICATION Spec
CONSTANTS
  Requests = {r1, r2}
  Resetters = {reset1}
  Watch = watch
  ReadyAfter = 2
  ZkFaults = FALSE
SYMMETRY Symmetry
INVARIANT TypeOK
INVARIANT SerialAgreement
PROPERTY ReadyStepIsWarmed
CHECK_DEADLOCK FALSE
