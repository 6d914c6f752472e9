SPECIFICATION Spec
CONSTANTS
  i1 = i1
  i2 = i2
  Instances = {i1, i2}
  Requests = {r1}
  Configs <- Swap
  MaxStarts <- StartsTwoOne
  MaxDrops = 1
  None = None
INVARIANT TypeOK
INVARIANT NoSelfMirror
INVARIANT TableAgrees
PROPERTY EntersTable
PROPERTY LeavesTable
CHECK_DEADLOCK FALSE
