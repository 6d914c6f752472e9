SPECIFICATION Spec
CONSTANTS
  Callers = {c1, c2}
  Page = 3
  Size = 5
  OldSizes = {Missing, 1, 10}
  Missing = Missing
  MaxMaps = 2
SYMMETRY Symmetry
INVARIANT TypeOK
INVARIANT NothingLeaks
INVARIANT WithinSlice
INVARIANT CutOnlyIfLarger
CHECK_DEADLOCK FALSE
