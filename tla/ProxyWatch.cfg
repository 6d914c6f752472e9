SPECIFICATION Spec
CONSTANTS
  MaxWrites = 4
  Faults = TRUE
INVARIANT TypeOK
PROPERTY ConfigsInOrder
PROPERTY AnnouncedIsSeen
CHECK_DEADLOCK FALSE
