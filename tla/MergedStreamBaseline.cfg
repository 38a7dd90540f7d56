SPECIFICATION Spec
CONSTANTS
  MaxLinks = 2
  MaxSnapshots = 3
  OutCapacity = 1
  SseCapacity = 1
  Overlap = FALSE
INVARIANTS
  OwnBaseline
CHECK_DEADLOCK FALSE
