SPECIFICATION Spec
CONSTANTS
  MaxSessions = 3
  ViewerLimit = 2
  Cap = 2
  Adverse = {"hub"}
INVARIANTS
  ClosedReleased
CHECK_DEADLOCK FALSE
