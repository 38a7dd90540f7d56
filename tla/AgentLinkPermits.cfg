SPECIFICATION Spec
CONSTANTS
  Callers = {t1, t2}
  PendingLimit = 2
  OutCapacity = 4
  Permits = 2
  Adverse = {}
  MaxRequests = 4
INVARIANTS
  PermitFree
CHECK_DEADLOCK FALSE
