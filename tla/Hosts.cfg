SPECIFICATION MCSpec
CONSTANTS
  Off = Off
  None = None
  Procs = {p}
  Addrs = {a}
  Ids = {i}
  Entries = {x}
  Epochs = {1, 2}
  Absent = Absent
  Gone = Gone
  MaxSequence = 3
  MaxConnections = 2
  Callers = {t1, t2}
  PendingLimit = 2
  OutCapacity = 2
  Permits = 2
  Adverse = {"timeout", "stray"}
  MaxRequests = 3
  Qps <- MCQps
  HostOf <- MCHostOf
  Layer <- MCLayer
  GidIndex <- MCGidIndex
  QueuePairLimit = 3
  Movable <- MCMovable
  OpenedBy = {"none", "ip"}
INVARIANTS
  AlwaysMergeable
  LinkKeepsApart
  LinkRecords
  QueuePairsRelated
PROPERTIES
  ImplementsFeed
CONSTRAINT Reduced
SYMMETRY Symmetry
CHECK_DEADLOCK FALSE
