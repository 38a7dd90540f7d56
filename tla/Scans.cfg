SPECIFICATION MCSpec
CONSTANTS
  Off = Off
  None = None
  Pids = {1, 2}
  Fds = {1, 2}
  Sockets = {s1, s2}
  Pipes = {p1}
  Namespaces = {n1, n2}
  FdLimit = 4
  PeerLimit = 1
  RelationLimit = 3
  MaxStart = 2
  MaxEvents = 1
  Target = 1
  EntryLimit = 2
  MatchLimit = 3
  DescriptorPeers = 2
  MaxChanges = 1
  NDevices = 2
  MaxPackets = 3
  ReplyLimit = 2
  Faults = 1
INVARIANTS
  RelationsOfSystem
  
  DescriptorsAsHeld
  DescriptorsCompleteOrWarned
  DumpsWhole
CONSTRAINT Reduced
SYMMETRY Swap
CHECK_DEADLOCK FALSE
