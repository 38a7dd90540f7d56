SPECIFICATION FairSpec
CONSTANTS
  Names = {hub, a}
  LocalName = hub
  Machines = {m1, m2}
  Conns = {c1, c2}
  NoConn = NoConn
  HostLimit = 1
PROPERTIES
  DisconnectedGoesOffline
CHECK_DEADLOCK FALSE
