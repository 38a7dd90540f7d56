SPECIFICATION FairSpec
CONSTANTS
  Names = {hub, a, b}
  LocalName = hub
  Machines = {m1, m2}
  Conns = {c1, c2}
  NoConn = NoConn
  HostLimit = 1
INVARIANTS
  LimitKept
  OnlineTakesRequests
  NoMissedChange
PROPERTIES
  ReplacedLinkHarmless
  LostRelayGoesOffline
CHECK_DEADLOCK FALSE
