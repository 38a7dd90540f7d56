SPECIFICATION MCSpec
CONSTANTS
  None = None
  Observations = {o1, o2}
  ViewerLimit = 1
  Required = {ptrace}
  Unneeded = {chown}
  Commands <- MCCommands
  ConfigFiles <- MCConfigFiles
  MinBackoff = 1
  MaxBackoff = 5
  Ips = {"a", "b", "c", "d"}
  Workers = {"w1", "w2"}
  QueueLimit = 2
  CacheLimit = 3
INVARIANTS
  ProcessViewers
  
  DelayOfAttempts
  AskedOnce
PROPERTIES
  ProcessEnds
  BothEnd
  PendingAnswered
