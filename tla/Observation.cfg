SPECIFICATION MCSpec
CONSTANTS
  Off = Off
  None = None
  MaxSessions = 4
  ViewerLimit = 2
  Cap = 3
  Adverse = {"cancel", "fail", "expire", "hub"}
  Tids = {1}
  Cpus = {1}
  Layouts = {m1, m2}
  ThreadLimit = 1
  RingCapacity = 2
  MaxTime = 3
  MaxStart = 2
  MaxEpoch = 2
  Processes = {1}
  Files = {1, 2}
  Image <- MCImage
  MapSets <- MCMapSets
  Stacks <- MCStacks
  Page = 2
  HeaderLen = 1
  MaxRanges = 1
  MaxReadSize = 8
  MaxFileSize = 9
  MaxSection = 4
  MaxExpanded = 6
  MaxSymbols = 2
  MaxUnits = 1
  MaxFiles = 1
  MaxCacheBytes = 14
  MaxUnwinders = 1
  MaxLoaded = 2
  MaxFrames = 2
  MaxCaptured = 2
  MaxObserved = 2
  Pids = {1}
  Resources = {r1, r2, r3}
  MaxEvents = 3
  PollLimit = 2
  FilesLimit = 2
  IpcLimit = 2
  SignalsLimit = 2
  AggregateLimit = 2
  Procs = {p1}
  Bridges = {1, 2}
  Functions = {3, 4, 5, 6}
  MaxBytes = 8
INVARIANTS
  LocalReleased
  
  TraceesReleased
  
  EventsAccounted
  
  
PROPERTIES
  HistoryKept
  SamplesAdvance
CONSTRAINT Reduced
CHECK_DEADLOCK FALSE
