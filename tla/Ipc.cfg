SPECIFICATION MCSpec
CONSTANTS
  Streams = {t1, t2}
  QueueLimit = 1
  MaxRequests = 3
  Subscribers = {s1, s2}
  ViewerLimit = 1
  Capacity = 2
  MaxSnapshots = 3
  MaxEvents = 3
INVARIANTS
  ReplyMatches
  SessionsKeptApart
  SystemViewers
PROPERTIES
  RequestsEnd
  SystemReleases
CHECK_DEADLOCK FALSE
