SPECIFICATION MCSpec
CONSTANTS
  Off = Off
  Exchanges <- MCExchanges
  MaxRequest = 1024
  MaxResponse = 597
  MaxReadSize = 1000
  RegisterCount = 24
  Capacity = 500
  ShortSizes = {1, 4, 5}
  MaxShort = 2
  MaxLinks = 2
  MaxSnapshots = 3
  OutCapacity = 1
  SseCapacity = 1
  Overlap = TRUE
INVARIANTS
  FramesInSync
  FaultsEndConnection
PROPERTIES
  HostJoins
  ForwarderEnds
