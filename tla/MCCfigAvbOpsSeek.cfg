SPECIFICATION Spec
CONSTANTS
  Partitions = {"boot", "vbmeta"}
  Images <- MCImages
  Locations = {0, 1}
  Indexes = {0, 5}
  Offsets <- MCOffsets
  Counts <- MCCounts
  Keys = {"k1", "k2"}
  NoKey = NoKey
  NoFile = NoFile
  Empty = Empty
  Junk = Junk
  FirstDisks <- MCFirstDisks
  FirstConfigs <- MCFirstConfigs
  Writes <- MCWrites
  Requests <- MCRequests
  Preloads <- MCPreloads
  MaxRuns = 1
  MaxCalls = 1
  MaxEdits = 0
  MaxFaults = 0
CHECK_DEADLOCK FALSE
INVARIANTS
  ReadInside
