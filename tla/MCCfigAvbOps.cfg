SPECIFICATION Spec
CONSTANTS
  Partitions = {"boot", "vbmeta"}
  Images <- MCImages
  Locations = {0, 1}
  Indexes = {0, 5}
  Offsets <- MCOffsets
  Counts <- MCCounts
  Keys = {"k1", "k2"}
  NoKey = NoKey
  NoFile = NoFile
  Empty = Empty
  Junk = Junk
  FirstDisks <- MCFirstDisks
  FirstConfigs <- MCFirstConfigs
  Writes <- MCWrites
  Requests <- MCRequests
  Preloads <- MCPreloads
  MaxRuns = 2
  MaxCalls = 2
  MaxEdits = 1
  MaxFaults = 1
CHECK_DEADLOCK FALSE
INVARIANTS ReadExact PreloadedPrefix IndexAsStored DeviceSound
