CONSTANTS
  None = None
  Names = {"boot.img", "recovery.img"}
  PartOrder <- MCPartOrder
  Versions <- MCVersions
  BootImages <- MCBootImages
  VBMetas <- MCVBMetas
  Edits <- MCEdits
  MaxMoves = 5
  MaxFaults = 1
SPECIFICATION Spec
CHECK_DEADLOCK FALSE
INVARIANTS TypeOK PackedIsCurrent NothingStale VBMetaMatches PackRepeatable
