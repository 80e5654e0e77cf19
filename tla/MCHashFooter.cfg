CONSTANTS
  d1 = d1
  d2 = d2
  Data <- MCData
  Images <- MCImages
  PartitionSizes <- MCPartitionSizes
  BlobSizes <- MCBlobSizes
  Cuts <- MCCuts
  INT_MAX = 262143
  MaxCalls = 3
SPECIFICATION Spec
INVARIANTS TypeOK FooterSound FillsPartition SignsSameImage
CHECK_DEADLOCK FALSE
