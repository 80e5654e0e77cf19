CONSTANTS
  WORD = 65536
  HEADER_SIZE = 256
  DESCRIPTOR_SIZE = 16
  BLOCK = 64
  ALIGN = 8
  PAGE = 4096
  FIXED <- MC_FIXED
  HASH_LEN <- MC_HASH_LEN
  ALGORITHM <- MC_ALGORITHM
  Images <- MC_Images
  Keys = {"a", "b"}
  Partitions <- MC_Partitions
  Digests <- MC_Digests
  NewHashes <- MC_NewHashes
  Boots = {"boot", "dtbo"}
  NewDigests = {1, 2}
  MaxLen = 4
  Pkmds = {0, 10}
SPECIFICATION Spec
INVARIANTS TypeOK AcceptedInside WalkSound ContentsInside TwoPassesAgree WrittenUsable EditsInPlace
PROPERTIES Terminates
