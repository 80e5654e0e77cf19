SPECIFICATION Spec
CONSTANTS
  Name <- MCName
  VBMetaName <- MCVBMetaName
  Key = {"k1", "k2", "k3"}
  NoKey = NoKey
  Digest = {"d1", "d2"}
  NoDigest = NoDigest
  NoName = NoName
  Location <- MCLocation
  MAX_LOCATIONS = 2
  MAX_VBMETA = 32
  MAX_LOADED = 32
  MAX_SUBST = 10
  Worlds <- StrictPersistentRootWorlds
  MaxBoots = 2
  MaxFaults = 0
CHECK_DEADLOCK FALSE
INVARIANTS
  OKOnlyIfVerified
