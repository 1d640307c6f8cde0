SPECIFICATION Spec
CONSTANTS
  v1 = v1
  v2 = v2
  Garbage = Garbage
  Vals = {v1, v2}
  NumPages = 3
  PageSize = 1024
  SectorSize = 512
  SuperLen = 40
  Encrypted = TRUE
  Keep = TRUE
SYMMETRY Symmetry
INVARIANTS
  TypeOK
  CrashSafe
  RollbackComplete
PROPERTIES
  PlaybackRestores
