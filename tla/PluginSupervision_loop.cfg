SPECIFICATION FairSpec
CONSTANTS
  None = None
  NumPlugins = 3
  NumFiles = 3
  MaxRespawns = 2
  Threshold = 1
INVARIANTS
  TypeOK
  NoChildLeft
  FilesAccounted
  ShutdownIsEtiquette
PROPERTIES
  LoopEnds
CHECK_DEADLOCK FALSE
