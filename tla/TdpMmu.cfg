SPECIFICATION FairSpec
CONSTANTS
  Cpu <- Processors
  Gfn <- Frames
  RootLevel = 3
  EntriesPerPage = 2
  CacheMin = 3
  CacheCapacity = 3
  Registered = TRUE
  AdEnabled = FALSE
  MaxPages = 8
  MaxEntries = 3
  HEAD = HEAD
  NONE = NONE
INVARIANTS
  WalkOnPath
  TablesFormTrees
  CacheSuffices
  RootsReferenced
PROPERTIES
  PresentStays
  FaultsAnswered
CHECK_DEADLOCK FALSE
