SPECIFICATION Spec
CONSTANTS
  Cpu <- Processors
  Gfn <- Frames
  RootLevel = 3
  EntriesPerPage = 2
  CacheMin = 3
  CacheCapacity = 3
  Registered = FALSE
  AdEnabled = FALSE
  MaxPages = 8
  MaxEntries = 3
  HEAD = HEAD
  NONE = NONE
INVARIANT
  FaultsHandled
CHECK_DEADLOCK FALSE
