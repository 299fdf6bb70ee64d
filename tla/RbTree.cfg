SPECIFICATION Spec
CONSTANTS
  Slot <- Slots
  BaseGfn <- Bases
  Npages <- Sizes
  Volatile <- ComeAndGo
  Moves <- Changes
  Gfn <- Frames
  NULL = NULL
INVARIANTS
  WellFormed
  LookupsAgree
PROPERTIES
  ImplementsGfnSet
  RebalancingEnds
