SPECIFICATION Spec
CONSTANTS
  CPU = {c1, c2}
  Exits = {"resume"}
  EntryFails = {}
  MmuFails = FALSE
  MaxExits = 1
  MaxRuns = 1
INVARIANTS
  OwnRegisters
CHECK_DEADLOCK FALSE
