SPECIFICATION Spec
CONSTANTS
  Entry <- Entries
  HashValue <- Values
  Allocs = {2, 4}
  Shifts = {0, 1}
  NULL = NULL
INVARIANTS
  TableSound
  IterationComplete
PROPERTIES
  ImplementsEntrySet
