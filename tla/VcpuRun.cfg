SPECIFICATION FairSpec
CONSTANTS
  CPU = {c1}
  Exits = {"resume", "stop", "triple_fault", "ept_violation", "bus_lock", "init_signal", "beyond_table"}
  EntryFails = {"vmfail", "invalid_state"}
  MmuFails = TRUE
  MaxExits = 3
  MaxRuns = 3
INVARIANTS
  LaunchStateAgrees
  EntryFailureReported
  NothingLeftLoaded
PROPERTIES
  RootModeEnds
CHECK_DEADLOCK FALSE
