CONSTANTS
  Cpu <- Processors
  Processor <- ProcessorKinds
  MaxFailures = 2
  MaxLoads = 2
  MaxVms = 2
  NONE = NONE
SPECIFICATION Spec
INVARIANTS
  StopsExplained
  LeaksKnown
  ConfigDependencies
  VmcsAccepted
CHECK_DEADLOCK FALSE
