SPECIFICATION Spec
CONSTANTS
  Blocks = 2
  PerBlock = 2
  Cycle = 16
  MaxTag = 5
  ResetsInside = FALSE
CHECK_DEADLOCK FALSE
INVARIANTS TypeOK InStep DiskHoldsWhatWasWritten
PROPERTIES CommandsComplete
