SPECIFICATION CommitSpec
CONSTANTS
  Phases = 6
  DriftLimit = 1
  MaxPending = 2
  MaxBatch = 1
  Attempts = 2
  MaxCommands = 2
  MaxDrives = 4
PROPERTY DeferredReturns
CHECK_DEADLOCK FALSE
