SPECIFICATION DevSpec
CONSTANTS
  Handles = {h1, h2}
  Irqs = {i1, i2}
  MaxEpoch = 3
  None = None
  Phases = 6
  DriftLimit = 1
  MaxPending = 2
  MaxBatch = 1
  Attempts = 2
  MaxCommands = 2
  MaxDrives = 4
  Levels = 3
  Entries = 2
  NTables = 4
  NMappings = 4
  MaxMapGen = 3
  Aperture <- DevicePages
  Reserved = {0}
  NBatches = 3
  MaxBatchPages = 2
  NDomainMaps = 3
  MaxDomainGen = 2
  Requests <- DriverRequests
  Regions <- DmaRegions
  Faults = {0, 1, 2, 3, 4, 5}
  NoFault = 99
  LinkIndex = 2
  EventCapacity = 3
  MaxSequence = 9
  MaxPortEvents = 2
  NPorts = 2
INVARIANTS
  PagesExact
  RevokedIsUnreachable LedgersAgree
  CompletionsExact DmaContained QuietTakeover
PROPERTIES OnePlace AcceptedIsExact ClaimEnds
CHECK_DEADLOCK FALSE
