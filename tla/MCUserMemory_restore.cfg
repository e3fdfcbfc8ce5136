SPECIFICATION MemSpec
CONSTANTS
  t1 = t1
  NSpaces = 2
  NMaps = 3
  NPages = 6
  NOwned = 9
  NShared = 2
  MaxSpaceGen = 2
  StackPage = 1
  BrkBase = 6
  BrkPages = 2
  MmapBase = 8
  Limit = 11
  TableSpan = 7
  SharedPages = 2
  Threads = {t1}
  Workloads <- ProtectOnly
  None = None
PROPERTY FailedWriteRestores
CHECK_DEADLOCK FALSE
