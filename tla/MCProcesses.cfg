SPECIFICATION ProcessSpec
CONSTANTS
  t1 = t1
  NSpaces = 2
  NMaps = 3
  NPages = 6
  NOwned = 9
  NShared = 2
  MaxSpaceGen = 2
  StackPage = 1
  BrkBase = 6
  BrkPages = 2
  MmapBase = 8
  Limit = 11
  TableSpan = 7
  SharedPages = 2
  Threads = {t1}
  Workloads <- MemoryWork
  None = None
  Tasks = {t1, t2, t3, t4}
  Pid1 = t1
  Classes = {2, 3}
  Pid1Class = 1
  Linux = {2}
  NImages = 4
  ImageRoots = {1, 2, 3, 4}
  Kernel = kroot
  MaxImageGen = 2
  BootSlot <- MCBootSlot
  BootRoot <- MCBootRoot
  MaySignal = FALSE
  NoImage = NoImage
  NModSlots = 2
  NExtents = 3
  PagesPerExtent = 2
  NFrames = 7
  MaxModuleGen = 2
  MaxFaults = 2
  Plans <- MCPlans
  ModuleNames = {m1, m2}
  NSlots = 3
  MaxPid = 5
  MaxGen = 4
  MaxEpoch = 10
  rootInit = rootInit
  rootService = rootService
  rootSpare = rootSpare
  NoRoot = NoRoot
  Roots <- MCRoots
  InitLaunches <- BothInits
  ServiceLaunches <- BothServices
  FatalSignals <- OnlyLinuxInit
INVARIANTS DecisionsExact LivePidsDistinct ReturnGateOpens HaltOnlyWhenExhausted
  FramesOwnedOnce LedgerMatchesTables ImagesOwned ModulesExact
PROPERTIES AuthoritiesAdvance FailedCallChangesNothing
