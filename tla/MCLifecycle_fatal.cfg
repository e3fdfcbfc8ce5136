SPECIFICATION Spec
CONSTANTS
  NSlots = 3
  MaxPid = 5
  MaxGen = 4
  MaxEpoch = 10
  rootInit = rootInit
  rootService = rootService
  rootSpare = rootSpare
  NoRoot = NoRoot
  Roots <- MCRoots
  InitLaunches <- OnlyLinuxInit
  ServiceLaunches <- BothServices
  FatalSignals <- OnlyLinuxInit
INVARIANT ZombieIsAlone
