SPECIFICATION ModulesSpec
CONSTANTS
  NModSlots = 2
  NExtents = 3
  PagesPerExtent = 2
  NFrames = 7
  MaxModuleGen = 2
  MaxFaults = 2
  Plans <- MCPlans
  ModuleNames = {m1, m2}
CHECK_DEADLOCK FALSE
INVARIANT QuarantineUnreachable
