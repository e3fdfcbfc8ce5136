SPECIFICATION FilesSpec
CONSTANTS
  c1 = c1
  c2 = c2
  p1 = p1
  p2 = p2
  f1 = f1
  v1 = v1
  v2 = v2
  e1 = e1
  Contexts = {c1, c2}
  Owners = {p1, p2}
  NObjects = 2
  NFds = 3
  MaxGen = 2
  MaxCount = 3
  Files = {f1}
  Events = {v1, v2}
  Epolls = {e1}
  MaxWatches = 1
  MaxRights = 2
  MaxQueue = 1
  Workloads <- AllWork
  None = None
  Console = Console
  n1 = n1
  n2 = n2
  l1 = l1
  da = da
  db = db
  Native = {n1, n2}
  LinuxOwners = {l1}
  NNodes = 4
  NHandles = 2
  NFiles = 2
  FILE_BYTES = 2
  MaxPath = 3
  Components = {da, db}
  Data = {1}
  MaxInput = 1
  ControlFiles = {da}
  Disk <- MCDisk
  FileWorkloads <- AllCallSets
  Absent = Absent
CHECK_DEADLOCK FALSE
INVARIANTS CountsExact NamesStayOpen  HandlesExact
PROPERTIES ClosingReclaimed VfsIsTree
