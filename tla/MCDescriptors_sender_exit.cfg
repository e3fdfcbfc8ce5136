SPECIFICATION Spec
CONSTANTS
  c1 = c1
  c2 = c2
  p1 = p1
  p2 = p2
  f1 = f1
  v1 = v1
  v2 = v2
  e1 = e1
  Contexts = {c1, c2}
  Owners = {p1, p2}
  NObjects = 3
  NFds = 2
  MaxGen = 2
  MaxCount = 3
  Files = {f1}
  Events = {v1, v2}
  Epolls = {e1}
  MaxWatches = 1
  MaxRights = 1
  MaxQueue = 1
  Workloads <- SenderExit
  None = None
  Console = Console
CHECK_DEADLOCK FALSE
INVARIANT FileKeepsHandle
