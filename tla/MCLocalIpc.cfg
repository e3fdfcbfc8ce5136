SPECIFICATION IpcSpec
CONSTANTS
  a = a
  b = b
  k1 = k1
  k2 = k2
  NoOne = NoOne
  None = None
  Unnamed = Unnamed
  Owners = {p1}
  NPipes = 2
  PIPE_BUF = 2
  MaxGen = 2
  MaxPipeGen = 4
  Bytes = {b1, b2}
  NEndpoints = 4
  NConnections = 2
  MaxEndpointGen = 2
  Backlog = 2
  SocketBuffer = 3
  MaxRecords = 2
  SockWork <- SockPrograms
  NDgrams = 3
  DgQueue = 2
  MaxDgGen = 2
  DgAddresses = {1, 2}
  MaxMessages = 3
INVARIANTS EndsMatchEndpoints SockTablesAgree RightsTravelWithBytes DgramsInOrder
PROPERTY IsStream SockEdges
SYMMETRY IpcSymmetry
CHECK_DEADLOCK FALSE
