SPECIFICATION EpSpec
CONSTANTS
  c1 = c1
  c2 = c2
  Targets = {"event", "reader", "writer"}
  Waiters = {c1, c2}
  Workloads <- OnlySemaphore
  NWatches = 2
  Capacities = {1}
  Full = 2
  MaxGen = 3
  NoWatch = NoWatch
INVARIANT NoLostEdge
