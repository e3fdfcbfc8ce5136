SPECIFICATION WaitingSpec
CONSTANTS
  a1 = a1
  a2 = a2
  a3 = a3
  b1 = b1
  A = A
  B = B
  r1 = r1
  r2 = r2
  None = None
  Threads = {a1, a2, a3, b1}
  Procs = {A, B}
  GroupOf <- MCGroupOf
  LeaderOf <- MCLeaderOf
  Roots = {r1, r2, r3}
  Locks = {m}
  MaxSeq = 3
  c1 = c1
  c2 = c2
  Targets = {"event", "reader", "writer"}
  Waiters = {c1, c2}
  Workloads <- PipeOrEvent
  NWatches = 2
  Capacities = {1}
  Full = 2
  MaxGen = 3
  NoWatch = NoWatch
  t1 = t1
  t2 = t2
  t3 = t3
  Null = Null
  Tids = {t1, t2, t3}
  Leader = t1
  Sigs = {9, 10, 17}
  DefaultIgnored = {17}
  Programs <- MCPrograms
  Frames = {1}
  Fds = {1}
  MaxSlots = 2
  NoTimer = NoTimer
  Timers = {1}
  MaxTime = 9
  MaxNow = 8
  MaxReads = 3
  Values = {0, 1, 3, 9}
  Intervals = {0, 1, 2, 9}
SYMMETRY Alike
CHECK_DEADLOCK FALSE
INVARIANTS QueuedAreBlocked NobodyStranded OwnersAlive RegistrationsCurrent
  EdgesKept NothingOverlooked MasksExact DeliveredAtReturn ExpirationsExact
