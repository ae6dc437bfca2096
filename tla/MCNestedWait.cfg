\* A task waits for a child that has created a task of its own.
SPECIFICATION Spec
CONSTANTS
  i = i  r = r  s = s  q = q  a = a  b = b  c = c  x = x  y = y  m = m
  h1 = h1  h2 = h2  h3 = h3  h4 = h4  h5 = h5
  NoTask = NoTask
  Tasks <- ThreeTasks
  InitialTasks = {}
  Regions <- OneRegion
  UntiedTasks = {}
  Producers <- FourTasks
  Waiters <- FourTasks
  IgnoredSyncs = {}
  Dependents <- FourTasks
  DepAddrs = {}
  DepTypes <- InOut
  MaxDeps = 0
  AntiDeps = FALSE
  Infos <- NineIDs
  Reuse = FALSE
  TaskIDs <- NineIDs
  Addresses = {m}
  Values = {0}
  Lines = {1}
  HistoryBound = 2
  CommutingLines = {}
  MaxAccesses = 0
SYMMETRY Symmetry3
INVARIANTS NoMissingOrder
CHECK_DEADLOCK FALSE
