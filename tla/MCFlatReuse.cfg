\* One task creates and waits, on a heap that reuses freed addresses; tasks access memory.
SPECIFICATION Spec
CONSTANTS
  i = i  r = r  s = s  q = q  a = a  b = b  c = c  x = x  y = y  m = m
  h1 = h1  h2 = h2  h3 = h3  h4 = h4  h5 = h5
  NoTask = NoTask
  Tasks <- ThreeTasks
  InitialTasks = {}
  Regions <- OneRegion
  UntiedTasks = {}
  Producers <- Region
  Waiters <- Region
  IgnoredSyncs = {}
  Dependents <- FourTasks
  DepAddrs = {x}
  DepTypes <- AllTypes
  MaxDeps = 1
  AntiDeps = TRUE
  Infos <- Heap4
  Reuse = TRUE
  TaskIDs <- SixIDs
  Addresses = {m}
  Values = {0}
  Lines = {1}
  HistoryBound = 2
  CommutingLines = {}
  MaxAccesses = 2
SYMMETRY SymmetryHeap3
INVARIANTS TypeOK NoSpuriousOrder
PROPERTIES CheckerSpec
CHECK_DEADLOCK FALSE
