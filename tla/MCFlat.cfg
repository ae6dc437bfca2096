\* One task creates, and waits for, tasks with dependences.
SPECIFICATION Spec
CONSTANTS
  i = i  r = r  s = s  q = q  a = a  b = b  c = c  x = x  y = y  m = m
  h1 = h1  h2 = h2  h3 = h3  h4 = h4  h5 = h5
  NoTask = NoTask
  Tasks <- FourTasks
  InitialTasks = {}
  Regions <- OneRegion
  UntiedTasks = {}
  Producers <- Region
  Waiters <- Region
  IgnoredSyncs = {}
  Dependents <- FourTasks
  DepAddrs = {x, y}
  DepTypes <- InOut
  MaxDeps = 2
  AntiDeps = FALSE
  Infos <- SevenIDs
  Reuse = FALSE
  TaskIDs <- SevenIDs
  Addresses = {m}
  Values = {0}
  Lines = {1}
  HistoryBound = 2
  CommutingLines = {}
  MaxAccesses = 0
SYMMETRY SymmetryDeps4
INVARIANTS NoSpuriousOrder NoMissingOrder TokenOrderKnown
CHECK_DEADLOCK FALSE
