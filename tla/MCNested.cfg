\* Every task creates and waits, on a heap without reuse: main, the tasks of two
\* parallel regions, explicit tasks, of which c is untied.
SPECIFICATION Spec
CONSTANTS
  i = i  r = r  s = s  q = q  a = a  b = b  c = c  x = x  y = y  m = m
  h1 = h1  h2 = h2  h3 = h3  h4 = h4  h5 = h5
  NoTask = NoTask
  Tasks <- SevenTasks
  InitialTasks <- Main
  Regions <- TwoRegions
  UntiedTasks <- LastTask
  Producers <- SevenTasks
  Waiters <- MainAndExplicit
  IgnoredSyncs = {"barrier", "taskgroup"}
  Dependents <- LastTask
  DepAddrs = {x}
  DepTypes <- InOut
  MaxDeps = 1
  AntiDeps = FALSE
  Infos <- SevenIDs
  Reuse = FALSE
  TaskIDs <- SevenIDs
  Addresses = {m}
  Values = {0}
  Lines = {1}
  HistoryBound = 2
  CommutingLines = {}
  MaxAccesses = 0
SYMMETRY SymmetryTeam
INVARIANTS NoSpuriousOrder TokensHaveBags CrashesOnlyForUnknown
CHECK_DEADLOCK FALSE
