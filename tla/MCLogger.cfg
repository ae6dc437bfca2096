\* Two threads work for up to three tasks; the report shows one address per pair
\* of lines.
SPECIFICATION Spec
CONSTANTS
  main = main  worker = worker  f = f  g = g
  Threads <- Two
  Main = main
  Nobody = Nobody
  Names = {f, g}
  Code <- Program
  TaskIDs = {0, 1, 2}
  MaxAccesses = 2
  MaxShown = 1
  HistoryBound = 1
  CommutingLines = {}
INVARIANTS RegistryConsistent NeverAborts ReportFaithful RacesShown
PROPERTIES CheckerSpec EveryCallReturns
CHECK_DEADLOCK FALSE
