\* Three tasks that access one address more often than its history is long.
SPECIFICATION Spec
CONSTANTS
  t1 = t1  t2 = t2  t3 = t3  x = x
  TaskIDs <- ThreeTasks
  Addresses <- OneAddress
  Values = {0, 1}
  Lines = {1, 2}
  HistoryBound = 2
  CommutingLines <- Line2Commutes
  MaxAccesses = 4
SYMMETRY Symmetry3
INVARIANTS TypeOK HappensBeforeIsOrder BagsCurrent ReportsAreRaces RecentRacesReported
CHECK_DEADLOCK FALSE
