SPECIFICATION FairSpec
CONSTANTS
  Root = root
  Kids = {kid}
  Budget = 2
  Reserve = 1
  Grace = 1
  HardDeadlines = {1, 2}
  MaxTime = 3
  Noisy = {"stderr"}
  Faults <- AllFaults
  EarlySpawn = FALSE
INVARIANTS OkMeansOver NothingLeftUntold
PROPERTIES CallEnds
CHECK_DEADLOCK FALSE
