SPECIFICATION FairSpec
CONSTANTS
  c1 = c1
  c2 = c2
  Click = {c1, c2}
  NoClick = NoClick
  NoTime = NoTime
  TotalBudget = 2
  WorkerBudget = 1
  MinDispatch = 0
  Interval = 2
  MaxTime = 3
INVARIANTS CallerToldTruth
PROPERTIES EveryClickEnds CooldownRespected ImplementsSingleFlight
CHECK_DEADLOCK FALSE
