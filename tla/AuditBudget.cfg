SPECIFICATION BudgetSpec
CONSTANTS
  Job = {1, 2, 3}
  h1 = h1
  h2 = h2
  Host = {h1, h2}
  MAX_WORKERS = 2
  HOST_INTERVAL = 2
  REQUEST = 3
  FREEZE = 1
  CLEANUP = 1
  Durations = {1, 3}
  Plans <- AllPlans
INVARIANTS SerialIsWorst
CHECK_DEADLOCK FALSE
