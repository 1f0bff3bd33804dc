SPECIFICATION Spec
CONSTANTS
  NoValue = NoValue
  Nobody = Nobody
  Torn = Torn
  Today = 3
  MinMinuteBars = 1
  MinDailyBars = 2
  p1 = p1
  p2 = p2
  Process = {p1, p2}
  Input <- Inputs
  rowsOf <- Rows
  statusOf <- Statuses
  contractOf <- Contracts
  MaxRuns = 3
SYMMETRY Symmetry
INVARIANTS FutureDecidesNothing FirstFreezeStands DecidesAsFrozen AuditKept OrderIrrelevant
CHECK_DEADLOCK FALSE
