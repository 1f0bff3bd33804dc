SPECIFICATION FairSpec
CONSTANTS
  p1 = p1
  p2 = p2
  h1 = h1
  Provider = {p1, p2}
  Caller = {p1, p2}
  Host = {h1}
  hostOf <- OneHost
  rank <- Priorities
  HostInterval = 1
  MaxAttempts = 2
  requestsOf <- Requests
  PoolSize = 2
  Second = 2
  Deadlines = {2}
  LastStart = 3
  StartDelay = 0
  MaxRuns = 2
  MaxTime = 4
  NoTime = NoTime
  NoSnapshot = NoSnapshot
INVARIANTS NothingOutlivesCollect PriorityKept
PROPERTIES NoRequestAfterDeadline SnapshotIsFinal CollectEnds
CHECK_DEADLOCK FALSE
