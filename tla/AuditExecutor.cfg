SPECIFICATION FairSpec
CONSTANTS
  Job = {1, 2, 3}
  h1 = h1
  h2 = h2
  Host = {h1, h2}
  MAX_WORKERS = 2
  HOST_INTERVAL = 1
  REQUEST = 2
  FREEZE = 1
  CLEANUP = 1
  e1 = e1
  Executor = {e1}
  Plan <- Chain
  Deadline = 7
  MaxClock = 7
  SubmitFails = TRUE
  NoExecutor = NoExecutor
  NoJob = NoJob
INVARIANTS HostSpaced ReportComplete NoResidualWorker
PROPERTIES BatchEnds
CHECK_DEADLOCK FALSE
