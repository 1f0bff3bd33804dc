SPECIFICATION Spec
CONSTANTS
  Never = Never
  Lead = 3
  PrepWork = 1
  PrepHard = 2
  ReadyMargin = 1
  HardMargin = 1
  Io = 1
  Hard = 2
  Reserve = 1
  MaxTime = 5
  Units = 2
  MaxLate = 0
  MaxEarly = 1
  MaxRuns = 2
CHECK_DEADLOCK FALSE

INVARIANTS NetworkOnlyAfterGo VerdictIsTrue SealedIsTrue
PROPERTIES NoLaunchUnconfirmed EveryWaveEnds
