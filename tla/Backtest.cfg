SPECIFICATION BacktestSpec
CONSTANTS
  a = a
  b = b
  Stock = {a, b}
  LastDate = 4
  BaseScore <- Bases
  VolumeBase <- Points
  MinScore = 7500
  Affordable = 12500
  p1 = p1
  p2 = p2
  Preparer = {p1, p2}
  Scenario <- Scenarios
  NoRow = NoRow
  NoPosition = NoPosition
  NoFile = NoFile
  None = None
INVARIANTS NothingFromTheFuture TradesAreReal ReportOfOneDataset
SYMMETRY Symmetry
CHECK_DEADLOCK FALSE
