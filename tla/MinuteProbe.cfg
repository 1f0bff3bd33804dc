SPECIFICATION Spec
CONSTANTS
  a = a
  b = b
  Code = {a, b}
  Trades <- Days
  Starts = {38, 52}
  MaxLag = 5
  Endpoints = 2
  MaxTroubles = 1
INVARIANTS VerifiedIsTrue AttributedIsTrue EvidenceVerifies
CHECK_DEADLOCK FALSE
