SPECIFICATION FreezeSpec
CONSTANTS
  c1 = c1
  c2 = c2
  Controller = {c1, c2}
  d1 = d1
  d2 = d2
  Directory = {d1, d2}
  N = 2
  MaxFaults = 3
  NoController = NoController
  NoAnchors = NoAnchors
SYMMETRY Symmetry
INVARIANTS SuccessVerifies RejectedStaysRejected
PROPERTIES ImplementsSingleUse
CHECK_DEADLOCK FALSE
