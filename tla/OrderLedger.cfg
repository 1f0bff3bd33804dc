SPECIFICATION Spec
CONSTANTS
  PerDay = 2
  NoStamp = NoStamp
  NoTicket = NoTicket
  NoRequest = NoRequest
  r1 = r1
  Recorder = {r1}
  c1 = c1
  Code = {c1}
  Day = {1, 2, 3}
  Form = {"space", "T", "short"}
  Kind = {"order", "update"}
  Qty = {1, 2}
  TicketAt = 1
  HasLegacy = TRUE
  Explored <- PlainOrMixed
INVARIANTS NeverOverSold StoredFillReported TicketedFillsKept ReplayMatchesHistory
CHECK_DEADLOCK FALSE
