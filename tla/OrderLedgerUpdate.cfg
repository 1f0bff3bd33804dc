SPECIFICATION Spec
CONSTANTS
  PerDay = 2
  NoStamp = NoStamp
  NoTicket = NoTicket
  NoRequest = NoRequest
  r1 = r1
  Recorder = {r1}
  c1 = c1
  Code = {c1}
  Day = {1, 2}
  Form = {"space"}
  Kind = {"update"}
  Qty = {1}
  TicketAt = 1
  HasLegacy = FALSE
  Explored <- UpToThree
INVARIANTS FullSellCloses
CHECK_DEADLOCK FALSE
