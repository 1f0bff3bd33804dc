------------------------- MODULE PositionAccounting -------------------------
(***************************************************************************)
(* summarize_order_rows (overnight_quant/data/position_accounting.py): the *)
(* positions a ledger of fills amounts to.  Rows are replayed in the order *)
(* of the TEXT of their trade time, rows with the same text in file order. *)
(* Money is left out: quantities decide every branch of the replay.        *)
(***************************************************************************)
EXTENDS Integers, FiniteSetsExt

CONSTANTS PerDay,    \* trade times in a day are numbered 0 .. PerDay - 1
          NoStamp,   \* the empty trade time
          NoTicket   \* ticket of a row that has none

ASSUME DayAssumption == PerDay \in Nat \ {0}

(* A trade time has a day, a time of day and a form: "space" and "T" name  *)
(* what separates date from time, and are both parsed; "short" is a time   *)
(* without its date, which is not.  As text " " sorts before "T", and a    *)
(* short or empty time before every dated one.                             *)
Parsed(t)  == t # NoStamp /\ t.form # "short"
Instant(t) == PerDay * t.day + t.at

TextKey(t) ==
  IF t = NoStamp THEN -PerDay - 1
  ELSE IF t.form = "short" THEN t.at - PerDay
  ELSE PerDay * (2 * t.day + IF t.form = "T" THEN 1 ELSE 0) + t.at

ReplayedBefore(x, y) ==
  \/ TextKey(x.time) < TextKey(y.time)
  \/ TextKey(x.time) = TextKey(y.time) /\ x.n < y.n

EmptyPosition == [open |-> 0, bought |-> 0, sold |-> 0, cycleSold |-> 0,
                  lastBuy |-> NoStamp, source |-> NoTicket, raised |-> FALSE]

(* mutant: a new holding keeps the sales of the one before                 *)
ApplyBuyNoReset(p, row) ==
  [p EXCEPT !.bought = @ + row.qty,
            !.open = @ + row.qty,
            !.lastBuy = row.time,
            !.source = IF row.ticket = NoTicket THEN @ ELSE row.ticket,
            !.raised = @ \/ p.open + row.qty = 0]

(* A BUY that brings an oversold position to zero divides by zero.         *)
ApplyBuy(p, row) ==
  [p EXCEPT !.cycleSold = IF p.open = 0 THEN 0 ELSE @,
            !.bought = @ + row.qty,
            !.open = @ + row.qty,
            !.lastBuy = row.time,
            !.source = IF row.ticket = NoTicket THEN @ ELSE row.ticket,
            !.raised = @ \/ p.open + row.qty = 0]

(* The first row replayed, even a SELL, gives the position its ticket.     *)
ApplySell(p, row) ==
  [p EXCEPT !.sold = @ + row.qty,
            !.open = @ - row.qty,
            !.cycleSold = @ + row.qty,
            !.source = IF p.bought + p.sold = 0 THEN row.ticket ELSE @]

Apply(p, row) == IF row.side = "BUY" THEN ApplyBuy(p, row) ELSE ApplySell(p, row)

LastReplayed(S) == CHOOSE x \in S : \A y \in S \ {x} : ReplayedBefore(y, x)

(* The position after replaying each set of the rows of one code.          *)
Replay(own) ==
  LET after[S \in SUBSET own] ==
        IF S = {} THEN EmptyPosition
        ELSE Apply(after[S \ {LastReplayed(S)}], LastReplayed(S))
  IN  after

Position(rows, code) == LET own == {row \in rows : row.code = code} IN Replay(own)[own]

Status(p) ==
  IF p.open < 0 \/ p.sold > p.bought THEN "ERROR_OVER_SOLD"
  ELSE IF p.open > 0 THEN (IF p.cycleSold > 0 THEN "PARTIALLY_CLOSED" ELSE "OPEN")
  ELSE IF p.bought > 0 THEN "CLOSED"
  ELSE "OPEN"

(* The same, defined from the rows alone: what is held after row x, and    *)
(* whether anything was sold since the code was last not held.             *)
HeldAfter(rows, x) ==
  MapThenSumSet(LAMBDA y : IF y.side = "BUY" THEN y.qty ELSE -y.qty,
                {y \in rows : y.code = x.code /\ (y = x \/ ReplayedBefore(y, x))})

SoldSinceFlat(rows, code) ==
  \E s \in rows : /\ s.code = code /\ s.side = "SELL"
                  /\ \A x \in rows : x.code = code /\ ~ReplayedBefore(x, s) =>
                       HeldAfter(rows, x) # 0

(* One position that cannot be computed makes the whole summary raise.     *)
SummaryRaises(rows) == \E row \in rows : Position(rows, row.code).raised
=============================================================================
