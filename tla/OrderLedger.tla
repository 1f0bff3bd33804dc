----------------------------- MODULE OrderLedger ----------------------------
(***************************************************************************)
(* The ledger of manual fills, records/manual_orders.csv:                  *)
(* record_manual_order and record_position_update                          *)
(* (overnight_quant/execution/order_recorder.py), run as processes by the  *)
(* command line and the dashboard, and reset_real_state.                   *)
(*                                                                         *)
(* A recorder looks up a ticket, reads the ledger and validates, reads the *)
(* ledger again, truncates it, writes it out and then writes its reports;  *)
(* nothing locks the file.  The ledger is a set of rows numbered in file   *)
(* order.  Prices, names and amounts only decide whether a request is      *)
(* refused.                                                                *)
(***************************************************************************)
EXTENDS PositionAccounting

CONSTANTS Recorder,    \* processes that record fills
          Code,        \* stock codes
          Day,         \* trading days
          Form,        \* the forms of trade time in use
          Kind,        \* "order": against a ticket; "update": without one
          Qty,         \* quantities, in lots
          TicketAt,    \* time of day at which a ticket is generated
          HasLegacy,   \* whether a ledger may start with a demo row
          NoRequest,
          Explored(_, _, _)  \* bound of the model: the rows given to the ledger
                             \* since a reset, the tickets and a request that
                             \* may be submitted next

ASSUME LedgerAssumption ==
  /\ Day \subseteq Nat /\ Qty \subseteq Nat \ {0}
  /\ NoTicket \notin Day
  /\ Kind \subseteq {"order", "update"}
  /\ Form \subseteq {"space", "T", "short"}
  /\ HasLegacy \in BOOLEAN
  /\ Code # {} /\ Qty # {}
  /\ NoStamp \notin [day : Day, at : 0..PerDay - 1, form : Form]

VARIABLES rows,       \* manual_orders.csv
          tickets,    \* <<code, day>> of the ticket files on disk
          pc, request, ticket, kept,   \* the locals of each recorder
          resetting,  \* reset_real_state removed the ledger, not yet the tickets
          filed,      \* history: rows put into the ledger since the last reset
          torn        \* history: a recorder died with the ledger truncated

locals == <<pc, request, ticket, kept>>
vars   == <<rows, tickets, locals, resetting, filed, torn>>

Stamps   == [day : Day, at : 0..PerDay - 1, form : Form]
Sides    == {"BUY", "SELL"}
Requests == [kind : Kind, code : Code, side : Sides, qty : Qty, time : Stamps]

(* A demo row from before rows carried a ticket or a trade time.           *)
Legacy == [n |-> 0, code |-> CHOOSE c \in Code : TRUE, side |-> "BUY",
           qty |-> CHOOSE q \in Qty : TRUE, time |-> NoStamp, ticket |-> NoTicket]

Init == /\ rows \in {{}} \union IF HasLegacy THEN {{Legacy}} ELSE {}
        /\ tickets \in SUBSET (Code \X Day)
        /\ pc = [r \in Recorder |-> "idle"]
        /\ request = [r \in Recorder |-> NoRequest]
        /\ ticket = [r \in Recorder |-> NoTicket]
        /\ kept = [r \in Recorder |-> {}]
        /\ resetting = FALSE
        /\ filed = rows
        /\ torn = FALSE

-----------------------------------------------------------------------------
(* Tickets.                                                                *)

TicketsOf(code) == {d \in Day : <<code, d>> \in tickets}

LatestTicket(code) ==
  IF TicketsOf(code) = {} THEN NoTicket
  ELSE CHOOSE d \in TicketsOf(code) : \A e \in TicketsOf(code) : e <= d

(* find_order_ticket: a SELL prefers the ticket its open position came     *)
(* from; then the ticket of the trade's day; then the latest one.          *)
FindTicket(q) ==
  LET p == Position(rows, q.code)
  IN  IF q.side = "SELL" /\ p.open > 0 /\ p.source \in TicketsOf(q.code) THEN p.source
      ELSE IF Parsed(q.time) /\ q.time.day \in TicketsOf(q.code) THEN q.time.day
      ELSE LatestTicket(q.code)

-----------------------------------------------------------------------------
(* The steps of a recorder.                                                *)

Goto(r, from, to) == pc[r] = from /\ pc' = [pc EXCEPT ![r] = to]

Ends(r) == /\ pc' = [pc EXCEPT ![r] = "idle"]
           /\ request' = [request EXCEPT ![r] = NoRequest]
           /\ ticket' = [ticket EXCEPT ![r] = NoTicket]
           /\ kept' = [kept EXCEPT ![r] = {}]

Submit(r) ==
  /\ Goto(r, "idle", "lookup")
  /\ ~resetting
  /\ \E q \in Requests : /\ Explored(filed, tickets, q)
                         /\ request' = [request EXCEPT ![r] = q]
  /\ UNCHANGED <<rows, tickets, ticket, kept, resetting, filed, torn>>

(* A SELL reads the positions to find its ticket: the summary may raise.   *)
Lookup(r) ==
  LET q == request[r]
      raises == q.kind = "order" /\ q.side = "SELL" /\ SummaryRaises(rows) IN
  /\ pc[r] = "lookup"
  /\ \/ raises /\ Ends(r)
     \/ /\ ~raises
        /\ ticket' = [ticket EXCEPT ![r] = IF q.kind = "order" THEN FindTicket(q)
                                           ELSE NoTicket]
        /\ Goto(r, "lookup", "validate")
        /\ UNCHANGED <<request, kept>>
  /\ UNCHANGED <<rows, tickets, resetting, filed, torn>>

(* A ticketed BUY is not earlier than its ticket, and the first for it.    *)
TicketAllows(q, d) ==
  q.kind = "order" =>
    /\ d # NoTicket
    /\ q.side = "BUY" =>
         /\ Parsed(q.time) => Instant(q.time) >= PerDay * d + TicketAt
         /\ ~\E x \in rows : x.side = "BUY" /\ x.code = q.code /\ x.ticket = d

(* mutant: the fill's own time is not compared with the last BUY's         *)
PositionAllowsAnyTime(q) ==
  q.side = "SELL" => LET p == Position(rows, q.code) IN 0 < p.open /\ q.qty <= p.open

(* mutant: what is open is not compared                                    *)
PositionAllowsAnyQty(q) ==
  q.side = "SELL" =>
    LET p == Position(rows, q.code) IN
    /\ p.open > 0
    /\ Parsed(q.time) /\ Parsed(p.lastBuy) => Instant(q.time) > Instant(p.lastBuy)

(* A SELL needs an open position as large, last bought strictly before.    *)
PositionAllows(q) ==
  q.side = "SELL" =>
    LET p == Position(rows, q.code) IN
    /\ p.open > 0
    /\ q.qty <= p.open
    /\ Parsed(q.time) /\ Parsed(p.lastBuy) => Instant(q.time) > Instant(p.lastBuy)

Validate(r) ==
  LET q == request[r] IN
  /\ pc[r] = "validate"
  /\ \/ Ends(r)                   \* price, amount, lot or code refused, or raised
     \/ /\ ~(q.side = "SELL" /\ SummaryRaises(rows))
        /\ q.kind = "update" => Parsed(q.time)
        /\ TicketAllows(q, ticket[r])
        /\ PositionAllows(q)
        /\ Goto(r, "validate", "append")
        /\ UNCHANGED <<request, ticket, kept>>
  /\ UNCHANGED <<rows, tickets, resetting, filed, torn>>

(* mutant: ticketed rows count as placeholders too                         *)
PlaceholderIgnoringTicket(x, q) == x.side = "BUY" /\ x.code = q.code /\ q.side = "BUY"

(* _is_legacy_demo_placeholder_for_ticket: what an incoming BUY replaces.  *)
IsPlaceholder(x, q) ==
  x.ticket = NoTicket /\ x.side = "BUY" /\ x.code = q.code /\ q.side = "BUY"

(* append_manual_order reads the ledger again ...                          *)
Reread(r) ==
  /\ Goto(r, "append", "truncate")
  /\ kept' = [kept EXCEPT ![r] = {x \in rows : ~IsPlaceholder(x, request[r])}]
  /\ UNCHANGED <<rows, tickets, request, ticket, resetting, filed, torn>>

(* ... opens it with mode "w" ...                                          *)
Truncate(r) ==
  /\ Goto(r, "truncate", "write")
  /\ rows' = {}
  /\ UNCHANGED <<tickets, request, ticket, kept, resetting, filed, torn>>

NewRow(r, n) == [n |-> n, code |-> request[r].code, side |-> request[r].side,
                 qty |-> request[r].qty, time |-> request[r].time, ticket |-> ticket[r]]

(* ... and writes the rows kept and the new one.                           *)
Write(r) ==
  /\ Goto(r, "write", "report")
  /\ LET row == NewRow(r, 1 + Cardinality(filed))
     IN  /\ rows' = kept[r] \union {row}
         /\ filed' = filed \union {row}
  /\ UNCHANGED <<tickets, request, ticket, kept, resetting, torn>>

(* The lifecycle and review reports read the positions and change nothing; *)
(* when the summary raises, the caller sees an error for a stored fill.    *)
Report(r) ==
  /\ pc[r] = "report"
  /\ Ends(r)
  /\ UNCHANGED <<rows, tickets, resetting, filed, torn>>

Crash(r) ==                   \* killed, or timed out by the dashboard
  /\ pc[r] \notin {"idle", "report"}
  /\ torn' = (torn \/ pc[r] = "write")
  /\ Ends(r)
  /\ UNCHANGED <<rows, tickets, resetting, filed>>

(* reset_real_state: the files in the order of their paths, records first. *)
(* The operator resets between fills.                                      *)
ResetRows ==
  /\ \A r \in Recorder : pc[r] = "idle"
  /\ ~resetting
  /\ filed # {}
  /\ rows' = {}
  /\ filed' = {}
  /\ torn' = FALSE
  /\ resetting' \in BOOLEAN    \* FALSE: it died before the tickets
  /\ UNCHANGED <<tickets, locals>>

ResetTickets ==
  /\ resetting
  /\ tickets' = {}
  /\ resetting' = FALSE
  /\ UNCHANGED <<rows, locals, filed, torn>>

Next == \/ \E r \in Recorder : \/ Submit(r) \/ Lookup(r) \/ Validate(r) \/ Reread(r)
                               \/ Truncate(r) \/ Write(r) \/ Report(r) \/ Crash(r)
        \/ ResetRows
        \/ ResetTickets

Spec == Init /\ [][Next]_vars

-----------------------------------------------------------------------------
(* Properties.                                                             *)

Row == [n : Nat, code : Code, side : Sides, qty : Qty,
        time : Stamps \union {NoStamp}, ticket : Day \union {NoTicket}]

(* Every variable keeps its type.                                          *)
TypeOK ==
  /\ rows \subseteq Row /\ filed \subseteq Row /\ IsFiniteSet(filed)
  /\ tickets \subseteq Code \X Day
  /\ pc \in [Recorder -> {"idle", "lookup", "validate", "append", "truncate", "write",
                          "report"}]
  /\ request \in [Recorder -> Requests \union {NoRequest}]
  /\ \A r \in Recorder : pc[r] # "idle" => request[r] \in Requests
  /\ ticket \in [Recorder -> Day \union {NoTicket}]
  /\ kept \in [Recorder -> SUBSET Row]
  /\ resetting \in BOOLEAN /\ torn \in BOOLEAN

Holding(c) == Position(rows, c)

SameTicketBuy(x, y) ==
  /\ x.side = "BUY" /\ y.side = "BUY"
  /\ x.code = y.code /\ x.ticket = y.ticket /\ x.ticket # NoTicket

OneBuyEach(S) == \A x, y \in S : SameTicketBuy(x, y) => x = y

(* A ticket is bought at most once, over any number of fills, refusals,    *)
(* crashes and resets.                                                     *)
OneBuyPerTicket == OneBuyEach(rows)

(* A fill recorded against a ticket stays in the ledger, unless the        *)
(* operator resets it or a recorder dies while the file is truncated.      *)
TicketedFillsKept ==
  ~torn /\ (\A r \in Recorder : pc[r] # "write") =>
    \A x \in filed : x.ticket # NoTicket => x \in rows

(* All the ledger was given are fills against tickets, in one form of time. *)
Plain == \A x \in filed : x.ticket # NoTicket /\ x.time.form = "space"

(* No sequence of accepted fills against tickets, in one form of trade     *)
(* time, leaves a position sold beyond what was bought.                    *)
NeverOverSold == Plain => \A c \in Code : Status(Holding(c)) # "ERROR_OVER_SOLD"

(* Selling everything that was bought closes the position.                 *)
FullSellCloses ==
  \A c \in Code : Holding(c).bought > 0 /\ Holding(c).bought = Holding(c).sold =>
    ~Holding(c).raised /\ Status(Holding(c)) = "CLOSED"

(* The caller of a fill stored in such a ledger gets its reports.          *)
StoredFillReported ==
  Plain => \A r \in Recorder : pc[r] = "report" => ~SummaryRaises(rows)

(* The replay agrees with the history it replays, whatever its order.      *)
ReplayMatchesHistory ==
  \A c \in Code :
    LET last == {x \in rows : x.code = c /\ \A y \in rows : y.code = c =>
                                              y = x \/ ReplayedBefore(y, x)}
        p == Holding(c)
    IN  /\ \A x \in last : p.open = HeldAfter(rows, x)
        /\ Status(p) = "PARTIALLY_CLOSED" => SoldSinceFlat(rows, c)
        /\ Status(p) = "OPEN" => ~SoldSinceFlat(rows, c)
-----------------------------------------------------------------------------
(* The inductive strengthening of OneBuyPerTicket and TicketedFillsKept.   *)

Appending == {"append", "truncate", "write"}

(* What a recorder about to append still knows: its request is a first BUY *)
(* among the rows it will write back.                                      *)
RequestInv ==
  \A r \in Recorder :
    /\ pc[r] = "idle" => ticket[r] = NoTicket
    /\ pc[r] \in {"validate"} \union Appending /\ ticket[r] # NoTicket =>
         request[r].kind = "order"
    /\ pc[r] \in Appending /\ request[r].side = "BUY" /\ ticket[r] # NoTicket =>
         \A x \in (IF pc[r] = "append" THEN rows ELSE kept[r]) :
           ~(x.side = "BUY" /\ x.code = request[r].code /\ x.ticket = ticket[r])

KeptInv ==
  /\ OneBuyEach(rows)
  /\ \A r \in Recorder : pc[r] \in {"truncate", "write"} => OneBuyEach(kept[r])

FiledInv ==
  ~torn => \A x \in filed : x.ticket # NoTicket =>
    \/ /\ x \in rows
       /\ \A r \in Recorder : /\ pc[r] # "write"
                              /\ pc[r] = "truncate" => x \in kept[r]
    \/ \E r \in Recorder : pc[r] = "write" /\ x \in kept[r]

LedgerInv == TypeOK /\ RequestInv /\ KeptInv /\ FiledInv
=============================================================================
