---------------------------- MODULE PointInTime ----------------------------
(* The point-in-time gate of the close confirmation: which rows of an      *)
(* input may be used for a decision, which of several rows for the same    *)
(* thing is kept, and whether what is left is enough to decide on.         *)
(*                                                                         *)
(* Times are seconds from 14:50:00 of the trading day, dates are whole     *)
(* numbers and Today is the trading day.  A row has the fields of the code *)
(* that the rules read; what a payload says is abstracted to "key" (the    *)
(* date of a daily bar, the name of an industry, the industry of a quote,  *)
(* the open days of a calendar, the data types of a source status),        *)
(* "grade" (the checks on its values) and "body" (its hash).  A list is a  *)
(* set of rows that carry their position "at"; the code sorts what it      *)
(* stores by a key that ends with a hash of the row, so a stored list is   *)
(* the set of its rows, at position 0.  The S2 integration records, whose  *)
(* own validator is not modelled, are left out.                            *)
EXTENDS Integers, FiniteSets

CONSTANTS Today,          \* the date of the decision
          MinMinuteBars,  \* MIN_MINUTE_BARS
          MinDailyBars,   \* MIN_DAILY_BARS
          NoValue         \* a field that is absent: a time, a code or a contract

ASSUME PointInTimeAssumption ==
  /\ Today \in Nat /\ {MinMinuteBars, MinDailyBars} \subseteq Nat \ {0}
  /\ NoValue \notin Int

(* ------------------------------ time contract --------------------------- *)

\* The timeline of a day, by what the label of a minute bar means.  Only a
\* label that a probe verified makes the contract verified.
TimeContract(semantics, verified) ==
  LET start == semantics # "minute_end"
  IN [split |-> TRUE, feature |-> 0,
      deadline  |-> IF start THEN 65 ELSE 30,
      decision  |-> IF start THEN 70 ELSE 35,
      notBefore |-> IF start THEN 120 ELSE 60,
      verified  |-> verified /\ semantics \in {"minute_end", "minute_start"}]

\* Without a contract everything is cut off at the decision.
SingleCutoff(d) ==
  [split |-> FALSE, feature |-> d, deadline |-> d, decision |-> d, notBefore |-> d,
   verified |-> FALSE]

ContractOr(contract, d) == IF contract = NoValue THEN SingleCutoff(d) ELSE contract

(* -------------------------- which rows are known ------------------------ *)

\* The contract a row is held to: the snapshot's, else the one written in the
\* row, else the decision.  A source status has none of its own.
ContractOf(r, contract, d) ==
  IF contract # NoValue \/ r.type = "source_status" THEN ContractOr(contract, d)
  ELSE ContractOr(r.contract, d)

\* The row had happened, been observed and been available in time.  The
\* status of a source may be about any time until the collection deadline.
Known(r, d, c) ==
  /\ r.event <= IF r.type = "source_status" THEN c.deadline ELSE c.feature
  /\ r.observed <= c.deadline
  /\ r.available <= c.deadline
  /\ r.observed <= r.available
  /\ d <= r.cutoff
  /\ r.type = "minute_bar" => r.final
  /\ r.type = "news" => /\ r.published # NoValue
                        /\ r.published <= c.feature

\* Flows whose meaning is unproven are refused before their times are read.
Proven(r) == r.type = "fund_flow" => r.grade # "unproven"

Timely(rows, d, contract) ==
  {r \in rows : Proven(r) /\ Known(r, d, ContractOf(r, contract, d))}

(* ------------------------ one row for each thing ------------------------ *)

Minute(t) == t \div 60

\* Rows with one key are about the same thing.
LogicalKey(r) ==
  CASE r.type = "quote"            -> <<r.type, r.code>>
    [] r.type = "industry"         -> <<r.type, r.key>>
    [] r.type = "minute_bar"       -> <<r.type, r.code, Minute(r.event)>>
    [] r.type = "daily_bar"        -> <<r.type, r.code, r.key>>
    [] r.type = "fund_flow"        -> <<r.type, r.code, r.event, r.source>>
    [] r.type = "news"             -> <<r.type, r.published, r.available, r.source, r.raw>>
    [] r.type = "source_status"    -> <<r.type, r.key, r.source, r.available>>
    [] OTHER                       -> <<r.type>>

\* WinnerKeyOfList: the last row of the list wins.
WinnerKeyOfList(r) == <<0, 0, 0, 0, 0, 0, r.at>>

\* What decides between them.  sorted() is stable, so that of equal rows the
\* last one of the list wins; the key of a status ends with a hash of the row.
WinnerKey(r) ==
  IF r.type = "source_status"
  THEN <<r.event, r.available, r.body, r.raw, r.observed, r.cutoff, r.at>>
  ELSE <<r.event, r.available, r.source, r.raw, r.body, 0, r.at>>

Beats(r, q) ==
  LET a == WinnerKey(q)
      b == WinnerKey(r)
  IN \E i \in 1..7 : a[i] < b[i] /\ \A j \in 1..(i - 1) : a[j] = b[j]

Winners(rows) ==
  {r \in rows : \A q \in rows \ {r} : LogicalKey(q) = LogicalKey(r) => Beats(r, q)}

Shelved(r) == [r EXCEPT !.at = 0]
Stored(rows) == {Shelved(r) : r \in rows}

\* AcceptedNewest: the winner is chosen before the times are checked.
AcceptedNewest(rows, d, contract) == Stored(Timely(Winners(rows), d, contract))

\* normalize_point_in_time_records, and filter_source_status_at on status rows.
Accepted(rows, d, contract) == Stored(Winners(Timely(rows, d, contract)))
Rejected(rows, d, contract) == Stored(rows \ Winners(Timely(rows, d, contract)))

(* ---------------------- is it enough to decide on? ---------------------- *)

OfType(rows, type) == {r \in rows : r.type = type}
Ours(rows, type, code) == {r \in rows : r.type = type /\ r.code = code}

\* The open days, and the last of them that is over.
Calendar(rows) == {r \in OfType(rows, "trading_calendar") : r.grade = "good"}
OpenDays(rows) == UNION {r.key : r \in Calendar(rows)}
OverDays(rows) == {day \in OpenDays(rows) : day < Today}
CalendarAvailable(rows) == OverDays(rows) # {}

Codes(rows) ==
  {r.code : r \in {r \in rows : r.type \notin {"market", "industry", "trading_calendar"}}}
    \ {NoValue}

\* A day counts when the calendar names it as over and its bar is a valid,
\* forward adjusted one; a single bar of another adjustment spoils them all.
DailyBarsReady(rows, code) ==
  LET bars == Ours(rows, "daily_bar", code)
  IN /\ \A r \in bars : r.grade # "raw"
     /\ Cardinality({r.key : r \in {r \in bars : r.grade = "good"}} \intersect OverDays(rows))
          >= MinDailyBars

\* A bar must be there for the minute of the feature cutoff itself.
MinuteBarsReady(rows, code, c) ==
  LET minutes == {Minute(r.event) : r \in Ours(rows, "minute_bar", code)}
  IN Cardinality(minutes) >= MinMinuteBars /\ Minute(c.feature) \in minutes

StockReady(rows, code, c) ==
  /\ \E q \in Ours(rows, "quote", code) :
       /\ q.grade = "good"
       /\ \E i \in OfType(rows, "industry") : i.key = q.key /\ i.grade = "good"
  /\ OfType(rows, "market") # {}
  /\ MinuteBarsReady(rows, code, c)
  /\ DailyBarsReady(rows, code)
  /\ CalendarAvailable(rows)
  /\ \E f \in Ours(rows, "fund_flow", code) : f.grade = "good"

Eligible(rows, c) == {code \in Codes(rows) : StockReady(rows, code, c)}

\* An empty answer of a news source that succeeded is an answer.
NewsStatus(rows, status) ==
  LET about == {r \in status : "news" \in r.key}
  IN  IF OfType(rows, "news") # {} THEN "AVAILABLE"
      ELSE IF \E r \in about : r.grade = "good" THEN "AVAILABLE_EMPTY"
      ELSE IF \E r \in about : r.grade = "bad" THEN "FAILED"
      ELSE "MISSING"

DataReady(rows, status, c) ==
  /\ c.split => c.verified
  /\ CalendarAvailable(rows)
  /\ \E m \in OfType(rows, "market") : m.grade = "good"
  /\ NewsStatus(rows, status) \in {"AVAILABLE", "AVAILABLE_EMPTY"}
  /\ Eligible(rows, c) # {}
=============================================================================
