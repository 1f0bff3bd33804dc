-------------------------- MODULE MCSnapshotStore --------------------------
(* Inputs for SnapshotStore: a complete input of one stock, and what can   *)
(* come with it: late, future and repeated rows, refused statuses, rows    *)
(* that make it incomplete, and inputs without a time contract.            *)
EXTENDS SnapshotStore, TLC

CONSTANTS p1, p2

Symmetry == Permutations(Process)

Row(type, event, observed, available) ==
  [type |-> type, code |-> NoValue, event |-> event, observed |-> observed,
   available |-> available, cutoff |-> 70, published |-> NoValue, source |-> 1, raw |-> 1,
   body |-> 1, key |-> NoValue, grade |-> "good", final |-> TRUE, contract |-> NoValue, at |-> 1]

Of(row, code, key) == [row EXCEPT !.code = code, !.key = key]

Quote == Of(Row("quote", -5, -4, -3), 600000, 7)
DayBar(day) == Of(Row("daily_bar", -5, -4, -3), 600000, day)
Complete ==
  { Quote, DayBar(1), DayBar(2),
    Row("market", -5, -4, -3),
    Of(Row("industry", -5, -4, -3), NoValue, 7),
    Of(Row("minute_bar", 0, 5, 6), 600000, NoValue),
    Of(Row("fund_flow", -5, -4, -3), 600000, NoValue),
    Of(Row("trading_calendar", -5, -4, -3), NoValue, {1, 2, Today}) }

Status(types, available, grade) ==
  [Of(Row("source_status", available, -5, available), NoValue, types)
     EXCEPT !.grade = grade, !.body = IF grade = "good" THEN 1 ELSE 0]
NewsCame == Status({"news"}, -3, "good")
NewsFailed == Status({"news"}, 20, "bad")
TooLate == Status({"quote"}, 31, "good")

Verified == TimeContract("minute_end", TRUE)
Pending == TimeContract("unverified", FALSE)

\* The minute bar of the cutoff is there only after the decision of a single cutoff.
NoContractRows ==
  {[r EXCEPT !.observed = IF @ > 0 THEN 0 ELSE @, !.available = IF @ > 0 THEN 0 ELSE @,
             !.contract = Verified] : r \in Complete}

Newer == [Quote EXCEPT !.event = -1, !.observed = -1, !.available = 0, !.body = 2]
Future == [Quote EXCEPT !.event = 1, !.observed = 2, !.available = 3, !.body = 3]
TailMinute == [Of(Row("minute_bar", 0, 5, 31), 600000, NoValue) EXCEPT !.body = 2]
Unadjusted == [DayBar(2) EXCEPT !.available = -2, !.grade = "raw"]

First(rows, row) == {[r EXCEPT !.at = 2] : r \in rows} \union {row}
Last(rows, row) == rows \union {[row EXCEPT !.at = 2]}
Minute0 == Of(Row("minute_bar", 0, 5, 6), 600000, NoValue)

\* Known by the deadline of its own contract, not by a single cutoff.
OwnContract == [Minute0 EXCEPT !.contract = Verified]

Repeated == [Row("market", -5, -4, -3) EXCEPT !.at = 3]

\* 1, 2: the same rows in two orders, one of them twice, a quote of the future and a status
\* refused as too late; 3: rows of the future and incomplete; 4: no contract; 5: nothing in time.
Extra == {Repeated, [Future EXCEPT !.at = 3]}
Rows == <<First(Complete, Newer) \union Extra, Last(Complete, Newer) \union Extra,
          (Complete \ {Minute0}) \union {TailMinute, Future, Unadjusted},
          NoContractRows \union {OwnContract}, {Future}>>
Statuses == <<{NewsCame, TooLate}, {NewsCame, TooLate}, {NewsFailed}, {NewsCame}, {}>>
Contracts == <<Verified, Verified, Pending, NoValue, Verified>>
Inputs == 1..5
=============================================================================
