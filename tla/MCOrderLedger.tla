---------------------------- MODULE MCOrderLedger ---------------------------
(* The histories of fills that are explored for OrderLedger.               *)
EXTENDS OrderLedger

\* Fills against tickets in one form of trade time, up to four of them.
PlainHistory(given, q) ==
  /\ Cardinality(given) < 4
  /\ \A x \in given : x.ticket # NoTicket /\ x.time.form = "space"
  /\ q.kind = "order" /\ q.time.form = "space"

\* Fills of one lot on two days in any mixture, up to three of them.
MixedHistory(given, offered, q) ==
  LET new == given \ {Legacy} IN
  /\ Cardinality(new) < 3
  /\ offered \subseteq Code \X {1, 2}
  /\ \A x \in new \union {q} : x.qty = 1 /\ x.time.day \in {1, 2}

PlainOrMixed(given, offered, q) == PlainHistory(given, q) \/ MixedHistory(given, offered, q)

UpToThree(given, offered, q) == Cardinality(given) < 3
=============================================================================
