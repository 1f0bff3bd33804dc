----------------------------- MODULE MCBacktest -----------------------------
(* Histories of four days for Backtest.                                    *)
EXTENDS Backtest, TLC

CONSTANTS a, b, p1, p2

\* Stock a passes MinScore on a day of strong volume only, stock b on any day
\* that passes; b comes first unless only a's volume is strong.
Bases == [c \in Stock |-> IF c = a THEN 3650 ELSE 3875]
\* 45, 8 for the turnover, 8 for the amount.
Points == [c \in Stock |-> 61]

\* The bar of a kind of day, from the close before it.
Bar(kind, prev) ==
  LET at(pct) == (prev * (100 + pct)) \div 100
      bar(o, h, l, c, v) == [open |-> at(o), high |-> at(h), low |-> at(l), close |-> at(c),
                             volume |-> v, locked |-> FALSE, suspended |-> FALSE, fit |-> TRUE]
  IN  CASE kind = "rise"    -> bar(0, 5, 0, 5, 10)
        [] kind = "quiet"   -> bar(0, 5, 0, 5, 7)
        [] kind = "flat"    -> bar(0, 0, 0, 0, 6)
        [] kind = "wild"    -> bar(0, 6, -6, 4, 9)
        [] kind = "gapup"   -> bar(5, 6, 4, 5, 12)
        [] kind = "gapdown" -> bar(-5, -4, -6, -5, 12)
        [] kind = "locked"  -> [bar(-10, -10, -10, -10, 2) EXCEPT !.locked = TRUE]
        [] kind = "halted"  -> [bar(0, 0, 0, 0, 0) EXCEPT !.suspended = TRUE]

Kinds == {"rise", "quiet", "flat", "wild", "gapup", "gapdown", "locked", "halted", "none"}

\* The bars of a stock whose days are of these kinds, the first one flat.
Bars(kinds, first) ==
  LET close[d \in Date] == IF d = 1 THEN first
                          ELSE IF kinds[d] = "none" THEN close[d - 1]
                          ELSE Bar(kinds[d], close[d - 1]).close
  IN  [d \in Date |-> IF d = 1 THEN Bar("flat", first)
                     ELSE IF kinds[d] = "none" THEN NoRow ELSE Bar(kinds[d], close[d - 1])]

Steady == [d \in Date |-> "rise"]
Silent == [d \in Date |-> "none"]

History(ka, kb, down) ==
  [bars |-> [c \in Stock |-> Bars(IF c = a THEN ka ELSE kb, IF c = a THEN 10000 ELSE 11000)],
   benchmark |-> [d \in Date |-> IF d = down THEN "down" ELSE "up"]]

\* Everything that may befall stock a after the day it first rises, beside a
\* stock that rises, or is not traded; and two preparations of one history.
Scenarios ==
  {[history |-> History([Steady EXCEPT ![3] = k3, ![4] = k4], kb, down),
    assumption |-> how, prepared |-> TRUE, bound |-> 0] :
     k3 \in Kinds, k4 \in Kinds, kb \in {Steady, Silent, [Steady EXCEPT ![3] = "none"]},
     down \in {0, 2, 3}, how \in Assumptions}
  \union
  {[history |-> History(Steady, Steady, 0),
    assumption |-> "conservative", prepared |-> p, bound |-> 2] : p \in BOOLEAN}

Symmetry == Permutations({p1, p2})
=============================================================================
