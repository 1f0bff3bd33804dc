--------------------------- MODULE BacktestEngine ---------------------------
(* What a backtest computes of a prepared dataset: BacktestEngine.run and  *)
(* simulate_exit (backtest/backtest_engine.py), what they ask of           *)
(* LocalCsvHistoricalDataProvider and DailyProxyPolicy, the filters, the   *)
(* score and the risk check they apply; and how a preparation derives the  *)
(* dataset from a history of bars (backtest/data_preparation.py).          *)
(*                                                                         *)
(* Days are numbered and so are prices, in units of which a hundredth is   *)
(* still exact in what a sale is compared with.  What the filters and the  *)
(* risk check ask of a day alone (ST, limit up, price, turnover, amount,   *)
(* market value, unknown safety fields and so on) is one flag of its bar,  *)
(* fit; the parts of the score that come from neither prices nor volumes   *)
(* (market, theme, capital, risk; turnover and amount) are two numbers.    *)
(* Costs and the equity they add up to are left out: the amount planned    *)
(* for an order is the configured largest one.                             *)
EXTENDS Integers, FiniteSets, FiniteSetsExt

CONSTANTS Stock,
          LastDate,      \* the days are 1..LastDate
          BaseScore,    \* [Stock -> Nat]: market, theme, capital and risk score, each
                        \* with its weight, in hundredths of a point of the total
          VolumeBase,   \* [Stock -> Nat]: points of _price_volume_score that the
                        \* selection row does not move
          MinScore,     \* min_total_score, in hundredths of a point
          Affordable,   \* highest price at which the planned amount buys a lot
          NoRow, NoPosition

ASSUME EngineAssumption ==
  /\ Stock # {} /\ IsFiniteSet(Stock)
  /\ LastDate \in 1..5             \* the longest window of a mean, so none is full
  /\ NoPosition \notin [code : Stock, buy : 1..LastDate, price : Nat, held : Nat]
  /\ {BaseScore, VolumeBase} \subseteq [Stock -> Nat]
  /\ MinScore \in Nat /\ Affordable \in Nat

Date == 1..LastDate
Assumptions == {"conservative", "optimistic", "close_based"}

(* ------------------------------ preparation ----------------------------- *)

RowsUntil(bars, c, d) == {e \in Date : e <= d /\ bars[c][e] # NoRow}

SumOfCloses(bars, c, days) == SumFunctionOnSet([e \in days |-> bars[c][e].close], days)

\* _normalize_rows of bars that bring no change of their own: the close before
\* and the mean of the closes up to the day.
DailyRow(bars, c, d) ==
  LET known == RowsUntil(bars, c, d)
      earlier == known \ {d}
      bar == bars[c][d]
  IN  IF bar = NoRow THEN NoRow
      ELSE [prior |-> IF earlier = {} THEN 0 ELSE bars[c][Max(earlier)].close,
            mean |-> SumOfCloses(bars, c, known) \div Cardinality(known),
            open |-> bar.open, high |-> bar.high, low |-> bar.low, close |-> bar.close,
            locked |-> bar.locked, suspended |-> bar.suspended, fit |-> bar.fit]

\* round(a / b, 4), in ten-thousandths.
RoundedTo4(a, b) == (20000 * a + b) \div (2 * b)

\* _calculate_range_position; where the day has no range, the proxy of candidate_view.
RangePosition(bar) ==
  IF bar.high <= bar.low THEN 0 ELSE RoundedTo4(bar.close - bar.low, bar.high - bar.low)

SumOfVolumes(bars, c, days) == SumFunctionOnSet([e \in days |-> bars[c][e].volume], days)

RatioTo(bars, c, d, days) ==
  LET total == SumOfVolumes(bars, c, days)
  IN  IF total = 0 THEN 10000 ELSE RoundedTo4(bars[c][d].volume * Cardinality(days), total)

\* mutant: volumes of any day
VolRatioOfAll(bars, c, d) == RatioTo(bars, c, d, RowsUntil(bars, c, LastDate) \ {d})

\* _calculate_vol_ratio of the day's volume to the mean of those before; without
\* any, the proxy of candidate_view.
VolRatio(bars, c, d) == RatioTo(bars, c, d, RowsUntil(bars, c, d) \ {d})

SelectionRow(bars, c, d) ==
  IF bars[c][d] = NoRow THEN NoRow
  ELSE [vol_ratio |-> VolRatio(bars, c, d), range_position |-> RangePosition(bars[c][d])]

MarketRow(direction) == CASE direction = "up" -> "PASS"
                          [] direction = "down" -> "FAIL"
                          [] OTHER -> NoRow

\* The four tables a preparation makes of a history.
Prepared(h) ==
  [daily_bars |-> [c \in Stock |-> [d \in Date |-> DailyRow(h.bars, c, d)]],
   selection_snapshots |-> [c \in Stock |-> [d \in Date |-> SelectionRow(h.bars, c, d)]],
   market_snapshots |-> [d \in Date |-> MarketRow(h.benchmark[d])],
   benchmark_bars |-> h.benchmark]

(* -------------------------------- provider ------------------------------ *)

\* trading_dates
IsTradingDate(t, d) == \E c \in Stock : t.daily_bars[c][d] # NoRow

\* mutant: bars of any day
LastBarOfAll(t, c, d) == t.daily_bars[c][Max(RowsUntil(t.daily_bars, c, LastDate))]

\* bars_until(c, d)[-1]
LastBar(t, c, d) == t.daily_bars[c][Max(RowsUntil(t.daily_bars, c, d))]

\* market_view: the market row, else the direction of the benchmark, else none.
MarketPasses(t, d) == \/ t.market_snapshots[d] = "PASS"
                      \/ t.market_snapshots[d] = NoRow /\ t.benchmark_bars[d] = "up"

(* ------------------------------- selection ------------------------------ *)

\* initial_filter with the bounds 3 % and 7 % of config.yaml; without a
\* close before, the change is unknown and counts as zero.
ChangeInRange(row) ==
  /\ row.prior # 0
  /\ 100 * (row.close - row.prior) >= 3 * row.prior
  /\ 100 * (row.close - row.prior) <= 7 * row.prior

Clamp(points) == IF points > 100 THEN 100 ELSE IF points < 0 THEN 0 ELSE points

\* _price_volume_score
PriceVolumeScore(row, c) ==
  Clamp(VolumeBase[c] + (IF row.vol_ratio >= 12000 THEN 20
                         ELSE IF row.vol_ratio >= 10000 THEN 10 ELSE -30)
                      + (IF row.range_position >= 6500 THEN 15 ELSE -10))

\* _trend_score of at most five bars, whose three means are one.
TrendScore(last) == IF last.close > last.mean THEN 75 ELSE 28

\* score_stock, in hundredths of a point.
Score(t, c, d) == BaseScore[c] + 25 * PriceVolumeScore(t.selection_snapshots[c][d], c)
                               + 20 * TrendScore(LastBar(t, c, d))

\* Candidates that the filters and evaluate_buy let pass.
Buyable(t, d) ==
  {c \in Stock : LET row == t.daily_bars[c][d] IN
                  /\ row # NoRow
                  /\ row.fit /\ ~row.suspended /\ ChangeInRange(row)
                  /\ t.selection_snapshots[c][d].vol_ratio >= 10000
                  /\ Score(t, c, d) >= MinScore}

\* rank_scored: theme rank and amount decide a tie, here by what no bar moves.
Best(t, d) ==
  CHOOSE c \in Buyable(t, d) :
    \A other \in Buyable(t, d) \ {c} :
      \/ Score(t, c, d) > Score(t, other, d)
      \/ Score(t, c, d) = Score(t, other, d) /\ BaseScore[c] >= BaseScore[other]

(* --------------------------------- exit --------------------------------- *)

\* mutant: no gaps, a trigger is hit at its own price
SellPriceNoGap(buy, bar, assumption) ==
  LET profit == 103 * buy
      stop == 97 * buy
      hitProfit == 100 * bar.high >= profit
      hitStop == 100 * bar.low <= stop
      both == CASE assumption = "optimistic" -> profit
                [] assumption = "close_based" -> 100 * bar.close
                [] OTHER -> stop
  IN  IF hitProfit /\ hitStop THEN both
      ELSE IF hitStop THEN stop
      ELSE IF hitProfit THEN profit
      ELSE 100 * bar.close

\* simulate_exit, in hundredths of a price.
SellPrice(buy, bar, assumption) ==
  LET profit == 103 * buy
      stop == 97 * buy
      open == 100 * bar.open
      hitProfit == 100 * bar.high >= profit
      hitStop == 100 * bar.low <= stop
      both == CASE assumption = "optimistic" -> profit
                [] assumption = "close_based" -> 100 * bar.close
                [] OTHER -> stop
  IN  IF open >= profit \/ open <= stop THEN open
      ELSE IF hitProfit /\ hitStop THEN both
      ELSE IF hitStop THEN stop
      ELSE IF hitProfit THEN profit
      ELSE 100 * bar.close

(* ------------------------------- simulation ----------------------------- *)

Skip(s, d, why) == [s EXCEPT !.skipped = @ \union {<<d, why>>}]

\* The exit of day d: the bar of a later day than the purchase's, if any.
AfterExit(t, s, d, assumption) ==
  IF s.position = NoPosition THEN s
  ELSE LET p == s.position
           bar == t.daily_bars[p.code][d]
       IN  IF bar = NoRow THEN s
           ELSE IF bar.locked
             THEN Skip([s EXCEPT !.position.held = @ + 1], d, "limit_down_exit_risk")
           ELSE [s EXCEPT !.position = NoPosition,
                          !.trades = @ \union
                            {[code |-> p.code, buy |-> p.buy, price |-> p.price, sell |-> d,
                              held |-> p.held + 1,
                              sold |-> SellPrice(p.price, bar, assumption)]}]

\* The selection of day d, unless a position is still held.
AfterSelection(t, s, d) ==
  IF s.position # NoPosition THEN s
  ELSE IF ~MarketPasses(t, d) THEN Skip(s, d, "market")
  ELSE IF Buyable(t, d) = {} THEN Skip(s, d, "no_buy_candidate")
  ELSE LET c == Best(t, d)
           price == LastBar(t, c, d).close
       IN  IF price > Affordable THEN Skip(s, d, "board_lot_not_affordable")
           ELSE [s EXCEPT !.position = [code |-> c, buy |-> d, price |-> price, held |-> 0]]

Start == [position |-> NoPosition, trades |-> {}, skipped |-> {}]

\* What the run knows after each day; a position still open at the end is
\* not reported.
Simulation(t, assumption) ==
  LET after[d \in 0..LastDate] ==
        IF d = 0 THEN Start
        ELSE IF ~IsTradingDate(t, d) THEN after[d - 1]
        ELSE AfterSelection(t, AfterExit(t, after[d - 1], d, assumption), d)
  IN  after
=============================================================================
