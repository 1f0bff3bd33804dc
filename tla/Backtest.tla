------------------------------ MODULE Backtest ------------------------------
(***************************************************************************)
(* A dataset directory: preparations that write it (prepare_dataset,       *)
(* backtest/data_preparation.py) and a backtest that reads it and reports  *)
(* (run_backtest, LocalCsvHistoricalDataProvider).  Nothing locks the      *)
(* directory; each file is truncated and then written, the manifest last.  *)
(*                                                                         *)
(* A preparation is numbered; a file on disk is known by the preparation   *)
(* that wrote it and by whether the writing came to its end.  Which codes  *)
(* a source answers for is any non-empty set.                              *)
(***************************************************************************)
EXTENDS BacktestEngine, Sequences

CONSTANTS Preparer,   \* processes that prepare
          Scenario,   \* bound of the model: a history, the assumption of the
                      \* backtests, whether a dataset is there at the start,
                      \* and how many are prepared
          NoFile, None

\* A bar of a day's trading; that its prices are within its range the code
\* leaves to the source.
IsBar(bar) ==
  /\ bar \in [open : Nat, high : Nat, low : Nat, close : Nat, volume : Nat,
              locked : BOOLEAN, suspended : BOOLEAN, fit : BOOLEAN]
  /\ bar.low <= bar.open /\ bar.open <= bar.high
  /\ bar.low <= bar.close /\ bar.close <= bar.high

ASSUME HistoryAssumption ==
  \A s \in Scenario : \A c \in Stock, d \in Date :
    s.history.bars[c][d] # NoRow => IsBar(s.history.bars[c][d])

ASSUME FileAssumption == NoFile \notin [by : Nat, whole : BOOLEAN]

Tables == <<"daily_bars", "selection_snapshots", "market_snapshots", "benchmark_bars">>
Files  == Tables \o <<"dataset_manifest">>
FileName == {Files[i] : i \in 1..5}
TableName == {Tables[i] : i \in 1..4}

VARIABLES scenario,   \* the history the sources know and the bounds
          disk,       \* [FileName -> NoFile or [by, whole]]
          made,       \* of each preparation: the tables it makes of the history
                      \* until each day; what it writes is those of the last
          step, number, next,   \* of each preparer: step, preparation, file it is at
          reader,     \* step of the backtest
          loaded,     \* [TableName -> the file as it was read]
          report,     \* what the backtest reported, or None
          undisturbed \* history: the dataset read was of one preparation, and
                      \* no file of it was written over since the reading began

preparing == <<step, number, next>>
reading == <<reader, loaded, report, undisturbed>>
backtestVars == <<scenario, disk, made, preparing, reading>>

Whole(n) == [by |-> n, whole |-> TRUE]

\* The history of some codes, until a day.
Part(h, codes, d) ==
  [bars |-> [c \in Stock |-> [e \in Date |-> IF c \in codes /\ e <= d THEN h.bars[c][e]
                                           ELSE NoRow]],
   benchmark |-> [e \in Date |-> IF e <= d THEN h.benchmark[e] ELSE NoRow]]

Makes(codes) == [d \in Date |-> Prepared(Part(scenario.history, codes, d))]

BacktestInit ==
  /\ scenario \in Scenario
  /\ disk = [f \in FileName |-> IF scenario.prepared THEN Whole(1) ELSE NoFile]
  /\ made = IF scenario.prepared THEN <<Makes(Stock)>> ELSE <<>>
  /\ step = [p \in Preparer |-> "idle"]
  /\ number = [p \in Preparer |-> 0]
  /\ next = [p \in Preparer |-> 1]
  /\ reader = "idle"
  /\ loaded = [f \in TableName |-> NoFile]
  /\ report = None
  /\ undisturbed = FALSE

-----------------------------------------------------------------------------
(* Preparation.                                                            *)

StepTo(p, from, to) == step[p] = from /\ step' = [step EXCEPT ![p] = to]

\* Without --overwrite a directory that has anything in it is refused.
Request(p) ==
  /\ StepTo(p, "idle", "load")
  /\ Len(made) + Cardinality({q \in Preparer : step[q] = "load"}) < scenario.bound
  /\ \E overwrite \in BOOLEAN : overwrite \/ \A f \in FileName : disk[f] = NoFile
  /\ UNCHANGED <<scenario, disk, made, number, next, reading>>

\* NO_DAILY_BARS_FETCHED: nothing is written.
LoadFails(p) ==
  /\ StepTo(p, "load", "idle")
  /\ UNCHANGED <<scenario, disk, made, number, next, reading>>

Load(p) ==
  /\ StepTo(p, "load", "open")
  /\ \E codes \in (SUBSET Stock) \ {{}} : made' = Append(made, Makes(codes))
  /\ number' = [number EXCEPT ![p] = Len(made')]
  /\ next' = [next EXCEPT ![p] = 1]
  /\ UNCHANGED <<scenario, disk, reading>>

\* mutant: the manifest comes first
ManifestFirst(i) == Files[IF i = 1 THEN 5 ELSE i - 1]

\* The order in which prepare_dataset writes.
FileAt(i) == Files[i]

Open(p) ==
  /\ StepTo(p, "open", "fill")
  /\ disk' = [disk EXCEPT ![FileAt(next[p])] = [by |-> number[p], whole |-> FALSE]]
  /\ undisturbed' = (undisturbed /\ disk[FileAt(next[p])] = NoFile)
  /\ UNCHANGED <<scenario, made, number, next, reader, loaded, report>>

\* Two preparers may have one file open; the last to write is what stays.
Fill(p) ==
  /\ StepTo(p, "fill", IF next[p] = 5 THEN "validate" ELSE "open")
  /\ disk' = [disk EXCEPT ![FileAt(next[p])] = Whole(number[p])]
  /\ next' = [next EXCEPT ![p] = IF @ = 5 THEN 1 ELSE @ + 1]
  /\ undisturbed' = (undisturbed /\ disk[FileAt(next[p])].by = number[p])
  /\ UNCHANGED <<scenario, made, number, reader, loaded, report>>

\* _validate_provider_loadable reads the tables once; the audit files follow.
ValidateLoadable(p) ==
  /\ StepTo(p, "validate", "idle")
  /\ number' = [number EXCEPT ![p] = 0]
  /\ UNCHANGED <<scenario, disk, made, next, reading>>

PreparerDies(p) ==
  /\ step[p] \in {"open", "fill"}
  /\ step' = [step EXCEPT ![p] = "idle"]
  /\ number' = [number EXCEPT ![p] = 0]
  /\ next' = [next EXCEPT ![p] = 1]
  /\ UNCHANGED <<scenario, disk, made, reading>>

-----------------------------------------------------------------------------
(* A backtest.                                                             *)

Present == {f \in FileName : disk[f] # NoFile}

\* All files that are there are whole and of one preparation.
OfOnePreparation == \E n \in 1..Len(made) : \A f \in Present : disk[f] = Whole(n)

\* DATASET_MANIFEST_REQUIRED
Starts ==
  /\ reader = "idle"
  /\ disk["dataset_manifest"] # NoFile
  /\ reader' = Files[1]
  /\ loaded' = [f \in TableName |-> NoFile]
  /\ report' = None
  /\ undisturbed' = OfOnePreparation
  /\ UNCHANGED <<scenario, disk, made, preparing>>

After(f) == Files[1 + (CHOOSE i \in 1..4 : Files[i] = f)]

\* A table that is absent is empty; the bars have to be there.
ReadTable(f) ==
  /\ reader = f
  /\ f = "daily_bars" => disk[f] # NoFile
  /\ loaded' = [loaded EXCEPT ![f] = disk[f]]
  /\ reader' = IF After(f) = "dataset_manifest" THEN "simulate" ELSE After(f)
  /\ UNCHANGED <<scenario, disk, made, preparing, report, undisturbed>>

\* DAILY_BARS_REQUIRED, or a half written table that does not parse.
ReadFails(f) ==
  /\ reader = f
  /\ IF disk[f] = NoFile THEN f = "daily_bars" ELSE ~disk[f].whole
  /\ reader' = "idle"
  /\ UNCHANGED <<scenario, disk, made, preparing, loaded, report, undisturbed>>

OneDataset(n) == \A f \in TableName : loaded[f] = Whole(n)
LoadedOne == \E n \in 1..Len(made) : OneDataset(n)

\* The simulation is followed where the tables are those of one preparation.
Simulate ==
  /\ reader = "simulate"
  /\ reader' = "report"
  /\ report' = [tables |-> loaded, manifest |-> None,
                run |-> IF ~LoadedOne THEN None
                        ELSE LET n == CHOOSE m \in 1..Len(made) : OneDataset(m)
                             IN Simulation(made[n][LastDate], scenario.assumption)]
  /\ UNCHANGED <<scenario, disk, made, preparing, loaded, undisturbed>>

\* quality_manifest reads the text of the manifest once the run is over.
ReportManifest ==
  /\ reader = "report"
  /\ reader' = "reported"
  /\ report' = [report EXCEPT !.manifest = disk["dataset_manifest"]]
  /\ UNCHANGED <<scenario, disk, made, preparing, loaded, undisturbed>>

EndBacktest ==
  /\ reader = "reported"
  /\ reader' = "idle"
  /\ loaded' = [f \in TableName |-> NoFile]
  /\ report' = None
  /\ undisturbed' = FALSE
  /\ UNCHANGED <<scenario, disk, made, preparing>>

BacktestNext ==
  \/ \E p \in Preparer : \/ Request(p) \/ LoadFails(p) \/ Load(p) \/ Open(p) \/ Fill(p)
                         \/ ValidateLoadable(p) \/ PreparerDies(p)
  \/ Starts
  \/ \E f \in TableName : ReadTable(f) \/ ReadFails(f)
  \/ Simulate \/ ReportManifest \/ EndBacktest

BacktestSpec == BacktestInit /\ [][BacktestNext]_backtestVars

-----------------------------------------------------------------------------
(* Properties.                                                             *)

(* Every variable keeps its type.                                          *)
BacktestTypeOK ==
  LET Versions == [by : 1..Len(made), whole : BOOLEAN] \union {NoFile} IN
  /\ scenario \in Scenario
  /\ disk \in [FileName -> Versions]
  /\ step \in [Preparer -> {"idle", "load", "open", "fill", "validate"}]
  /\ number \in [Preparer -> 0..Len(made)] /\ next \in [Preparer -> 1..5]
  /\ reader \in {"idle", "simulate", "report", "reported"} \union TableName
  /\ loaded \in [TableName -> Versions]
  /\ undisturbed \in BOOLEAN

Ran == reader = "report" /\ report.run # None

(* The preparation of the dataset that was run.                            *)
RunOf == CHOOSE n \in 1..Len(made) : \A f \in TableName : report.tables[f] = Whole(n)

(* No day of a backtest depends on a later one, from the indicators the    *)
(* preparation derives to the purchase and the sale: after each day the    *)
(* run stands where it would if the history ended with that day.           *)
NothingFromTheFuture ==
  Ran => \A d \in Date :
    report.run[d] = Simulation(made[RunOf][d], scenario.assumption)[d]

(* The trades are those that could have been made, and none is left out:   *)
(* bought on a day that passes, the best candidate, while nothing is held; *)
(* kept while there is no day to sell, and sold on the first one, at a     *)
(* price of it.  A stock trades on a day with a bar when it is not locked  *)
(* at its limit and not halted.  Excepted is a sale on a halted day, which *)
(* simulate_exit makes and nobody could: see HaltedStockIsKept.            *)
TradesAreReal ==
  Ran =>
    LET t == made[RunOf][LastDate]
        end == report.run[LastDate]
        bar(c, d) == t.daily_bars[c][d]
        halted(c, d) == bar(c, d) # NoRow /\ bar(c, d).suspended
        trades(c, d) == bar(c, d) # NoRow /\ ~bar(c, d).locked /\ ~bar(c, d).suspended
        bought(d) == /\ MarketPasses(t, d) /\ Buyable(t, d) # {}
                     /\ bar(Best(t, d), d).close <= Affordable
        held(d) == \/ \E x \in end.trades : x.buy < d /\ d < x.sell
                   \/ end.position # NoPosition /\ end.position.buy < d
    IN  /\ \A x \in end.trades :
             /\ x.buy < x.sell
             /\ \A d \in x.buy + 1 .. x.sell - 1 : ~trades(x.code, d)
             /\ \/ halted(x.code, x.sell)
                \/ /\ trades(x.code, x.sell)
                   /\ 100 * bar(x.code, x.sell).low <= x.sold
                   /\ x.sold <= 100 * bar(x.code, x.sell).high
        /\ end.position # NoPosition =>
             \A d \in end.position.buy + 1 .. LastDate : ~trades(end.position.code, d)
        /\ \A d \in Date : bought(d) /\ ~held(d) <=>
             \/ \E x \in end.trades : x.buy = d /\ x.code = Best(t, d)
             \/ end.position # NoPosition /\ end.position.buy = d
                  /\ end.position.code = Best(t, d)

(* A halted stock is not sold: what docs/phase3_1_backtest_design.md:21    *)
(* and event_engine.py:135 say, and what BacktestEngine.run does not do.   *)
HaltedStockIsKept ==
  Ran => \A x \in report.run[LastDate].trades :
           ~made[RunOf][LastDate].daily_bars[x.code][x.sell].suspended

(* A backtest begun on a dataset of one preparation, none of whose files   *)
(* is written over meanwhile, reports on all of it and with its manifest.  *)
ReportOfOneDataset ==
  reader = "reported" /\ undisturbed =>
    \E n \in 1..Len(made) :
      report.manifest = Whole(n) /\ \A f \in TableName : report.tables[f] = Whole(n)
=============================================================================
