# TLA+ verification of overnight_quant

`src/overnight_quant` is a research and manual-execution tool for overnight
positions in A-shares. It never places an order itself: it collects market
data under deadlines, freezes it, scores candidates, and keeps a ledger of what
a person traded. Most of its lines are parsing, arithmetic on prices and
reports. What can go wrong in ways a test hardly reaches is the control around
them: files that several processes read and write, workers that must be killed
in time, deadlines that race late answers, and a ledger that is replayed.
This directory models that control, checks it with TLC and proves part of it
with TLAPS.

Paths below are relative to `src/overnight_quant/`.

## Inventory

| Component | State it keeps | Operations | What is hard | What makes it correct |
|---|---|---|---|---|
| Manual quote refresh (`data/quote_observation_refresh.py`) | lock file, cooldown stamps, pending marks, and per batch a snapshot, receipt, commit, confirmation and failure file | `refresh`, `_finish_refresh`, the readers of the outcome | two clicks at any two file operations; any write may fail; crash, machine restart (monotonic clocks start again); a late confirmation | one worker at a time; cooldown in real time; nothing dispatched over an unconfirmed batch; what the caller is told is what the files say |
| Manual order ledger (`execution/order_recorder.py`, `data/position_accounting.py`, `execution/state_manager.py`) | `manual_orders.csv`, ticket files | `record_manual_order`, `record_position_update`, `reset_real_state`, the replay | read, validate, read again, truncate and write without a lock; rows replayed by the text of their time; death with the file truncated | a ticket is bought once; no fill is lost; no position is oversold; a full sell closes |
| Bounded audit executor (`data/t25_bounded_executor.py`) | global lock file, worker processes, results per job | `validate_plan`, `schedule_budget`, `_run` | a clock read before it is used; late answers; a failure between start and registration; a dead executor's workers | global limit; host spacing; dependencies; a complete report; no worker left |
| Close-window collector (`data/snapshot_store.py`, `RequestsTransport` in `data/real_point_in_time_collectors.py`) | the futures of a thread pool; the transport's deadline, cancellation flag and host slots; snapshot files | `collect`, `write_once`, `request`, `set_global_deadline`, `cancel_current_collection` | a deadline that passes while threads sleep, retry or complete; a transport shared by collections; seconds against fractions of seconds | nothing after the deadline; nothing outlives a collection; published snapshots are final; the important providers first |
| Point-in-time readiness (`data/close_confirmation_readiness.py`, `data/point_in_time.py`, `data/close_time_contract.py`) | none; it judges lists of rows | `records_available_at`, the normalisation, `materialize`, the readiness verdict | five times per row; contracts on the row and on the snapshot; repeated rows; the order of a list | nothing later than the cutoff; the verdict does not depend on the order of the rows |
| Snapshot freeze (`data/snapshot_store.py`, `scripts/run_close_confirmation.py`) | one frozen file per day, one audit file per refused set | `freeze`, `write_once`, `load_frozen_snapshot`, the decision | processes that share the check and the temporary file; death between two files; rows filtered three times | a frozen day never changes; the decision sees what was frozen |
| Daily freeze (`data/daily_freeze.py`) | lock, guard, and per authorization a directory of receipts, answers and anchors | `capture`, `coordinate`, `verify`, the request process | a directory checked before the lock; a controller that dies with its processes alive; a verdict that later verifications must share | an authorization is used once; success verifies for good; failure never does |
| Minute label probe (`data/minute_label_probe.py`, `data/transaction_attribution.py`, `data/probe_evidence.py`) | four samples, the preflight, the evidence file | preflight, samples, transactions, classification, attribution, independent verification | late wakes, old answers, shifted pages, failures in any sample | a verified label is the vendor's; honest evidence verifies |
| Prepared minute captures (`data/minute_local_prepare_*.py`, `data/minute_protocol_*.py`) | per capture an intent, start receipts, seals, a shared guard; per wave a suspended worker | `run_prepared_wave`, the worker's READY and GO, four-wave capture, matrix of experiments | a worker that prepares before the minute and may not touch the network before GO; deaths with a worker started; two clocks | no network before GO; no verdict without cleanup; no later capture over an unconfirmed one |
| Historical backtest and its preparation (`backtest/`, `strategy/filters.py`, `strategy/scoring.py`, `risk/risk_manager.py`) | a dataset directory of five files | `prepare_dataset`; `run`, `simulate_exit`, the provider | indicators derived from neighbouring days; exits at prices that were never traded; a dataset read while it is written | no look-ahead; only trades that could be made; a report on one dataset |
| Probe worker process (`data/probe_worker_process.py`) | one child and its descendants, a job or process group, pipes, two deadlines | start, track, hand over the task, drain, kill, judge | processes that fork, write, hold pipes or end between any two questions; any operation may fail; no time left to clean up | an accepted answer is complete and its worker gone; what is left is told; the call ends |
| Paper broker and event engine (`execution/paper_broker.py`, `backtest/event_engine.py`) | orders, fills, positions, events of a day | submit, fill by bar, expire, exit | fills in parts; gaps over limits; a fill and an exit in one bar | fills add up; no exit before its entry |
| Concept batch (`data/concept_batch_observation.py`) | exclusive run directory, commit record | authorise, start, commit, replay | a death before the commit record | a run is committed once and as a whole |
| Market source qualification (`data/market_source_*.py`, `scripts/*.ps1`) | start gate files, receipts per source | lock, READY, GO, qualification | two launchers | one launch; nothing is qualified unproven |
| Registry, adapters, calendars, other strategies, reports, dashboard, vendor providers | none between calls | pure functions, parsing, formatting | boundary comparisons | data, not control |

How they interact: the dashboard and the command line start the refresh, the
recorders and the collectors as separate processes, and files are all they
share. The collectors call the providers in threads, and the providers share
one transport. Audits hand their plan to the bounded executor, which starts
worker processes. The minute probe and the daily freeze run each request in a
process of its own (`run_probe_worker_process`); the prepared captures have
their own variant that starts the worker before its minute. What the probe
found becomes the time contract by which the collector's rows are judged, are
frozen, and are decided on. The readers (dashboard, replay, readiness,
verification, backtest) trust files that the writers promise never to change;
the dataset directory of the backtest is the one with no such promise.

`PROJECT.json` lists every component, the ones left out with the reason, and
the hazards of the code at their lines.

## What is modelled

| Module | Models | Correspondence |
|---|---|---|
| `QuoteRefresh` | `RefreshController.refresh`, `_finish_refresh`, readers | one action per interaction with a file, the worker or a clock; `pc[b]` is where click `b` is; files are variables that hold what a reader tells apart |
| `SingleFlight` | the promise of the refresh | abstract specification: begin, land, seal, confirm |
| `PositionAccounting` | `summarize_order_rows` | recursive function over the rows, ordered by the text key of the time |
| `OrderLedger` | recorders and reset | one action per read, truncation, write and report of a recorder; EXTENDS `PositionAccounting` |
| `AuditPlan` | plans and the dispatch rule | operators shared by the two modules below |
| `AuditBudget` | `schedule_budget` | one action per launched job and per step of the cursor; then the same loop with the real durations |
| `AuditExecutor` | `BoundedAuditExecutor._run` | one action per place where the clock is read or a worker is touched; the local `now` is `seen` |
| `RequestsTransport` | the transport's `request` and its helpers | the steps of each calling thread: check and slot, sleep, send, answer or failure; time passes between any two |
| `CloseCollector` | `collect` with a time contract, `write_once`, the thread pool | EXTENDS `RequestsTransport`: every provider is one of its threads; one action per submit, wait, cancel, shutdown, gathering and file operation |
| `ProbeWorker` | `run_probe_worker_process` with `_run_bounded_worker`, `_bounded_cleanup`, `_ProcessScope`, `_PipeDrain`, `_terminate_process_tree` | one action per operation on the processes, the pipes or the clock; `pc` is the place of the call; the processes move between any two |
| `PointInTime` | `records_available_at`, the winner of each logical key, `materialize`, the readiness of a snapshot | operators on sets of rows that carry their place in the list |
| `SnapshotStore` | `write_once`, `freeze`, `load_frozen_snapshot`, the decision of `run_close_confirmation` | EXTENDS `PointInTime`; one action per file operation of each process; files are names that lead to inodes |
| `SingleUse` | what an authorization of the daily freeze promises | abstract specification: use, start, request, stop, publish |
| `DailyFreeze` | `capture`, `coordinate`, `verify`, the request worker | one action per file operation and per step of controller, coordinator and request; refines `SingleUse` |
| `MinuteLabel` | classification, attribution, reanalysis and verification of evidence | operators on samples and trades |
| `MinuteProbe` | `run_scheduled_minute_label_probe` with its requests and the vendor | EXTENDS `MinuteLabel`; one action per preflight attempt, sample, page and result |
| `PreparedWave` | `run_prepared_wave` and its worker | one action per step of the controller and of the worker; time passes between any two |
| `PreparedCapture` | the four-wave capture and the matrix of experiments | EXTENDS `PreparedWave`; one action per file written and per decision; a capture may die anywhere and the next begins |
| `BacktestEngine` | derived indicators, filters, score, choice, exits, the loop over days | operators; the loop is a recursive function that keeps the state after every day |
| `Backtest` | the dataset directory, preparations and a backtest | EXTENDS `BacktestEngine`; one action per file opened, filled or read |
| `MC*` | instances | model values, plans, priorities |
| `*Proofs` | theorems | see below |

Left out everywhere: money, prices, names, formats, hashes and report texts,
except where a branch depends on them, and then as the outcome of that branch
(an accepted or refused response, an equal or different snapshot). What a
library or the operating system does is modelled from its use and marked
external in the map: the pool that takes the oldest future, processes that
end, time, crashes.

### Abstractions a reader should know

- **QuoteRefresh.** A click is its own batch (the code draws a uuid).
  Monotonic time is real time since the last boot, so a reboot makes old
  stamps lie in the future; one reboot per behaviour.
- **OrderLedger.** Trade times have a day, a time of day and a form; the forms
  differ in how they sort as text and in whether they parse. A row's number is
  its place in the file. `Explored` bounds the histories: plain ones, of fills
  against tickets in one form of time, and mixed ones. Two recorders at once are
  in the specification (`Recorder`) and not in a run: see below.
- **AuditExecutor.** A kill takes effect once the process is waited for; the
  ten seconds after which `_terminate_process_tree` gives up are not modelled.
  `SubmitFails` says whether the pool may refuse a thread.
- **RequestsTransport.** Check and reservation of a slot are one step, since
  what happens between them is seen by the checks that follow. The back-off
  sleep is the time that may pass before the next attempt. Slots are spaced,
  sends are not: a thread may wake late.
- **CloseCollector.** Two snapshots are never equal (they hold elapsed
  milliseconds), so an existing file always raises. The window before 14:49
  and the date mismatch, which return at once, are left out. `Second` ticks
  make a second, since the code compares seconds with fractions of them.

- **ProbeWorker.** Of the output only the answer is kept, which may be accepted
  or refused by the parser. A process that was told to end does nothing else.
  A question to the processes and the decision on it are one step, the
  processes move before and after. `Faults` names the places whose operations
  may raise. On the older path a timer beyond `MaxTime` ends there.
  `EarlySpawn` says whether the child may fork before it has read its task;
  the run says no, and `ScopeCoversDescendants` assumes it. A Python launcher
  of a Windows venv would be such a child, and
  `data/minute_local_prepare_process.py` starts its worker suspended.
- **PointInTime and SnapshotStore.** A list is a set of rows with their places;
  what the code sorts is sorted by a key that ends with a hash of the row, so a
  stored list is the set of its rows. Prices, ratios and single fields are one
  `grade` of a row. Rename follows POSIX: who has the file open writes on to it.
- **DailyFreeze.** Two requests stand for six. What the request process promises
  is what `ProbeWorker` shows. A failed write, a limit that passes, a death and a
  tree that is not cleaned up are faults from one budget, `MaxFaults`.
- **MinuteProbe.** A bar is the number of its trades: the OHLCV of a bar changes
  when a trade is added to it. The vendor shows a state at most `MaxLag` seconds
  old.
- **PreparedCapture.** Captures do not run at one time: the preflight looks for
  the processes of another capture, a query of the operating system that is taken
  at its word. The job closes with its controller. Termination, draining and
  closing are one step here and in detail in `ProbeWorker`. Whether publishing and
  sealing keep their budgets is a choice. The matrix reads the wall clock first,
  the four-wave capture `perf_counter` first (`MaxEarly`). Captures are numbered;
  the seals of an earlier one are forgotten when the next begins, its start
  receipts are not.
- **BacktestEngine.** Prices are whole and compared in hundredths, as the
  percentages of `config.yaml` need. What the filters ask of a day alone is one
  flag of its bar, `fit`; whether the stock was halted or locked is on the bar too.
  What a preparation derives from earlier days is modelled: the close before, the
  mean of the closes and the ratio of the day's volume to the mean of up to five
  earlier ones (`VolRatio`, rounded to four places as in the code), which
  `min_vol_ratio` and the score read; so is the place of the close in its day's
  range. Market, theme, capital and risk score are one number of a stock
  (`BaseScore`), the points for turnover and amount another (`VolumeBase`). With at
  most five days no window is full, and the five and ten day gains of the trend
  score do not come in. A missing volume is left out, no volume is not. The
  planned amount is the configured largest order: the share of equity binds only
  below five times that. The rows bring no `change_pct` of their own, so it is
  derived.
- **Backtest.** A file is known by the preparation that wrote it and by whether
  it is whole. The simulation is followed where all four tables are of one
  preparation.

## Runs

| Run | Question | Bounds, and why they are enough |
|---|---|---|
| `quote_refresh` | What a caller is told, the cooldown, the refinement of `SingleFlight`, and that a click ends | two clicks (every conflict is between two owners of the lock or the pending mark), budget 2, interval 2, time to 3: a second click can come before and after the cooldown, and before and after a reboot |
| `order_ledger` | Fills against tickets: is a position oversold, does the replay fail? Any mixture: is a ticketed fill lost, does the replay agree with the history? | one recorder. Plain histories: three days, two quantities, four rows, for partial and full sells, reopening, and days out of order. Mixed ones: two days, three rows and a demo row, the shortest in which text order and time order differ |
| `order_ledger_update` (violation) | Position updates alone: does a full sell close? | three rows |
| `audit_budget` | Every plan of three jobs over two hosts, and every batch with shorter requests | three jobs give chains, forks and joins with two workers |
| `audit_executor` | One executor: dependency, release, shared host, every failure | three jobs, deadline that leaves room for two dispatches and refuses the third |
| `close_collector` | Two collections by two providers on one host: does anything outlive one or go out too late, does the deadline cost the less important provider first, are snapshots final, does a collection end? | deadline at tick 2 of 4, two ticks per second: the deadline passes at every place, a completion can be late inside its second and outside it, and the second collection can fall in the second of the first |
| `probe_worker` | One call on either path and either system: does an accepted answer mean that all is over, is every leftover told, does the call end? | root and one descendant (an escape needs one), budget 2 with reserve 1 and hard deadlines 1 and 2: work that ends in time, in the reserve and after it, and no time to start; time to 3; every operation may fail |
| `snapshot_store` | Is a decision the one that would be made without the rows of the future; does a frozen day stay, keep its audit, and is it decided on as it was frozen? | two processes, three freezes, five inputs: the same rows in two orders with a later quote of the future beside the one in time, a late status, an input that is incomplete, no contract with a row that its own contract would let in, nothing in time |
| `daily_freeze` | Does success verify for good and failure never, and is an authorization used once? | two controllers and two directories, so that they may share one or not; two requests; three faults: a death, what it leaves, and one more |
| `minute_probe` | Is a verified label the vendor's, is an attribution, does honest evidence verify? | two stocks, every set of trades at the edges of the two minutes for one of them, both labels and sources, answers up to five seconds old, two endpoints, one trouble |
| `prepared_capture` | Does the network wait for GO, is a verdict true, are the seals, is nothing started over an unconfirmed wave, does a wave end? | two captures of two waves or experiments, target at tick 3, one tick for each margin: every deadline can be met, missed and hit |
| `backtest` | Does a day look ahead, are the trades possible, does a report tell of one dataset? | two stocks, four days: buy on the second, and every kind of third and fourth day (rise with strong, common and weak volume, gap up and down, both triggers, limit-down, halted, none) under each assumption; one stock passes the least score on strong volume only, so that earlier volumes decide; two preparations of one directory, empty or not, with crashes at every file |

The whole takes about ten minutes with two workers.

`PROJECT.json` gives one or two plausible bugs for every property of the
passing runs (`mutants`): TLC finds each property violated by its bug.

Deadlock is not checked in these runs: calls end, clocks stop at their bound,
and a behaviour may simply be over. That nothing gets stuck earlier is what
`EveryClickEnds`, `BatchEnds`, `CollectEnds`, `CallEnds` and `EveryWaveEnds` say,
and the theorem `BudgetNeverStuck`.

### Fairness

- `QuoteRefresh`: weak fairness of each click's own steps. The code is
  sequential and every wait in it has a time limit; nothing is assumed of time,
  other clicks or restarts.
- `AuditExecutor`: weak fairness of the clock, of each executor's loop, which
  polls, and of the end of a worker that was killed. Nothing is assumed of a
  worker that was not killed: it may hang.
- `CloseCollector`: weak fairness of the collecting thread, of each pool
  thread and of time. A request on the wire ends because the transport gives
  it connect and read timeouts. The read timeout is per read, so a server that
  sends a byte now and then can hold a thread, and with it `shutdown(wait=True)`,
  longer: `CollectEnds` rests on that not going on for ever.
- `ProbeWorker`: weak fairness of time and of the steps of the call, which is
  sequential. Nothing is assumed of processes: they may hang, write and hold
  pipes for ever. The bounded path ends all the same; the older one waits
  without a limit (line 83) as long as a pipe is held, and `CallEnds` says so.

- `PreparedCapture`: weak fairness of time and of the controller, which polls
  and waits with limits. Nothing is asked of the worker: it may hang at any step.
- `SnapshotStore`, `DailyFreeze`, `MinuteProbe`, `OrderLedger`, `Backtest`: none;
  their properties are about what is never wrong.

### What disagrees with the documents, and what does not hold

`order_ledger_update` is the one run that expects a violation: with position
updates alone, buy, sell all and buy again drops the first BUY as a demo
placeholder, and the replay divides by zero, while the package's README says that
full sells close the position.

These were found with the same modules and are not kept as runs of their own; each
comes back by the change named.

- A timely, published refresh may fail. `_finish_refresh` unlinks the lock (l.161)
  and later looks whether it is gone (l.208): a second click that takes it in
  between is taken for the first one's own, and the pending mark then refuses
  later refreshes. Check `CandidateFailsOnlyLate` on `QuoteRefresh.cfg`.
- Two recorders both record the BUY of one ticket, since nothing locks the ledger.
  Check `OneBuyPerTicket` with two members of `Recorder`.
- `available_at` is cut to the second before it is compared with the deadline, so
  rows of a provider that the same snapshot calls `LATE_AUDIT_ONLY` are in its
  records, against `docs/phase7_1_source_validation_matrix.md:95`. Check
  `LateRecordsStayOut`: it fails for a provider that completes within the second of
  the deadline.
- The order ledger is truncated before it is written: a death in between loses every
  fill. `TicketedFillsKept` excepts what was lost in that way (`torn`).
- Two freezes of one day past the check of `write_once` at one time share a temporary
  file: one may publish what the other wrote, a mixture, or replace its file.
  `FirstFreezeStands` and `AuditKept` except files of which that is so (`overlap`).
- `worst_completion_at` of `schedule_budget` is no bound: list scheduling is not
  monotone, and with two chains of two requests on one host a request that returns
  early makes the batch end later. The serial bound, `SerialIsWorst`, holds.
- With `SubmitFails = TRUE`, `NoResidualWorker` does not hold: a process whose drain
  thread the pool refused is in no list. The theorem says so in its assumption.
- Forms of trade time that sort differently as text and as time make the replay
  read a SELL before its BUY, and a demo row or an update that a BUY replaces leaves
  its SELL behind: hence the premise `Plain` of `NeverOverSold` and
  `StoredFillReported`.
- `docs/phase7_0_point_in_time_data_dictionary.md:280` says that the order of the
  same records changes nothing. `_record_winner_key` does not compare
  `observed_at`: of two rows that differ in it alone the last of the list is kept.
  `OrderIrrelevant` takes such pairs out (`Unambiguous`).
- The daily freeze refuses at 90 seconds (`>= 90`, l.432), its verification accepts
  90 (`<= 90`, l.310): at that very instant a refused batch verifies, which
  `RejectedStaysRejected` excepts. A second controller that gets the lock after the first released it
  writes `controller-failure.json` into the directory of a batch that succeeded;
  `raced` takes this case out of `SuccessVerifies`.
- A start up to two seconds late with an answer two seconds later is classified by
  `minute_label_probe.py` (l.1193-1230) and refused by `probe_v2_contract.py`: the
  stricter one decides, so nothing wrong is accepted. With `MaxLag = 6` four samples
  may verify a wrong label. Pages of transactions that shift while they are read
  repeat a row, and it is kept, because its position is part of its identity.
- The two families of prepared captures look for different leftovers: the
  four-wave capture does not see an experiment of a matrix without an end, which
  `NoLaunchUnconfirmed` excepts. The first version of the capture has neither a
  start receipt nor a job that closes with it.
- A halted bar sells in a backtest as any other (`is_suspended` is not asked on
  exit, l.54-69), while `docs/phase3_1_backtest_design.md:21` keeps the position for a
  later sellable bar and `event_engine.py:135` skips suspended bars. Check
  `HaltedStockIsKept`; `TradesAreReal` claims nothing of a sale on a halted day, but
  all of the others, and that no earlier day would have done. A position still open at the end is not reported. Two preparations
  that both found the directory empty, or one that dies while it overwrites, leave
  files of two datasets under one manifest that load without complaint: hence the
  premise of `ReportOfOneDataset`.

## Proofs

TLAPS proves these for every value of the constants that satisfies the named
assumptions of the modules (time budgets are naturals, plans are valid,
priorities are distinct and so on), not only for the instances above.

- **QuoteRefreshProofs.** `IInv` says who may hold the lock at each label
  (`LockInv`), that a published batch is marked pending or confirmed
  (`PublishInv`), that a worker's exit is on record before the lock is free
  (`CooldownInv`), what stands behind a commit or confirmation (`EvidenceInv`)
  and what a returned call was told (`AnswerInv`). From it:
  `SingleWorker`, `Truthful`, `Evidence`, `CooldownKept`, `UnconfirmedBlocks`,
  `ConfirmedForever` (no run checks it by itself: the refinement implies it),
  and `Refinement`: every step is a step of `SingleFlight` or a stutter.
- **TradingProofs**, the ledger. `NumberInv`: the file holds rows of distinct
  numbers, whoever writes it, which makes the order of the replay total. Were the
  replay to differ from the history, there would be a first row at which it does:
  hence `HistoryMatched`, for any number of recorders. `PlainInv` (in a ledger of
  fills against tickets no row of the replay, of what is on disk or about to be
  written, finds less than nothing held) gives `NotOverSold` and `FillReported`;
  `LedgerInv` relates the rows a recorder read (`kept`) to those on disk and to
  the rows filed: `TicketBoughtOnce` and `FillsKept`. These four need one recorder
  at a time; with two the last pair is false.
- **TradingProofs**, the backtest. `WriterInv` says that a manifest is the last
  file of its preparation, `ReadInv` that a backtest none of whose files was
  written over sees the tables of one preparation: `OneDatasetReported`.
  `SimulationRecurs` shows that the loop over the days exists as a function, built
  day by day; two histories that agree up to a day have the same derived tables up
  to it (`Agree`), hence `NoLookAhead`; and the first day that would break what a
  trade must satisfy cannot be: `OnlyRealTrades`. Both assume that the
  prices of a bar lie within its range (`HistoryAssumption`), which the code leaves
  to the source.
- **AuditProofs**, the executor. One conjunct for each of: where workers may be
  (`WorkersOwned`), how rows agree with `pending`, `running` and `completed`,
  what a scan may still start, and which starts are recorded. From them
  `LimitIsGlobal`, `NothingLeftBehind`, `DependenciesAnswered`, `StartsAreSpaced`,
  `ReportsComplete`, `NothingStartedAfterFailure`. They assume `~SubmitFails`,
  that the pool gives every worker its drain thread; with it refused, one of
  them fails (see above), and the others are checked by `audit_executor`.
- **AuditProofs**, the budget. `BudgetNeverStuck`: on a valid plan the simulation
  always has a launch or an event. `SerialBound`: the k-th launch is due at the
  latest when k - 1 requests and host intervals are over, for the budget and for
  the batch with its real durations, so neither goes beyond the sum of all. That
  every step brings the simulation nearer to its end, an induction over the jobs,
  is not proved.
- **CloseCollectorProofs.** `Armed` ties the transport's deadline to the place
  of the collector, `TasksFollow` the tasks and threads to it, `GivenUpInTime`
  says that a provider is skipped or given up only when time is over, which is
  why a cancellation flag implies an expired deadline; `InOrder` that providers
  are submitted and begin in their order; `SlotsBounded` that the newest slot
  of a host is known; `FreeFile` that the file is free until it is written.
  From these: `DeadlineIsObeyed`, `CollectionIsContained`, `PriorityIsKept`,
  `HostSpacing` and `SnapshotsAreFinal`.
- **ProbeWorkerProofs.** `PathInv` says what exists at each place of the call,
  `ProcessInv` that only running processes are tracked or hold pipes, `PipeInv`
  that a stream seen at its end stays there, `EmptyInv` that nobody enters a
  scope that was seen empty, `NormalInv` that a normal exit kills nothing,
  `CleanInv` what a clean cleanup has seen. The last is why the code may judge
  by the last turn of its loop: what it saw cannot change any more. From them
  `OkIsOver` and `NothingIsLeftUntold`. `ScopeCoversDescendants` has its own
  invariant and assumes `~EarlySpawn`.

- **FreezeProofs**, the snapshot store. `InodeInv` says that an inode is of one
  file only, `ProcessInv` what a process may be writing, `FileInv` that a file whose
  writers never met has one of them at most and holds something whole, `DayInv` that
  what the day's file was, is and was decided on agree. From them, for any processes,
  inputs and number of freezes: `FirstStands` and `AuditIsKept`.
  "Met" is the history variable `overlap`: two processes past the check of one
  file at one time, for which nothing is promised on POSIX. `DecidedAsFrozen`,
  `NothingAhead` and `OrderDecidesNothing` are about the rows: each filtering keeps
  what the next would keep, so filtering again changes nothing; a row of the future
  is gone before any row is compared with another, so that the decision is that of
  the input without it; and the winner of a logical key is one row, whatever the
  order. They assume rows of the form the collectors write
  (`RowAssumption`: finite lists, with the records of the sources apart from the
  rest; two of these that agree in every hashed field are one).
- **FreezeProofs**, the daily freeze. `FreezeInv` is the types and: what lives was
  started under the lock, and the lock stays with it (`LockInv`); a directory is
  made, and worked on, by one controller, and nothing is in it before (`TouchInv`);
  requests go out one after the other, each after the answer to the last
  (`CountInv`); controllers that did not meet leave a directory to one of them
  (`RaceInv`); and what an outcome rests on, from the second verification to what
  was returned (`OutcomeInv`). From it, for any controllers, directories, number of
  requests and faults: `SuccessStands`, `RejectionStands` and
  `FreezeImplementsSingleUse`, every step is one of `SingleUse` or a stutter:
  making the directory uses the authorization, starting the coordinator starts, a
  request requests, the last process that is gone stops, and the outcome publishes.
  The proof of each part goes by what a step of one controller may do at all
  (`OthersRest`, `WhoWrites`, `WhoCounts`, `WhoSearches`, `WhoDecides`,
  `WhoReports`), and needs the actions nowhere else.
- **PreparedCaptureProofs.** `WaveInv` says what was exchanged and seen at each
  place of a wave, `ConfirmInv` that a start receipt without its end stops whoever
  comes next, `EvidenceEarned` that a seal stands behind what it says of its waves.
  From them, for all deadlines and interleavings and any number of waves,
  experiments and captures: `NetworkAfterGo`, `VerdictsAreTrue`, `SealsAreTrue` and
  `LaunchesAreConfirmed`.
- **MinuteProbeProofs.** `AnswersShown` ties every sample to a moment near its
  target; with an end label all moments from the second target on are after the
  last trade that counts, with a start label those of the first are before the
  first. Hence `LabelIsTrue`. A bar that the last three of its observations agree
  on is then that of its whole minute (`FinalIsWhole`), and the transactions, each
  counted once and by its second or its minute, are as many in that minute
  (`CountsTheMinute`): hence `AttributionIsTrue`, while no page moves. Both are for
  any stocks, trades and troubles, and assume `MaxLag <= 5`. `RecordKept` says that
  one endpoint is kept from the preflight to the end and that samples are completed
  after they were started, after their targets: hence, with no assumption on the
  vendor, `HonestEvidenceVerifies`.

Theorems whose property no run checks by itself, since a run has few places and
the theorem says more: the types of each module and the inductive invariants,
`SingleWorker`, `Evidence`, `UnconfirmedBlocks`, `ConfirmedForever`,
`TicketBoughtOnce`, `BudgetNeverStuck`, `LimitIsGlobal`, `DependenciesAnswered`,
`NothingStartedAfterFailure`, `ScopeCoversDescendants`, `HostSpacing`.

Only model-checked: liveness (`EveryClickEnds`, `BatchEnds`, `CollectEnds`,
`CallEnds`, `EveryWaveEnds`), which the prover does not reach; and what the
theorems assume away and a run does not: the executor when the pool refuses a
thread. Every invariant and every other action property of the passing runs is
the property of a theorem.

## Not modelled

Money; parsing of vendor formats; page layout and reports; the contents of
hashes; PowerShell wrappers; a kill that the operating system refuses; two
collectors in two processes; the collector without a time contract, which is
sequential. `PROJECT.json` has the reason for each component.

The modules stand for about a tenth of the implementation's lines. Most of the
rest is what a model cannot say anything about: the clients and parsers of the
vendors (`data/astock_client.py`, `data/mootdx_*`, `data/tencent_*`), the
dashboard, tables of capabilities, validators that compare a record with a
schema field by field, evidence verifiers that rebuild a file and compare it,
and scripts that parse arguments. To map them would be to write them again.

Control that is left, by what it would be worth:

- the paper broker and the event engine (fills in parts; the second fill of an
  entry seems to replace the position of the first);
- the concept batch and the offline observations, which repeat the pattern of the
  daily freeze with fewer steps;
- the qualification of market sources (no source can become
  `NETWORK_VALIDATED` as the code stands, since the semantics of fund flows are
  unproven) and its start gate;
- the sampling day and the watchdog of the probe;
- the historical cache: replies are kept for ever, those for an interval that
  includes the current day too, while
  `docs/phase3_2b2_astock_data_preparation_design.md:562` does not admit these; an
  error payload that is valid JSON is cached, and a retry never reaches the network.

## Plan

Done, in this order: the quote refresh (it guards the only network request a
click can cause), the order ledger (the only record of real trades), the audit
executor (worker processes), the close collector (threads and deadlines), the
probe worker (one child, its descendants and its pipes), the frozen snapshot and
the readiness it is judged by, the daily freeze, the minute probe, the prepared
captures, the backtest and its dataset.

Next:

1. `PaperBroker` and `EventEngine`: orders, fills in parts over the bars of a day
   and exits. Reference: the sum of the fills.
2. With two recorders, what of the ledger still holds and can be proved; the
   executor's theorems without `~SubmitFails`, where they hold.
3. `CloseCollector`'s three file steps as a refinement of those of
   `SnapshotStore`.
4. `HistoricalCache`: key, expiry and what is admitted, beside `Backtest`'s
   preparation.
5. `StartGate`: lock, READY and GO of the market launcher.
6. `WalkForward` windows against their reference definition.
7. An abstract executor (a bounded set of slots) that `AuditExecutor` and
   `ProbeWorker` implement; `TraceLegal` of the budget.
