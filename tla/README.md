# Lattice Momentum in TLA+

TLA+ models of the nightly stock-selection pipeline in this repository, the TLC
configurations that check them on small instances, and TLAPS proofs of their
most important properties for instances of any size.

To check a module: `tlc -config MCCandleIngestion.cfg MCCandleIngestion`. To
check proofs: `tlapm CandleIngestionProofs.tla`, and likewise the other seven
modules listed under "What is proved".

## The system

A cron job starts `cmd/nightly` once a day. It runs a list of steps, one after
another, over one PostgreSQL database; other processes are the HTTP API
(`cmd/api`), the Python service `tv-collector`, and commands that run one job by
hand.

| Component | State it keeps | Operations | What makes it correct |
|---|---|---|---|
| Orchestrator: `cmd/nightly/main.go`, `steps.go`, `nightly_run_repo.go` | the current step, the context, the ingestion handle, one row of `nightly_runs` | insert the row, run a step, tolerate or abort on its error, mark the row, drain the ingestion, run the last jobs | steps write only on the candles they need; the audit row tells what happened; the run ends |
| Candle ingestion: `marketdata/jobs/async_ingestion.go`, `ingestion_worker_pool.go` | two job queues, workers, a result channel, error lists, the channels `priorityDone` and `allDone` | build the queues, receive, ingest with retries, collect, close, wait | no job lost or counted twice; the gate opens exactly when the CRITICAL jobs are done; no double close; everybody returns |
| One ticker's ingestion: `marketdata/ingestion.go`, `ticker_repo.go`, `candles_daily_repo.go` | `tickers`, `candles_daily` | ensure the ticker exists, fetch, validate, store in one transaction | a candle's ticker exists; a failed attempt stores no candle |
| Rate limiter: `marketdata/provider/ratelimit.go` | a bucket of one token, a ticker goroutine | tick, wait, stop | the provider's quota |
| Providers: `provider/polygon.go`, `twelvedata.go` | none | one HTTP call | decoding |
| Screener collection: `tv-collector/`, `internal/api/handler.go`, `services/ingestion/tv_collector_client.go` | the collector's run lock, `market_snapshots`, `tickers`, `tradingview_snapshot_daily`, raw CSV files | trigger, screen, save, post with retries, store | one collection at a time; what was accepted is stored; retries do no harm |
| Market regime: `jobs/market_regime_*`, `services/regime`, `market_inputs_service.go` | `market_inputs_daily`, `market_regime_daily`, `market_regime` | compute inputs, classify, smooth, store | the smoothed strength depends on earlier days only; both tables agree |
| Sector momentum, ranking, universe: `jobs/sector_*`, `daily_rank_lists_job.go`, `universe_snapshot_job.go`, `services/ranking` | `sector_scores_daily`, `daily_rank_lists`, `universe_snapshot_daily` | compute, upsert row by row | a date's list is one list: ranks distinct, in order of score |
| LLM evaluation: `jobs/llm_list_evaluation_job.go`, `services/llm`, `internal/llm` | `llm_list_evaluations` | check, load the list, render the prompt, call, parse, store | each list evaluated once; what is recommended was ranked |
| Trade outcomes: `jobs/trade_outcome_job.go`, `services/outcomes`, `trade_outcome_repo.go` | `trade_outcomes_daily`, `trade_outcomes_quarantine` | find pending dates, evaluate, deduplicate, quarantine, store, mark duplicates | one primary observation per ticker and window; implausible returns never in the statistics; every horizon is filled in the end |
| Net returns: `jobs/net_return_job.go`, `slippage.go` | net columns of `trade_outcomes_daily` | select, apply slippage, update | every gross return gets its net return |
| Attribution, experiments, prompt memory | `prompt_ticker_outcomes`, `prompt_experiment_results`, `prompt_memory` | replay exits over 30 days, aggregate, settle memories | the replay follows the path of the prices; a trade that is over stays over; verdicts are true |
| Commercial report, presentation | `commercial_reports` | load the memos, one LLM call, warnings, one upsert | what readers have seen is never replaced |
| Learning | `momentum_score_weights` | fit, store | numerical; not wired into the run |

The components meet in the database and in a few calls: the orchestrator triggers
the collector over HTTP, the collector posts to the API, the API writes the
screener tables, the orchestrator reads them and hands the tickers to the
ingestion, whose goroutines go on writing candles while the next steps read them.

### What is hard about it

- **Goroutines and channels.** Workers, a closer, a collector and two kinds of
  callers share two queues, a result channel and two signal channels that may be
  closed from three places. A cancellation can arrive between any two steps.
- **A long sequence with exceptions.** Some steps may fail and the run goes on,
  others abort it; a step that fails may have committed part of its work; the
  background ingestion ends after most of them.
- **Several processes on the same rows.** A POST that was given up still runs in
  the API while its retry and the next collection begin.
- **Tables over several nights.** Outcomes, net returns, regimes, ranks and exits
  are upserted again on reruns and on later nights, row by row, without a
  transaction around a job.
- **A chain of derived data.** Candles become indicators, a label, scores, ranks, a
  prompt, an answer and a report; each stage reads what the one before stored, for a
  date that may be stored again, and falls back to a default when it cannot.

The hazards, each at its line and with the property that watches it, are listed
in `PROJECT.json`.

## The modules

### IngestionBarrier and CandleIngestion

`IngestionBarrier` is what the orchestrator relies on: a set of jobs, some of them
CRITICAL, each accounted for once; a gate that opens with the last CRITICAL one;
an end after the last of all; a cancellation that may open and end it early; and a
caller who is told nil, a failure or the context's error.

`CandleIngestion` is the code of `async_ingestion.go` and
`ingestion_worker_pool.go`, one action per step of a goroutine:

| Model | Code |
|---|---|
| `Symbols`, `FromDate`, `UpToDate`, `CriticalJobs`, `NormalJobs`, `Start` | `buildSymbolList`, `computeFromDate`, `StartCandleIngestionAsync` |
| `ReceiveCritical`, `ReceiveNormal`, `LoopEnds` | the two range loops of `runPriorityWorker`, with the look at `ctx` |
| `IngestSucceeds`, `IngestFails`, `BackoffElapses`, `BackoffCancelled` | `ingestWithRetry` around `IngestTicker` |
| `CloseResults` | the goroutine that waits for the workers and closes `resultCh` |
| `CollectorStarts`, `Collect`, `CollectorEnds` | the collector goroutine, with its safety net |
| `WaitForPriorityIngestion`, `Wait` | the two methods of the handle |

The queues and the result channel are sets: nothing is added to a queue after the
workers start, the result channel has room for every job, and the order of results
is not observable. Candles are abstracted to the date of the newest one.

### NightlyPipeline

The orchestrator: the list of steps `main.go` builds, the loop of `runPipeline`,
the audit row, the drain and the jobs after it, next to an instance of
`IngestionBarrier` that lives as long as the process. A step is its effect on
`wrote`, the set of steps that have committed something. A step that begins on a
dead context writes nothing (every query is refused); one that fails half-way may
have written. The process may be killed at any point.

### SnapshotCollection

How screener rows get into the database: `TriggerCollection` (Go), `/run` with its
lock, `run_daily_job` and the retried POST (Python), and `postMarketSnapshot` (Go),
which writes three tables statement by statement.

| Model | Code |
|---|---|
| `Trigger`, `GiveUp`, `CheckSnapshot` | `tv_collector_client.go`, the steps after it in `steps.go` |
| `Screen`, `CollectionRaises`, `Answer`, `Restart` | `server.py`, `daily_job.py` |
| `Post`, `Delivered`, `Retry`, `SendFails` | `backend_client.py`; an answer may be lost on its way |
| `StoreFails`, `Store`, `UpsertTickers`, `InsertRows`, `Abort` | `handler.go` and the repositories it calls |

A request that the client gave up is not forgotten: its handler goes on, and its
statements interleave with those of the retry. A batch of one repository call is
one transaction of PostgreSQL and one action. `InsertRows` carries the foreign key
of migration 006.

### TradeOutcomes

What became of a signal: for weeks, every night, the outcome job evaluates its date
again with the candles that have arrived, decides anew whether the row is the
primary observation of its ticker, and upserts it; the net-return job fills further
columns once.

| Model | Code |
|---|---|
| `NextDay`, `RankAgain`, `Ingest`, `RunDates` | the steps before: published lists, stored candles, `--date` |
| `Pending`, `RunTradeOutcomeJob` | `GetPendingSignalDates` and the start of the job |
| `Tracking`, `ComputeOutcomes` | `ComputeOutcomes` and `evaluate` |
| `Prior`, `CrossList`, `Verdicts` | `GetPriorPrimaryObservation`, `GetCrossListPriorTicker` and what the job makes of them |
| `Refuse`, `UpsertTradeOutcome`, `UpsertFails` | the rest of the loop over the results, one row per step |
| `FlagDuplicates` | `FindDuplicateSignals`, `MarkDuplicateSignal` |
| `RunNetReturnJob` | the net-return job |

A day is a trading day, and a ticker's candles are all those up to its newest one, so
that counting candles between two days is subtracting them. Returns are abstracted
to the number of candles they rest on (`evaluated_days`) and to whether they are
plausible. The candles of one date's signals are read in one step; storing the rows
is one step per row, and candles may arrive between two dates. `Disturbances` says what may
go wrong in a run of the model: a query or an update that fails and is logged, an
error that aborts the job, the end of the process, implausible returns, candles that
arrive while the job works, and runs repeated for an earlier date.

Three defects of these tables can be read off the code and have no run of their own.
`UpsertQuarantine` always fails: its `ON CONFLICT` names columns that have no unique
index, so PostgreSQL refuses the statement, the job logs the error, and an implausible
result is in neither table (`Refuse` therefore stores nothing).
`GetPriorPrimaryObservation` reaches back `PrimaryWindowDays + 1` candles where its
comment says `PrimaryWindowDays` (`Prior`). And when that query fails, the row is
stored as primary next to an earlier one, against the comment of migration 059
(`Verdicts`).

### MarketRegime, with MarketSignals and RegimeClassifier

From candles to the label of a date. `MarketSignals`
holds the indicators as operators on sequences of candles, `RegimeClassifier` the score,
the smoothing, the caps and the circuit breaker, in integers chosen so that every sum of
the code's binary fractions is exact and a stored column rounds as PostgreSQL does.

| Model | Code |
|---|---|
| `IndexSignals`, `MarketWideSignals`, `TooFewBars` | `BuildMarketInputs` and `internal/indicators` |
| `Score`, `Smoothed`, `DrawdownCap`, `ClassifyRegime` | `ClassifyRegime` and its scores |
| `GateLevel`, `Evaluate` | `CircuitBreaker.Evaluate` |
| `FreshEnough`, `StartRun`, `ReadIndices`, `ReadBreadth`, `InsertMarketInputs` | `RunMarketInputsJob`; one action per read or upsert |
| `GetMarketInputs`, `GetLatestSmoothedBullStrength`, `UpsertMarketRegimeDaily`, `UpsertMarketRegime` | `RunMarketRegimeClassificationJob` |
| `GetByDate` | the end of the step in `main.go` |
| `Divergence`, `RunBreadthDivergenceJob` | `breadth_divergence.go` and its job |

The indices' candles and the stocks' are two reads between which candles arrive. The
candles are the newest ones whatever the date of the run, and so is the seed of the
smoothing: a run for an earlier date classifies today's market under that date. `settled`
is the only history variable, the dates whose last run got through.

The repository leaves the wiring of the circuit breaker out on purpose and says so in its
README ("Circuit-breaker wire-up"): `CircuitBreaker.Evaluate` is not called by `cmd/nightly`,
nothing writes `gate_level`, the gate of the later steps is always `full`. `GetByDate` models
that, and `Evaluate` is the function kept for reference: `GateIsSafe` is about the stored rows
and what this function would make of them, not about what the nightly run skips.

### RankLists, ListEvaluation and DailyReport

The chain from the screeners' rows to the report of the day, three modules each of which
extends the one before, over modules of pure operators:

| Module | Code |
|---|---|
| `ScreenerRows` | `extractTVSnapshots`, what the API makes of a payload |
| `MomentumEngine` | `MomentumEngine.Compute`, `shared.go`, `applyLeadershipBoost` |
| `SectorMomentum` | `BuildSectorScores`, `PercentileRanks` |
| `RankLists` | the sector momentum job and the ranking job, an upsert per step |
| `PromptRenderer` | the ticker table and the candle section of the momentum prompt |
| `LLMProviders` | `Generate` of the three clients: the text made of a reply |
| `ResponseParser` | the JSON contract, the parser of the text it falls back to, the identifiers that hide the tickers |
| `ListEvaluation` | `LLMListEvaluationJob` and `EvaluateList`, and the command for one date |
| `DailyReport` | `CommercialReportJob` and its command; the whole chain is its `Next` |

Scores are integers, `Whole` for 1. A reply of a provider is a sequence of events or
parts with small pieces of text; `Reading` says what the regular expressions find in a text
made of such pieces, so that an answer can be cut off between two of them. A step that
fails ends the run before the evaluation and only itself from there on. `renewed` is a history
variable, the ETFs and the tickers whose rows the last run for a date has upserted: two
sets, because a screener may deliver an ETF among its tickers.

### PromptLearning

The steps after the drain that look back on the recommendations: `ExitSimulator`
(`ReplayExitSequence`, `ValidateLevels`), `PromptAttribution` (`RunAttributionJob`, one
date per step, with the outcome job before it as far as it matters here),
`PromptExperiments` (the nightly job and the calibration report), `PromptMemory`
(`StoreMemories`, `UpdateOutcomes`) and `PromptLearning`, the nights and the commands
around them. Every statement that may fail and is only logged is a subset of rows that is
written. The candles of a day are stored with the day; a halted ticker has none, so that
sessions and days differ. The date of an exit is part of the model's row, so that
properties can speak of the path.

## What the runs show

| Run | Instance | Shows |
|---|---|---|
| `candle_ingestion` | 2 benchmarks, 1 stock, 2 workers, 2 attempts | no job lost or counted twice, no double close, the gate, termination, and that the code implements the barrier |
| `nightly_pipeline` | 2 tickers, collector and LLM steps wired | nothing is written on incomplete benchmark candles, the audit row tells what happened, the run ends |
| `snapshot_collection` | 2 callers, 2 attempts, 1 screener | one collection at a time; 200 only after the collection is over |
| `snapshot_tables` | 2 callers, 1 attempt, 2 screeners | no ticker or row without its snapshot; the lock is released whatever fails, also when the API never answers |
| `trade_outcomes` | 1 ticker on 2 lists, 5 days, at most a duplicate flag is not written | at no moment two primary rows of a day, between two runs never all of them dropped for each other; net returns rest on gross returns; a run evaluates as far as the candles go; every signal is complete in the end |
| `outcome_reruns` | 1 ticker on 2 lists, 3 days; failing queries, implausible returns, aborts, candles while the job works, runs for earlier dates | no row is dropped without a stored reason; a complete date stays complete; no run for today leaves a row with less |
| `market_regime` | 6 days of high, crash, rally or no session, 3 indices and 2 stocks, 2 runs for today or yesterday that end anywhere | no strength and no label hides a crash, whatever seed it was smoothed with; the three tables agree on a settled date; from its rows `CircuitBreaker.Evaluate` would not open fully in a deep drawdown |
| `daily_report` | 3 tickers for a list of 2, 2 ETFs, 2 days, 2 payloads, 5 replies, 2 runs or commands of any date that end anywhere | a ranking reads one whole cross-section; places follow scores; what the JSON contract recommends was ranked; an evaluation or report is never replaced |
| `prompt_learning` | 2 tickers, 4 days of 3 kinds, 3 answers, 2 runs in which any statement may fail | an exit is the first event of its path and stands; a memory's verdict is true; only picks with a known return are counted |

Three more runs ask what a comment says and find that the code does otherwise:

| Run | The comment | The code |
|---|---|---|
| `screener_tickers` | screener tickers are ingested as CRITICAL | one that is already in `tickers` stays NORMAL and may be missing when the ranking starts |
| `conflict_as_success` | after a 409 of the collector the running collection will have stored today's rows before step 2 needs them | the client returns at once, and step 2 and the ticker list read what is there, the collection being at its first screener |
| `early_exits` | a trade is entered at the next open and checked after that | the attribution replays from the signal's own date: a trade may be stopped in the session before its entry |

Other disagreements can be read off the code and have no run:

- the comment on `priorityDone` says it is closed once every CRITICAL ticker was
  processed; a cancelled run closes it before, harmlessly, since the next step begins on a
  dead context (`RegimeRestsOnBenchmarks`);
- the audit row of a run that a signal or the timeout ends stays `running`: it is
  finalised with the run's own context;
- the docstring of `/run` promises 500 when the POST fails or every screener does; the
  collection logs the error and answers 200;
- of a day's rows only the one of the best list should be primary; lists are stored in
  alphabetical order against the rows already there, and a date complete at its first
  evaluation is not corrected;
- the flag of a duplicate signal is reset by every later evaluation, and the
  10- and 20-day net returns stay empty in a row whose 5-day one is set;
- `evaluation_service.go` speaks of up to ten tickers of a list; the rows of an earlier run
  for the date stay in `daily_rank_lists`, so a list may hold more, and two of one rank;
- sector scores and the regime of a date given with `--date` rest on the newest candles,
  and the seed of the smoothing may be of the date itself or of a later one;
- `{{options_flow_table}}` in the template of the momentum prompt is replaced by nothing.

Every property of a passing run has a mutant: a definition with a plausible bug
(introduced in the modules as "Mutant:") under which the run must fail.

### Bounds

Two workers are enough for every race of the pool: a worker interacts with another
only through the queues and the result channel. Two benchmarks let the gate's
counter be at 2, 1 and 0 and one of them fail; one stock can be NORMAL, CRITICAL by
a screener, or absent. Two attempts have a first, a retry and a last one. The days
are yesterday, today and no candle: what `computeFromDate` tells apart. Two callers
are enough for one lock. The handlers of two collections and two attempts multiply
quickly, so the question about the tables takes one attempt and two screeners and
the one about the lock two attempts and one screener; the proofs cover the rest.
In `TradeOutcomes` rows interact only within one ticker, so one ticker is enough; two
lists show the cross-list decision, one the windows. The horizon of 20 candles, the
window of 20 and the duplicate window of 3 become 2 or 3, 1 to 3 and 1: the job
compares them with a difference of days and nothing else.
`trade_outcomes` looks back over all five days, so that its first date sees a row with
no candle, with some, with the whole horizon and past it, and its observation window
is short enough for a signal of the fourth day not to see the first. `outcome_reruns`
looks back no further than the horizon, so that dates also fall out of the lookback
incomplete; since it does not ask about net returns, it takes them only of complete
rows. A net return that cannot be computed is in no run, but in the proofs.
In `market_regime` averages are over 2 and 3 sessions and histories over 4, so that six days
hold a history, a crash and what follows; closes are chosen so that every score is
reached at more than one of its levels, and the strengths fall by more and by less than the
threshold of the bypass. In `daily_report` the third ticker makes the list drop one and an
earlier run's row stay; two ETFs have an order and a tie in the percentile; two days let
one date be run again after the other. The replies are one for each way a text comes
about: complete, cut, empty, broken off, in parts. Two runs are what a repetition takes.
In `prompt_learning` the replay of 20 sessions becomes 2 and the return of 5 becomes 2, with an
outcome of 3, so that a trade can end early, by time, and after its outcome is known.
The constants of the runs appear in their `.cfg`; `MaxDay`, the last day, and `MaxRuns`
are the bounds of the models. `SYMMETRY` is used on the callers in `snapshot_collection`, which
checks no liveness.

### Fairness

`CandleIngestion`: weak fairness of every goroutine's step and of the callers; a
provider or database call ends because the HTTP client and the context bound it.
Nothing forces a cancellation. `NightlyPipeline`: weak fairness of the main
goroutine and of the background ingestion, whose end is `RunEnds` of
`CandleIngestion`. `SnapshotCollection`: weak fairness of the collector's thread
only, since each of its calls has a timeout; nothing is assumed of the API.
`TradeOutcomes`: weak fairness of the night's job (cron starts it, its loop is
sequential over calls that end) and strong fairness of the next day and of each
ticker's candles. It is strong because the model stops both while the job runs, which
in the code takes minutes of a day. `EverySignalSettles` is checked only without
disturbances: a ticker that is delisted or a result refused for good keeps its date
pending until the lookback passes it. The other modules check safety only and state no
fairness.

## What is proved

Every invariant and every action property that a passing run checks is a theorem, for every
value of the constants that the named assumptions of the modules admit; four of them only for
some sets of `Disturbances` (below). What is left to TLC alone is liveness.

| Module | Theorems | For any |
|---|---|---|
| `CandleIngestionProofs` | types, the gate, `AllDoneIsFinal`, `JobConservation`, `NoPanic`, `BenchmarksCovered`, frozen error lists, CRITICAL before NORMAL, the refinement of the barrier | finite set of tickers, pool of workers, number of retries, dates |
| `NightlyPipelineProofs` | types, `RegimeRestsOnBenchmarks`, `PostStepsSeeAllCandles`, `AuditMatchesRun` | tickers, configuration of the steps |
| `SnapshotCollectionProofs` | types, `OneCollection`, `SnapshotFirst` | callers, attempts, screeners |
| `TradeOutcomesProofs` | types, `DroppedForAReason`, `SettledStays`, `NeverRegress`, `NetWithinGross`, `CompletedRunIsComplete`, `OnePrimaryPerDay`, `DayKeepsObservation` | tickers, lists, windows, days |
| `MarketRegimeProofs` | types, `NeverOverstated`, `SettledRowsAgree`, `GateIsSafe` | stocks, sessions, periods, weekends, batches of candles |
| `DailyReportProofs` | types, `RankingReadsWholeSectors`, `RanksFollowScores`, `RecommendedWereRanked`, `PublishedIsFinal` | tickers, ETFs, days, weights, payloads, replies |
| `PromptLearningProofs` | types, `ExitFollowsThePath`, `VerdictsAreTrue`, `OnlyMaturePicksCount`, `SettledExitStands` | finite set of tickers, markets, answers, windows, horizons |
| `OrderLemmas` | what three of them need of numbers and places in an order | |

**Ingestion.** `TypeOK` is proved together with `SleepsBetweenAttempts`. The
safety properties are not inductive: that the gate opens on time depends on the
collector's counter being the number of CRITICAL jobs not yet counted, which
depends on every job being in exactly one place, which depends on where each worker
is. `IInv` says all of that: `JobConservation`, `CollectorInv` (the collector's
position, its counter and the channels), `WorkersInv` (each worker's loop and the
queues), `ErrorsInv` (the error lists) and `NoPanic`. Every action is shown to
preserve it in a lemma of its own (`Invariance`); the safety theorems follow, and
`Refinement` shows that every step of the goroutines is a step of the barrier or a
stutter. `BenchmarksCovered` needs besides `CoveredInv`: a benchmark without a job had today's
candle when the queues were built and keeps it, and whoever was told nil was told so by an
error list that can no longer grow.

**Orchestrator.** `RegimeRestsOnBenchmarks` speaks of what was written, and a step writes on
the context it began with. `CandlesInv` therefore follows the context: past the wait for the
gate the benchmarks are there, or the run is cancelled and the next step begins dead, and a
step that began alive has them even if the cancellation comes while it works. The same holds
of the drain and the jobs after it. `AuditInv` says which steps have written at each position
and what the row can be there; `StepsAre` establishes, for each of the four configurations,
where in its slice a step stands. The proof uses of the barrier only its definition, which
`Refinement` shows the ingestion to implement.

**Collection.** The invariant adds to the properties how many attempts a stage
has behind it (`AttemptsInv`) and that a handler past its first statement has stored
the snapshot (`HandlersInv`).

**Outcomes.** `DroppedForAReason` is inductive with the types: rows are never
deleted, so a reason stays one (`ReasonsStay`). `SettledStays` is not. A run for an
earlier date may store less than a row has, and it is safe only because the date is not
settled when the run takes it, cannot become settled under the run's hands if its
horizon ends after the run's date, and is completed again otherwise. `JobInv` says so:
evaluations rest on candles that are there (`CandlesInv`), the dates still to do are not
settled (`PendingInv`), and the results of the date at hand are of different signals
and as complete as the run's date allows (`ResultsInv`). `RowsInv` adds that the results
of a run for today use every candle there is; `NeverRegressHolds` follows.

Four theorems have a hypothesis about `Disturbances`. `NetWithinGrossHolds` assumes that no run is for an earlier date.
`CompletedRunIsCompleteHolds` and `OnePrimaryPerDayHolds` assume `NothingMissing`: besides,
the candles of every signal can be read and no result is refused; the first, that no candle
arrives while the job works, the second, that the queries of the deduplication are answered.
`DayKeepsObservationHolds` assumes what the second does, and that no run is broken off. The
properties are false without these hypotheses, but for two of the last: with failing queries of
the deduplication or runs for earlier dates TLC finds no day that loses its observation, and only
the proof, which rests on `PeersInv`, needs them. Updates
may be lost and, but for the last theorem, the job may stop anywhere. `WorkInv` is what the first needs: a signal
in the window is evaluated as far as its candles go, or its date or result still waits. For
the second, `PeersInv` says that the rows of a ticker and day are stored in the order in which
the lists are visited, without a gap, and that a primary row has a stored peer of more
conviction only while the peer was stored after it and it comes to be stored again before the
peer does: then it finds the peer and gives way. For the third, `KeptInv` adds that the row of
most conviction counts, or waits to be stored again, or a row stored before it counts and is not
decided again before it. A run that is broken off between the two rows leaves both dropped until
the date is computed again.

**Regime.** Most of the work is arithmetic. Every category scores between nothing and
its points, so a raw strength is between 0 and 1 (`RawInRange`); the smoothed one is at
most an eighth of the range above it, because a fall by more than a quarter is not smoothed
(`SmoothedBounded`); a greater strength never gets a worse label, and the caps never a better
one (`LabelMonotone`, `CapBounded`). `Classified` puts them together for one classification
and any seed, and `NeverOverstatedHolds` follows with the types, which say that a seed is a
strength or none. `SettledRowsAgree` is not inductive: `RowsInv` adds what a run has in hand
at each of its positions (`InHand`: its date is not settled from the moment it replaces
the inputs, and what it classifies is what is stored) and what the caps leave of the label
(`SettledCapped`); `SettledRowsAgreeHolds` and `GateIsSafeHolds` follow. Nothing is needed
of the indicators.

**Report.** The first half of `DailyReportProofs` is about operators. A score is a number from
0 to `Whole` whatever fields a row lacks. `SortDescending` gives each row one place: a row has a
key, a number that orders rows by score and then by ticker, and the elements of a finite set of
numbers have the places 0, 1, 2, ... once each (`RankTaken`); so the list is as long as its set
and falls in score. What the JSON contract recommends is a part of what the prompt showed. The
second half is the invariant. `ListOK` is what a run carries while it stores its list: the rows
behind it are stored with their places, the rows of the run are the only ones it has renewed.
`CallOK` is what an evaluation carries while the model thinks: what was shown was ranked and
delivered then, and neither is ever deleted, whatever another payload replaces.
`NotYetPublished` says that from its check on a run that is about to store finds nothing
stored for its date; it is also what a second process would break. `Crossed` (in
`WholeSectors`) says that the ETFs whose score is not waiting any more have a row, of this run.
`Inv` is all of that with the types, and every action preserves each part.

**Learning.** Every row is what an operator gave for the candles up to some day, so
`LearningInv` says just that: an outcome is the evaluation as of some day (`OutcomesInv`), an
attributed row has the levels of its answer and the exit of the replay as of some day
(`PtoInv`), a verdict agrees with the candles (`MemoryInv`). The rest is about operators. Candles
are only added after the last day, so an earlier day's sessions are an initial segment of a
later one's; the first five sessions, once there are five, and the first session that ends the
trade are the same in both. The replay is a recursive function: `ReplayDefined` shows that it
has the value its definition describes, `IsExit` characterises that value (the first session
that stops the trade or reaches the target, or the last) and `ReplayExits` proves it of every
path.

**Induction.** The provers cannot instantiate the induction theorems of the library, which take
an operator as a parameter. `LeastNatural` replaces them: a set of natural numbers that is not
empty has a least element, because strict inclusion of the sets `0 .. n` is well-founded, and a
statement about every n is proved by looking at the least n for which it fails. The value of the
replay after every day and that every place in an order is taken (`RankTaken`) are reached in this
way. A statement about every sequence, tree or fold remains out of reach, and none is needed: the
models use sets, and functions of a number, where a proof passes.

**What the proofs assume.** The named assumptions in the modules, which TLC evaluates for each
instance: tickers and workers are finitely many where the code counts them, periods
and windows are numbers (positive where the code divides by them or takes that many), the fields
of a payload are numbers and its symbols known tickers, prices of candles are positive, the order
of the tickers names each once, no two lists have the same place or conviction.

**What the attempts found.** Two properties were false of instances TLC had not run, and were
corrected. A ticker whose every day in the replay's window is missing gets
a time exit at price 0 and no date: `ReplayExitSequence` returns its initial result when there is
no candle. With 20 sessions looked for in 40 days it takes a long halt, and the outcome job looks
60 days back, so such a row can be attributed; `ExitFollowsThePath` names the case. And `renewed`
was one set for ETFs and tickers, so that a name that is both would have counted as ranked when
only its sector score was stored. Both were errors of the models, not of the code.

**Only model-checked.** The liveness properties: `RunEnds` of `CandleIngestion` and of
`NightlyPipeline`, `LockFreed` and `EverySignalSettles`. They need fairness and `ENABLED`,
which are out of the provers' reach. `ImplementsBarrier` is both checked and proved.

## What is not modelled

- **Text.** The wording of prompts and reports, the regular expressions (what they find is
  `Reading`), the header of the prompt, chart patterns, HTTP requests.
- **Code nothing calls in production.** `EvaluateListWithVariant` and the variants,
  `GenerateHaltReport`, the synchronous path of the Anthropic client, the A/B significance
  test, the presentation package, the refit of the weights (a placeholder), the older sector
  scoring job, `RunDailyUpdate`. `StoreMemories` has no caller either, but it is
  what the nightly verdicts are for and is modelled. The divergence signal of a date is
  set by a job the nightly run does not call; `Diverging` stands for it.
- **The schema.** No migration adds `exit_*`, `disqualified` or `levels_invalid` to
  `prompt_ticker_outcomes`, so on a database made by the repository's migrations
  `UpsertOutcome` fails on every row; `PromptAttribution` models a database with the columns,
  and a statement that fails stores nothing. `UpsertQuarantine` fails always (above).
- **Arithmetic on one row.** The corporate-action adjustment of a return, the slippage tiers.
- **Overlap.** Two processes of the chain, or a command and the nightly run, at once;
  `CandleIngestion`, `SnapshotCollection` and `MarketRegime`'s ingestion have the overlaps
  inside a night.
- **The rate limiter and the connection pool.** Both bound calls and change no state that
  the other components see. `RunBackfill` is a sequential loop over one ticker at a time.
- **The universe snapshot.** It is read by nothing that is ranked or evaluated.

What the models keep although it may surprise: an answer nothing could be read from is
stored as an evaluation and never made again; an empty text of the Anthropic client counts
as an answer where the other two clients return an error, and the reason a stream
stopped is not looked at; a ticker named in the free text of an answer need not have been
ranked; the close of a time exit is adjusted while entry and stop are not; a time exit is
provisional and moves with every night until the trade is 20 sessions old; the experiments
and memories take today's date where the attribution takes the run's.

## Plan

1. An abstract specification of the outcome rows (a row per signal that only gains
   candles and is primary or has a reason) that `TradeOutcomes` implements.
2. A model of the rate limiter, with a bound on the calls a window can hold.
3. Two processes over the tables of `DailyReport`.

Theorems to come: that `NightlyPipeline` writes what it writes over `CandleIngestion` itself and
not only over the barrier; the refinement of point 1.
