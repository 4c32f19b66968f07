---------------------------- MODULE MarketRegime ----------------------------
(***************************************************************************)
(* The market regime: the steps of the nightly run that turn candles into  *)
(* a row of market_inputs_daily and the row into a label, what the later   *)
(* steps get for a gate, and what the circuit breaker would say of the     *)
(* rows, next to an ingestion that goes on storing candles.  MarketSignals *)
(* and RegimeClassifier hold the arithmetic; here is when it reads what,   *)
(* and what is left in which table.                                        *)
(*                                                                         *)
(* A day is a calendar day.  market[d] gives the candles the exchange has  *)
(* made on day d, a function from the tickers it traded: nothing on a day  *)
(* without a session.  A table is a function from the dates of its rows.   *)
(* One run works at a time; it may be for an earlier date (--date), it may *)
(* be repeated, and it may end at any point.                               *)
(***************************************************************************)
EXTENDS MarketSignals, RegimeClassifier

CONSTANTS
  Stocks,        \* the tickers of candles_daily that are neither index nor ETF
  Batches,       \* bound: the groups of tickers whose candles arrive together
  FirstSessions, \* the candles of the days before the model starts
  Shapes,        \* bound: what a session may look like
  Weekends,      \* the days that are a Saturday or a Sunday
  Grace,         \* the freshness check allows 4 days
  WeekBack,      \* the offsets computeBreadthChange tries: 7 .. 10
  Back,          \* bound: how many days ago --date may be
  MaxRuns,       \* bound: the runs of the model
  MaxDay         \* bound: the days of the model

Indices == {"SPY", "QQQ", "IWM", "VIX"}
Tickers == Indices \cup Stocks
Days == 1 .. MaxDay

ASSUME RegimeAssumption ==
  /\ Stocks \cap Indices = {} /\ UNION Batches = Tickers
  /\ {MaxDay, MaxRuns, Grace, Back} \subseteq Nat /\ WeekBack \subseteq Nat \ {0}
  /\ FirstSessions \in Seq(Shapes \cup {<<>>}) /\ Len(FirstSessions) \in Days

VARIABLES
  market,   \* the sessions so far; its length is today
  newest,   \* the day up to which a ticker's candles are stored
  run,      \* the nightly run: [pc, date, in, seed, seedDay, gate]
  inputs,   \* market_inputs_daily
  daily,    \* market_regime_daily: [label, raw, smoothed]
  diverges, \* its column breadth_divergence_signal
  regime,   \* market_regime: the label of a date
  settled,  \* history: the dates whose rows the last run for them has all written
  runs      \* the runs started, for the bound

vars == <<market, newest, run, inputs, daily, diverges, regime, settled, runs>>
tables == <<inputs, daily, diverges, regime, settled>>

Pcs == {"idle", "inputs", "breadth", "persist", "classify", "seed", "daily",
        "singleton", "gate", "rank"}
NoRow == [none |-> 0]
Idle == [pc |-> "idle", date |-> 0, in |-> NoRow, seed |-> NoHistory, seedDay |-> 0, gate |-> ""]

today == Len(market)

\* An upsert by date.
Put(table, key, row) == [k \in DOMAIN table \cup {key} |-> IF k = key THEN row ELSE table[k]]

\* The dates of a ticker's stored candles, and the candles, oldest first.
CandleDays(t) == SelectSeq([d \in 1 .. newest[t] |-> d], LAMBDA d : t \in DOMAIN market[d])
CandlesSince(t, from) ==
  LET dates == SelectSeq(CandleDays(t), LAMBDA d : d >= from)
  IN  [i \in DOMAIN dates |-> market[dates[i]][t]]
GetIndexHistory(t, n) == Newest(CandlesSince(t, 1), n)

Init ==
  /\ market = FirstSessions
  /\ newest = [t \in Tickers |-> 0]
  /\ run = Idle
  /\ inputs = <<>> /\ diverges = <<>> /\ regime = <<>> /\ settled = {} /\ runs = 0
  \* a row of the first classifier has no strengths
  /\ daily \in {<<>>, [d \in {1} |-> [label |-> "bull", raw |-> NoHistory, smoothed |-> NoHistory]]}

-----------------------------------------------------------------------------
(* The world: a day goes by, candles arrive.                               *)

NextDay ==
  /\ run = Idle
  /\ today < MaxDay
  /\ \E shape \in (IF today + 1 \in Weekends THEN {<<>>} ELSE Shapes) : market' = Append(market, shape)
  /\ UNCHANGED <<newest, run, runs, tables>>

Ingest(batch) ==
  /\ \E t \in batch : newest[t] < today
  /\ newest' = [t \in Tickers |-> IF t \in batch THEN today ELSE newest[t]]
  /\ UNCHANGED <<market, run, runs, tables>>

-----------------------------------------------------------------------------
(* RunMarketInputsJob.                                                     *)

\* The check before it, which a weekend date skips.
FreshEnough(date) ==
  \/ date \in Weekends
  \/ \E d \in Range(CandleDays("SPY")) : d >= date - Grace

StartRun(date) ==
  /\ run = Idle
  /\ date >= today - Back
  /\ runs < MaxRuns
  /\ runs' = runs + 1
  /\ FreshEnough(date)
  /\ run' = [Idle EXCEPT !.pc = "inputs", !.date = date]
  /\ UNCHANGED <<market, newest, tables>>

\* BuildMarketInputs, steps 1 to 5.  The candles are the newest ones, whatever
\* the date.
ReadIndices ==
  /\ run.pc = "inputs"
  /\ LET history(t) == GetIndexHistory(t, MinHistory)
     IN  IF TooFewBars(history("SPY"), history("QQQ"), history("IWM"))
         THEN run' = Idle
         ELSE run' = [run EXCEPT !.pc = "breadth",
                                 !.in = IndexSignals(history("SPY"), history("QQQ"), history("IWM"))]
  /\ UNCHANGED <<market, newest, runs, tables>>

\* GetAllStocksHistory goes back to SPY's MinHistory-th newest candle; SPY with
\* fewer candles ends the job.  A ticker without a candle since then is not in the map.
Cutoff == CandleDays("SPY")[Len(CandleDays("SPY")) - MinHistory + 1]

GetAllStocksHistory ==
  LET candles == [t \in Stocks |-> CandlesSince(t, Cutoff)]
  IN  [t \in {u \in Stocks : candles[u] # <<>>} |-> candles[t]]

\* Steps 6 and 7.  A failed query for VIX counts as no data; $TICK is read too,
\* but nothing in the program stores candles for it.
ReadBreadth ==
  /\ run.pc = "breadth"
  /\ IF Len(CandleDays("SPY")) < MinHistory
     THEN run' = Idle
     ELSE \E vix \in {GetIndexHistory("VIX", 2), <<>>} :
            run' = [run EXCEPT !.pc = "persist",
                               !.in = MarketWideSignals(GetAllStocksHistory, vix, <<>>) @@ run.in]
  /\ UNCHANGED <<market, newest, runs, tables>>

InsertMarketInputs ==
  /\ run.pc = "persist"
  /\ inputs' = Put(inputs, run.date, run.in)
  /\ settled' = settled \ {run.date}
  /\ run' = [run EXCEPT !.pc = "classify"]
  /\ UNCHANGED <<market, newest, runs, daily, diverges, regime>>

-----------------------------------------------------------------------------
(* RunMarketRegimeClassificationJob.                                       *)

\* Mutant: the newest inputs, whatever the date of the run.
GetLatestMarketInputs ==
  /\ run.pc = "classify"
  /\ LET d == CHOOSE d \in DOMAIN inputs : \A e \in DOMAIN inputs : e <= d
     IN  run' = [run EXCEPT !.pc = "seed", !.in = inputs[d]]
  /\ UNCHANGED <<market, newest, runs, tables>>

GetMarketInputs ==
  /\ run.pc = "classify"
  /\ run.date \in DOMAIN inputs
  /\ run' = [run EXCEPT !.pc = "seed", !.in = inputs[run.date]]
  /\ UNCHANGED <<market, newest, runs, tables>>

\* The strength of the newest row, of whatever date.
GetLatestSmoothedBullStrength ==
  /\ run.pc = "seed"
  /\ \/ /\ DOMAIN daily = {}
        /\ run' = [run EXCEPT !.pc = "daily"]
     \/ \E d \in DOMAIN daily :
          /\ \A e \in DOMAIN daily : e <= d
          /\ run' = [run EXCEPT !.pc = "daily", !.seed = daily[d].smoothed, !.seedDay = d]
  /\ UNCHANGED <<market, newest, runs, tables>>

\* A signal in the row stays.
UpsertMarketRegimeDaily ==
  /\ run.pc = "daily"
  /\ daily' = Put(daily, run.date, ClassifyRegime(run.in, run.seed))
  /\ run' = [run EXCEPT !.pc = "singleton"]
  /\ UNCHANGED <<market, newest, runs, inputs, diverges, regime, settled>>

UpsertMarketRegime ==
  /\ run.pc = "singleton"
  /\ regime' = Put(regime, run.date, ClassifyRegime(run.in, run.seed).label)
  /\ settled' = settled \cup {run.date}
  /\ run' = [run EXCEPT !.pc = "gate"]
  /\ UNCHANGED <<market, newest, runs, inputs, daily, diverges>>

\* The end of the step in main.go.  The wiring of the circuit breaker is left out of
\* this repository on purpose (README): the query for gate_level fails, and the gate
\* is "full".
GetByDate ==
  /\ run.pc = "gate"
  /\ run' = [run EXCEPT !.pc = "rank", !.gate = "full"]
  /\ UNCHANGED <<market, newest, runs, tables>>

\* The later steps, which the gate admits.
LaterSteps ==
  /\ run.pc = "rank"
  /\ run' = Idle
  /\ UNCHANGED <<market, newest, runs, tables>>

\* A query fails, or the process ends.
Abort ==
  /\ run.pc # "idle"
  /\ run' = Idle
  /\ UNCHANGED <<market, newest, runs, tables>>

-----------------------------------------------------------------------------
(* What reads the rows afterwards.                                         *)

\* CircuitBreaker.Evaluate: no row halts; inputs without a VIX count as 0.
Evaluate(date) ==
  IF date \notin DOMAIN daily THEN "halt"
  ELSE GateLevel(daily[date].label, IF date \in DOMAIN inputs THEN inputs[date].vixLevel ELSE 0)

\* computeBreadthChange: against the first row a week or more back.
BreadthChange(date) ==
  LET found == {offset \in WeekBack : date - offset \in DOMAIN inputs}
  IN  IF found = {} THEN 0
      ELSE inputs[date].breadth50 - inputs[date - Min(found)].breadth50

\* BreadthDivergenceService.Compute: SPY up by more than 1 % while breadth is not.
Divergence(date) ==
  LET spy == GetIndexHistory("SPY", 2 * VelocityLag)
      change == IF inputs[date].velocity # 0 THEN inputs[date].velocity ELSE BreadthChange(date)
  IN  /\ Len(spy) > VelocityLag
      /\ date \in DOMAIN inputs
      /\ PerfReturn(Closes(spy), VelocityLag) > 100
      /\ change <= 0

\* Mutant: the update inserts a row that is missing.
UpsertBreadthDivergence(date) ==
  /\ run = Idle
  /\ diverges' = Put(diverges, date, Divergence(date))
  /\ UNCHANGED <<market, newest, run, runs, inputs, daily, regime, settled>>

\* RunBreadthDivergenceJob; without a row of the date its update does nothing.
RunBreadthDivergenceJob(date) ==
  /\ run = Idle
  /\ date \in DOMAIN daily
  /\ diverges' = Put(diverges, date, Divergence(date))
  /\ UNCHANGED <<market, newest, run, runs, inputs, daily, regime, settled>>

-----------------------------------------------------------------------------
Next ==
  \/ NextDay
  \/ \E batch \in Batches : Ingest(batch)
  \/ \E date \in 1 .. today : StartRun(date)
  \/ RunBreadthDivergenceJob(today)
  \/ ReadIndices \/ ReadBreadth \/ InsertMarketInputs
  \/ GetMarketInputs \/ GetLatestSmoothedBullStrength
  \/ UpsertMarketRegimeDaily \/ UpsertMarketRegime \/ GetByDate \/ LaterSteps
  \/ Abort

Spec == Init /\ [][Next]_vars

-----------------------------------------------------------------------------
(* Properties.                                                             *)

Strengths == 0 .. FullStrength \cup {NoHistory}
DailyRow == [label : Labels, raw : Strengths, smoothed : Strengths]

\* The tables hold dates of the model, labels and strengths between 0 and 1,
\* and the run is at one of its points with a seed it may smooth against.
TypeOK ==
  /\ market \in Seq(Shapes \cup {<<>>}) /\ today \in Days
  /\ newest \in [Tickers -> 0 .. today]
  /\ DOMAIN run = DOMAIN Idle /\ run.pc \in Pcs /\ run.seed \in Strengths
  /\ run # Idle => run.date \in 1 .. today
  /\ DOMAIN inputs \subseteq Days /\ DOMAIN regime \subseteq Days
  /\ DOMAIN daily \subseteq Days /\ \A d \in DOMAIN daily : daily[d] \in DailyRow
  /\ DOMAIN diverges \subseteq DOMAIN daily
  /\ settled \subseteq Days /\ runs \in 0 .. MaxRuns

\* In a crash the smoothing gives way: no stored strength is more than an eighth
\* of the range (and what the rounding of the column adds) above the strength of
\* its own session, and no label is better than such a strength deserves,
\* whatever the seed was and whichever date it came from.
NeverOverstated ==
  \A d \in DOMAIN daily :
    daily[d].smoothed # NoHistory =>
      LET most == daily[d].raw + 60 * PointWorth + 12
      IN  /\ daily[d].smoothed <= most
          /\ RegimeRank[daily[d].label] <= RegimeRank[LabelFromStrength(most)]

\* When a run for a date has got through, the row the circuit breaker reads and
\* the row of the legacy table tell the same story, and both tell that of the
\* stored inputs, however many runs were broken off before it.
SettledRowsAgree ==
  \A d \in settled :
    /\ d \in DOMAIN inputs \cap DOMAIN daily \cap DOMAIN regime
    /\ regime[d] = daily[d].label
    /\ daily[d].raw = Stored(RawBullStrength(inputs[d]))

\* With SPY more than a fifth below its high CircuitBreaker.Evaluate would not open
\* fully, however bullish the days before were.  It speaks of the stored rows and of
\* that function; nothing in the repository calls it.
GateIsSafe ==
  \A d \in settled : inputs[d].drawdown < -20 * Percent => Evaluate(d) # "full"

=============================================================================
