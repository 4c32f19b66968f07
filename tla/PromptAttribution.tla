------------------------- MODULE PromptAttribution -------------------------
(***************************************************************************)
(* PromptOutcomeAttributionJob: every night the recommendations of the     *)
(* last Lookback days are joined with the trade outcomes of their tickers, *)
(* each recommendation with valid levels is replayed over the candles, and *)
(* one row of prompt_ticker_outcomes is written for every ticker the model *)
(* was shown.  A date is attributed again every night until it is too old. *)
(*                                                                         *)
(* The evaluations are those of the momentum list, the only list with      *)
(* rows.  Errors are logged and passed over, so every statement that may   *)
(* fail is one that may have no effect: a write to a database without the  *)
(* columns it names always fails.                                          *)
(***************************************************************************)
EXTENDS ExitSimulator

CONSTANTS
  Tickers,
  Lookback,  \* dates that the job goes back (30)
  Horizon,   \* sessions of a complete trade outcome (20)
  FiveDays   \* sessions of the first return the learning uses (5)

ASSUME AttributionAssumption ==
  /\ IsFiniteSet(Tickers)
  /\ {Lookback, Horizon, FiveDays} \subseteq Nat \ {0} /\ FiveDays <= Horizon

VARIABLES
  today,        \* the day
  candles,      \* candles_daily: candles[t] as in ExitSimulator
  evaluations,  \* llm_list_evaluations: [version, input, success, picks], by date
  outcomes,     \* trade_outcomes_daily: [days, ret], by date and ticker
  pto,          \* prompt_ticker_outcomes, by date and ticker
  run           \* the job at work: [pc, date, back, nightly]

\* The rows of table, those of rows instead where they have one.
Upserted(table, rows) ==
  [k \in DOMAIN table \cup DOMAIN rows |-> IF k \in DOMAIN rows THEN rows[k] ELSE table[k]]

Put(table, key, row) == Upserted(table, [k \in {key} |-> row])

-----------------------------------------------------------------------------
(* What the repositories read *)

GetCandles(t, from, to) ==
  LET days == {d \in DOMAIN candles[t] : d \in from .. to} IN [d \in days |-> candles[t][d]]

\* The dates, at most this one, with an evaluation.
GetEvaluationsByDate(date) == {date} \cap DOMAIN evaluations

GetTradeOutcomes(date) == {k \in DOMAIN outcomes : k[1] = date}

-----------------------------------------------------------------------------
(* The outcome of a signal, as ComputeOutcomes has it *)

\* The sessions after the signal's day and not after the cutoff.
TrackingCandles(t, date, cutoff) ==
  FirstDays({d \in DOMAIN GetCandles(t, date, cutoff) : d > date}, Horizon)

\* The n-th day of a set.
Nth(days, n) == CHOOSE d \in days : Cardinality({e \in days : e < d}) = n - 1

\* The return after FiveDays sessions, against the open of the first.
Return5D(t, tracking) ==
  IF Cardinality(tracking) < FiveDays THEN "null"
  ELSE IF candles[t][Nth(tracking, FiveDays)].close > candles[t][Nth(tracking, 1)].open THEN "win"
  ELSE "loss"

EvaluateOutcome(t, date, cutoff) ==
  LET tracking == TrackingCandles(t, date, cutoff)
  IN  [days |-> Cardinality(tracking), ret |-> Return5D(t, tracking)]

\* The signals of the dates before the run's that have a candle for the entry.
Signals(date) ==
  {k \in (1 .. date - 1) \X Tickers :
     /\ k[1] \in DOMAIN evaluations /\ k[2] \in evaluations[k[1]].input
     /\ TrackingCandles(k[2], k[1], date) # {}}

\* The outcome job as far as the attribution sees it: some of the signals that
\* are not complete are evaluated (again) with the candles up to the run's date.
RunTradeOutcomeJob ==
  LET due == {k \in Signals(run.date) : k \in DOMAIN outcomes => outcomes[k].days < Horizon}
  IN  /\ run.pc = "outcomes"
      /\ \E done \in SUBSET due :
           outcomes' = Upserted(outcomes, [k \in done |-> EvaluateOutcome(k[2], k[1], run.date)])
      /\ run' = [run EXCEPT !.pc = "attribute"]
      /\ UNCHANGED <<today, candles, evaluations, pto>>

-----------------------------------------------------------------------------
(* The attribution *)

NoExit == [type |-> "none"]

HasLevels(levels) == {"low", "high", "stop"} \subseteq DOMAIN levels

LevelsInvalid(levels) == HasLevels(levels) /\ ~ValidateLevels(levels)

\* Mutant: flagged levels are replayed too.
ReplayAnyLevels(t, date, levels, days) ==
  IF days = 0 \/ ~HasLevels(levels) THEN NoExit
  ELSE ReplayExitSequence(GetCandles(t, date, date + 2 * MaxExitDays), date, levels)

\* The replay begins on the date of the signal.
ComputePathAwareExit(t, date, levels, days) ==
  IF days = 0 \/ ~HasLevels(levels) \/ LevelsInvalid(levels) THEN NoExit
  ELSE ReplayExitSequence(GetCandles(t, date, date + 2 * MaxExitDays), date, levels)

\* The row of the ticker, days 0 without one.
OutcomeOf(date, t) ==
  IF <<date, t>> \in GetTradeOutcomes(date) THEN outcomes[<<date, t>>] ELSE [days |-> 0, ret |-> "null"]

\* The row of ticker t.  A replay whose candles are not loaded leaves its fields
\* null, whatever an earlier night has stored.
Attributed(date, t, loaded) ==
  LET eval == evaluations[date]
      outcome == OutcomeOf(date, t)
      picked == t \in DOMAIN eval.picks
      levels == IF picked THEN eval.picks[t] ELSE <<>>
  IN  [version |-> eval.version, recommended |-> picked, levels |-> levels,
       days |-> outcome.days, ret |-> outcome.ret,
       invalid |-> picked /\ LevelsInvalid(levels),
       exit |-> IF picked /\ loaded THEN ComputePathAwareExit(t, date, levels, outcome.days) ELSE NoExit]

\* Evaluations of which nothing was read are skipped.
Attributable(date) ==
  \E d \in GetEvaluationsByDate(date) : evaluations[d].success /\ DOMAIN evaluations[d].picks # {}

UpsertOutcomes(date, stored, loaded) ==
  Upserted(pto, [k \in {date} \X stored |-> Attributed(date, k[2], k[2] \in loaded)])

\* The next date back.  A read that fails stores nothing.
AttributeDate ==
  LET date == run.date - run.back
  IN  /\ run.pc = "attribute" /\ run.back <= Lookback
      /\ \/ ~Attributable(date) /\ UNCHANGED pto
         \/ /\ Attributable(date)
            /\ \E stored \in SUBSET evaluations[date].input :
                 \E loaded \in SUBSET (stored \cap DOMAIN evaluations[date].picks) :
                   pto' = UpsertOutcomes(date, stored, loaded)
      /\ run' = [run EXCEPT !.back = @ + 1]
      /\ UNCHANGED <<today, candles, evaluations, outcomes>>
============================================================================
