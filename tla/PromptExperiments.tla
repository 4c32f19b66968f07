------------------------- MODULE PromptExperiments -------------------------
(***************************************************************************)
(* What is counted over the attributed rows: the nightly experiment job's  *)
(* results by prompt version, and the command run-calibration-analysis,    *)
(* which compares the model's conviction with the share of winners.        *)
(***************************************************************************)
EXTENDS PromptAttribution

CONSTANTS
  ExperimentDays,  \* how far back the rows are read (90)
  MinSample        \* rows a setup needs in the calibration report (10)

ASSUME ExperimentsAssumption == ExperimentDays \in Nat /\ MinSample \in Nat \ {0}

VARIABLE results  \* prompt_experiment_results: [picks, returns, wins, first, last], by version and date

GetByDateRange(from, to) == {k \in DOMAIN pto : k[1] \in from .. to}

\* Mutant: recommendations of any age.
MatureAtOnce(rows) == {k \in rows : pto[k].recommended}

\* The rows that count: recommended, with the five-day return behind them.
Mature(rows) == {k \in rows : pto[k].recommended /\ pto[k].days >= FiveDays}

Won(rows) == {k \in rows : pto[k].ret = "win"}

Result(rows) ==
  [picks |-> Cardinality(rows),
   returns |-> Cardinality({k \in rows : pto[k].ret # "null"}),
   wins |-> Cardinality(Won(rows)),
   first |-> Min({k[1] : k \in rows}), last |-> Max({k[1] : k \in rows})]

UpsertExperiments(groups) == Upserted(results, groups)

\* One row for each version, dated today; a row that fails is logged.
RunNightlyPromptExperimentJob ==
  LET rows == Mature(GetByDateRange(today - ExperimentDays, today))
      versions == {pto[k].version : k \in rows}
      Group(v) == {k \in rows : pto[k].version = v}
  IN  /\ run.pc = "experiments"
      /\ \E stored \in SUBSET versions :
           results' = UpsertExperiments([k \in stored \X {today} |-> Result(Group(k[1]))])
      /\ run' = [run EXCEPT !.pc = "memory"]
      /\ UNCHANGED <<today, candles, evaluations, outcomes, pto>>

-----------------------------------------------------------------------------

ConvictionToNumeric(levels) ==
  IF "conviction" \notin DOMAIN levels THEN 0
  ELSE CASE levels.conviction = "HIGH" -> 3 [] levels.conviction = "MEDIUM" -> 2
         [] levels.conviction = "STARTER" -> 1 [] OTHER -> 0

\* The gap in percentage points, scaled by d: the mean conviction in percent of
\* 3, 0 without any, against the share of winners.  The convictions add up to the
\* number of rows of 1 or more, of 2 or more and of 3.
CalibrationFlag(rows) ==
  LET AtLeast(c) == {k \in rows : ConvictionToNumeric(pto[k].levels) >= c}
      n == Cardinality(rows)
      m == Max({Cardinality(AtLeast(1)), 1})
      conviction == Cardinality(AtLeast(1)) + Cardinality(AtLeast(2)) + Cardinality(AtLeast(3))
      d == 3 * m * n
      gap == 100 * conviction * n - 100 * Cardinality(Won(rows)) * 3 * m
  IN  CASE gap > 15 * d  -> "OVERCONFIDENT"
        [] gap < -15 * d -> "UNDERCONFIDENT"
        [] OTHER         -> "OK"

\* What the command run-calibration-analysis prints of the dates from .. to.
GenerateCalibrationReport(from, to) ==
  LET rows == {k \in Mature(GetByDateRange(from, to)) : "setup" \in DOMAIN pto[k].levels}
      OfSetup(s) == {k \in rows : pto[k].levels.setup = s}
      reported == {s \in {pto[k].levels.setup : k \in rows} : Cardinality(OfSetup(s)) >= MinSample}
  IN  [s \in reported |-> [count |-> Cardinality(OfSetup(s)), wins |-> Cardinality(Won(OfSetup(s))),
                           flag |-> CalibrationFlag(OfSetup(s))]]
=============================================================================
