--------------------------- MODULE PromptLearning ---------------------------
(***************************************************************************)
(* What the system learns from its own recommendations: the steps after    *)
(* the drain of the nightly run, night after night, and the commands that  *)
(* share their tables.                                                     *)
(*                                                                         *)
(* An operator introduced as "Mutant:" is a plausible wrong version of the *)
(* definition after it.                                                    *)
(***************************************************************************)
EXTENDS PromptMemory

CONSTANTS
  MaxRuns,     \* bound of the model: runs of the two commands
  MaxRerun,    \* bound of the model: how far back --date goes
  MaxDay,      \* bound of the model: the last day
  LastSignal,  \* bound of the model: the last day with an evaluation
  Markets,     \* bound: the candles of a day, by ticker
  Answers      \* bound: the evaluations of a day

ASSUME WorldAssumption == {MaxRuns, MaxRerun, MaxDay, LastSignal} \subseteq Nat

\* Prices of candles are positive; the levels of a recommendation are numbers, of
\* whatever sign, where they are not null.
CandleOK(candle) ==
  /\ {"open", "low", "high", "close"} \subseteq DOMAIN candle
  /\ \A field \in DOMAIN candle : candle[field] \in Nat \ {0}

LevelsTyped(levels) ==
  \A field \in {"low", "high", "stop", "t1", "t2"} \cap DOMAIN levels : levels[field] \in Int

ASSUME MarketsAssumption ==
  \A bars \in Markets : \A t \in DOMAIN bars : t \in Tickers /\ CandleOK(bars[t])
ASSUME AnswersAssumption ==
  \A answer \in Answers :
    /\ answer.input \cup DOMAIN answer.picks \subseteq Tickers
    /\ \A t \in DOMAIN answer.picks : LevelsTyped(answer.picks[t])

VARIABLE runs  \* the runs started so far

vars == <<today, candles, evaluations, outcomes, pto, run, results, memory, runs>>

Idle == [pc |-> "idle", date |-> 0, back |-> 1, nightly |-> FALSE]

Init ==
  /\ today = 0 /\ candles = [t \in Tickers |-> <<>>]
  /\ evaluations = <<>> /\ outcomes = <<>> /\ pto = <<>> /\ results = <<>>
  /\ memory = <<>> /\ run = Idle /\ runs = 0

\* A day's candles, none for a ticker that is halted, and its evaluation if one
\* is made.
NextDay ==
  /\ run.pc = "idle" /\ today < MaxDay
  /\ today' = today + 1
  /\ \E bars \in Markets :
       candles' = [t \in Tickers |-> IF t \in DOMAIN bars THEN Put(candles[t], today + 1, bars[t])
                                     ELSE candles[t]]
  /\ \/ UNCHANGED evaluations
     \/ \E answer \in Answers : today < LastSignal /\ evaluations' = Put(evaluations, today + 1, answer)
  /\ UNCHANGED <<outcomes, pto, run, results, memory, runs>>

\* The end of a nightly run, for today or for the date given with --date, and
\* the command run-prompt-outcome-attribution.
StartNightly(date) ==
  /\ run.pc = "idle" /\ runs < MaxRuns /\ runs' = runs + 1
  /\ run' = [Idle EXCEPT !.pc = "outcomes", !.date = date, !.nightly = TRUE]
  /\ UNCHANGED <<today, candles, evaluations, outcomes, pto, results, memory>>

StartAttribution(date) ==
  /\ run.pc = "idle" /\ runs < MaxRuns /\ runs' = runs + 1
  /\ run' = [Idle EXCEPT !.pc = "attribute", !.date = date]
  /\ UNCHANGED <<today, candles, evaluations, outcomes, pto, results, memory>>

\* The nightly run goes on with the experiments, which take today's date.
EndAttribution ==
  /\ run.pc = "attribute" /\ run.back > Lookback
  /\ run' = IF run.nightly THEN [run EXCEPT !.pc = "experiments"] ELSE Idle
  /\ UNCHANGED <<today, candles, evaluations, outcomes, pto, results, memory, runs>>

\* The process ends.
Stop ==
  /\ run.pc # "idle" /\ run' = Idle
  /\ UNCHANGED <<today, candles, evaluations, outcomes, pto, results, memory, runs>>

Next ==
  \/ NextDay
  \/ \E date \in Max({1, today - MaxRerun}) .. today : StartNightly(date) \/ StartAttribution(date)
  \/ RunTradeOutcomeJob /\ UNCHANGED <<results, memory, runs>>
  \/ AttributeDate /\ UNCHANGED <<results, memory, runs>>
  \/ EndAttribution
  \/ RunNightlyPromptExperimentJob /\ UNCHANGED <<memory, runs>>
  \/ UpdateOutcomes /\ UNCHANGED runs
  \/ \E date \in DOMAIN evaluations : StoreMemories(date) /\ UNCHANGED runs
  \/ Stop

Spec == Init /\ [][Next]_vars

-----------------------------------------------------------------------------
(* Properties *)

Returns == {"null", "win", "loss"}
Keys == (1 .. MaxDay) \X Tickers
ExitOK(exit) ==
  /\ exit.type \in {"stop", "target_2", "time"}
  /\ IF exit.day = 0 THEN exit.type = "time" /\ exit.price = 0
     ELSE exit.price > 0 /\ exit.day \in 1 .. MaxDay

\* Every table holds rows of the shape its statements write.  A row with a return
\* has the sessions for it, flagged levels have no exit, and every date's rows are
\* of tickers that its evaluation was shown.
TypeOK ==
  /\ today \in 0 .. MaxDay /\ run.date \in 0 .. today /\ run.back \in 1 .. Lookback + 1
  /\ run.pc \in {"idle", "outcomes", "attribute", "experiments", "memory"}
  /\ \A t \in Tickers : DOMAIN candles[t] \subseteq 1 .. today
  /\ DOMAIN evaluations \subseteq 1 .. today
  /\ UNION {DOMAIN outcomes, DOMAIN pto, DOMAIN memory} \subseteq Keys
  /\ \A k \in DOMAIN outcomes :
       outcomes[k].days \in 1 .. Horizon /\ (outcomes[k].ret # "null" <=> outcomes[k].days >= FiveDays)
  /\ \A k \in DOMAIN pto :
       /\ k[2] \in evaluations[k[1]].input /\ pto[k].version = evaluations[k[1]].version
       /\ pto[k].ret \in Returns /\ (pto[k].ret # "null" <=> pto[k].days >= FiveDays)
       /\ pto[k].exit # NoExit => pto[k].recommended /\ ~pto[k].invalid /\ ExitOK(pto[k].exit)
  /\ \A k \in DOMAIN results :
       results[k].wins <= results[k].returns /\ results[k].first <= results[k].last
  /\ \A k \in DOMAIN memory : memory[k].status \in {"pending", "verified", "insufficient_data"}

\* A simulated exit is the first event of the path that ends the trade.  The stop
\* or the second target is touched in the session of the exit, neither in a session
\* before, and the stop wins when both are; a time exit has no such session up to
\* its own.  The first target counts if it was reached by then.  Whichever night
\* stored the row, and whatever has been delivered since.  A ticker that was halted
\* for all the days of the replay has a time exit on no day.
ExitFollowsThePath ==
  \A k \in {j \in DOMAIN pto : pto[j].exit.type # "none"} :
    LET bars == candles[k[2]]
        l == pto[k].levels
        exit == pto[k].exit
        Stopped(d) == bars[d].low <= l.stop
        Reached(d) == Target2(l) > 0 /\ bars[d].high >= Target2(l)
        path == {d \in DOMAIN bars : d \in k[1] .. exit.day}
        halted == \A d \in k[1] .. k[1] + 2 * MaxExitDays : d \notin DOMAIN bars
    IN  IF halted THEN exit.type = "time" /\ exit.day = 0
        ELSE /\ exit.day \in path /\ Cardinality(path) <= MaxExitDays
             /\ \A d \in path \ {exit.day} : ~Stopped(d) /\ ~Reached(d)
             /\ exit.type = "stop" <=> Stopped(exit.day)
             /\ exit.type = "target_2" <=> Reached(exit.day) /\ ~Stopped(exit.day)
             /\ exit.t1Hit <=> \E d \in path : bars[d].high >= l.t1

\* Once a trade was stopped or reached its second target, no later night finds
\* another end for it, however many candles and outcomes have come since and for
\* whatever date the job runs: the exit stands, or a night that cannot load the
\* candles erases it.
SettledExitStands ==
  [][\A k \in DOMAIN pto :
       pto[k].exit.type \in {"stop", "target_2"}
         => k \in DOMAIN pto' /\ pto'[k].exit \in {pto[k].exit, NoExit}]_pto

\* Neither the experiments nor the calibration judges a pick whose five-day return
\* is not known yet: every pick counted has a return, and a setup is called
\* overconfident only if one of its picks lost, underconfident only if one won.
OnlyMaturePicksCount ==
  LET report == GenerateCalibrationReport(today - ExperimentDays, today)
      Picks(s, ret) == {k \in DOMAIN pto : pto[k].recommended /\ pto[k].levels.setup = s /\ pto[k].ret = ret}
  IN  /\ \A k \in DOMAIN results : results[k].returns = results[k].picks
      /\ \A s \in DOMAIN report :
           /\ report[s].flag = "OVERCONFIDENT" => Picks(s, "loss") # {}
           /\ report[s].flag = "UNDERCONFIDENT" => Picks(s, "win") # {}

\* What a verified memory tells the model of the past is true: its return is the
\* one that the candles of its date and ticker give, and a stop or a target it
\* reports was touched.  No verdict comes before its time, and a memory is given up
\* only when it is too old.  The row it was taken from may have been replaced since.
VerdictsAreTrue ==
  \A k \in DOMAIN memory :
    LET l == evaluations[k[1]].picks[k[2]]
        bars == [d \in DOMAIN candles[k[2]] \ (1 .. k[1] - 1) |-> candles[k[2]][d]]
    IN  /\ memory[k].status = "verified" =>
             /\ today - k[1] >= VerdictAfter
             /\ memory[k].ret # "null" /\ memory[k].ret = EvaluateOutcome(k[2], k[1], today).ret
             /\ memory[k].stop = "yes" => \E d \in DOMAIN bars : bars[d].low <= l.stop
             /\ memory[k].target = "yes" => \E d \in DOMAIN bars : bars[d].high >= l.t1
        /\ memory[k].status = "insufficient_data" => today - k[1] > GiveUpAfter

\* ReplayExitSequence: "Entry is typically T+1 open; we check trading days after
\* that", so no simulated trade is over before it is entered, on the first session
\* after the signal.  The attribution passes the signal's own date.
ExitsAreAfterTheSignal ==
  \A k \in DOMAIN pto : pto[k].exit.type \in {"stop", "target_2"} => pto[k].exit.day > k[1]
============================================================================
