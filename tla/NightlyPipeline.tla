-------------------------- MODULE NightlyPipeline --------------------------
(***************************************************************************)
(* cmd/nightly: one run of the pipeline, from the audit row's insertion to *)
(* the end of the process, next to the background ingestion it starts.     *)
(*                                                                         *)
(* The steps run one after another under one context.  A step that begins  *)
(* on a cancelled context finds every query and request refused; one that  *)
(* was cancelled half-way may have committed what it wrote by then.  The   *)
(* ingestion is the barrier that CandleIngestion implements, which goes on *)
(* beside the steps for as long as the process lives.                      *)
(*                                                                         *)
(* No step reads gateLevel here: market_regime has no gate_level column,   *)
(* so GetByDate fails and the level is always "full", as the repository's  *)
(* README discloses.  An operator introduced as "Mutant:" is a plausible   *)
(* wrong version of the definition after it.                               *)
(***************************************************************************)
EXTENDS Integers, Sequences

CONSTANTS
  Tickers,  \* what a run may ingest
  Enabled,  \* the parts the configuration wires: a subset of Options
  NoRow     \* the run has no row in nightly_runs

Options == {"tvCollector", "llmEvaluation", "commercialReport", "promptMemory"}

ASSUME EnabledAssumption == Enabled \subseteq Options

VARIABLES
  phase,    \* "insert", "steps", "mark", "drain", "post", "exited" or "killed"
  step,     \* the index of the current step of the phase
  entered,  \* how it began: "no" not yet, "live", or "dead" on a cancelled context
  wrote,    \* steps that have committed something
  row,      \* the run's row in nightly_runs
  tracked,  \* the process knows the row's id
  unmarked, \* the database refused a mark although the context was live
  code,     \* the exit code, -1 while the process runs
  begun, critical, all, accounted, failures, cancelled, gate, finished, caller

Ingestion == INSTANCE IngestionBarrier

runVars   == <<phase, step, entered, wrote, code>>
ingestionVars == <<begun, critical, all, accounted, failures, cancelled, gate, finished, caller>>
auditVars == <<row, tracked, unmarked>>
vars == <<runVars, auditVars, ingestionVars>>

-----------------------------------------------------------------------------
(* The steps *)

Wired(option) == IF option \in Enabled THEN <<option>> ELSE <<>>

\* The slice main builds.
Steps ==
  <<"tvImports", "snapshotCheck", "corporateActions", "fetchTVTickers",
    "startIngestion", "waitPriority", "universe", "regimeInputs",
    "classification", "sectorMomentum", "rankLists">>
  \o Wired("llmEvaluation") \o <<"tradeOutcomes", "netReturns">>
  \o Wired("commercialReport")

\* What follows the drain.
PostSteps == <<"postTradeOutcomes", "attribution", "experiments">> \o Wired("promptMemory")

\* Steps whose closure logs the job's error and returns nil.
Tolerant == {"corporateActions", "fetchTVTickers", "llmEvaluation", "tradeOutcomes",
             "netReturns", "commercialReport"}

\* Steps that only read, or only wait.
ReadOnly == {"snapshotCheck", "fetchTVTickers", "startIngestion", "waitPriority"}

Alive == phase \notin {"exited", "killed"}

Init ==
  /\ phase = "insert" /\ step = 1 /\ entered = "no"
  /\ wrote = {}
  /\ row = NoRow /\ tracked = FALSE /\ unmarked = FALSE
  /\ code = -1
  /\ Ingestion!Init

\* NightlyRunRepo.Insert.  The run goes on untracked when it fails, and the row
\* may exist all the same: the answer was lost, not the statement.
InsertRun ==
  /\ phase = "insert"
  /\ phase' = "steps"
  /\ \/ /\ ~cancelled
        /\ row' = [status |-> "running", completed |-> 0, failedStep |-> "none"]
        /\ tracked' \in BOOLEAN
     \/ UNCHANGED <<row, tracked>>
  /\ UNCHANGED <<step, entered, wrote, unmarked, code, ingestionVars>>

\* The loop of runPipeline, and the code after the drain, enter the next step.
Enter ==
  /\ \/ phase = "steps" /\ step <= Len(Steps)
     \/ phase = "post" /\ step <= Len(PostSteps)
  /\ entered = "no"
  /\ entered' = IF cancelled THEN "dead" ELSE "live"
  /\ UNCHANGED <<phase, step, wrote, code, auditVars, ingestionVars>>

\* A step is over and the run goes on.
Proceed == entered' = "no" /\ step' = step + 1

Current == IF phase = "steps" THEN Steps[step] ELSE PostSteps[step]

\* A step did what it is for.  Without a collector URL the imports succeed on
\* any context: there is nothing to call.
StepSucceeds ==
  /\ phase \in {"steps", "post"}
  /\ entered = "live" \/ (entered = "dead" /\ Current = "tvImports" /\ "tvCollector" \notin Enabled)
  /\ Current \notin {"startIngestion", "waitPriority"}
  /\ wrote' = IF Current \in ReadOnly THEN wrote ELSE wrote \union {Current}
  /\ Proceed
  /\ UNCHANGED <<phase, code, auditVars, ingestionVars>>

\* What a step that fails leaves behind: whatever it had committed by then,
\* which is nothing when the context was dead from the start.
Remains ==
  \/ UNCHANGED wrote
  \/ entered = "live" /\ Current \notin ReadOnly /\ wrote' = wrote \union {Current}

\* The error of a tolerant step, or of one after the drain, is only logged.
StepTolerates ==
  /\ entered # "no"
  /\ phase = "post" \/ (phase = "steps" /\ Current \in Tolerant)
  /\ Remains
  /\ Proceed
  /\ UNCHANGED <<phase, code, auditVars, ingestionVars>>

\* Mutant: a failed step is tried again, without a bound.
StepFailsRetried ==
  /\ phase = "steps" /\ entered # "no"
  /\ Current \notin Tolerant \union {"waitPriority"}
  /\ Remains
  /\ entered' = "no"
  /\ UNCHANGED <<phase, step, code, auditVars, ingestionVars>>

\* Any other step that returns an error aborts the run.
StepFails ==
  /\ phase = "steps" /\ entered # "no"
  /\ Current \notin Tolerant \union {"waitPriority"}
  /\ Remains
  /\ phase' = "mark"
  /\ UNCHANGED <<step, entered, code, auditVars, ingestionVars>>

\* The step that starts the ingestion and keeps its handle.
StartIngestion ==
  /\ phase = "steps" /\ entered = "live" /\ Current = "startIngestion"
  /\ Ingestion!Begin
  /\ Proceed
  /\ UNCHANGED <<phase, wrote, code, auditVars>>

\* Mutant: a failed priority ingestion is logged and the run goes on.
WaitPriorityTolerant ==
  /\ phase = "steps" /\ entered # "no" /\ Current = "waitPriority"
  /\ Ingestion!Answer
  /\ Proceed
  /\ UNCHANGED <<phase, wrote, code, auditVars>>

\* The step that blocks on WaitForPriorityIngestion, whatever the context is.
WaitPriority ==
  /\ phase = "steps" /\ entered # "no" /\ Current = "waitPriority"
  /\ Ingestion!Answer
  /\ IF caller' = "nil" THEN Proceed /\ UNCHANGED phase
                        ELSE phase' = "mark" /\ UNCHANGED <<entered, step>>
  /\ UNCHANGED <<wrote, code, auditVars>>

-----------------------------------------------------------------------------
(* The end of the run *)

\* The answer to an UPDATE of the row: a cancelled context refuses it, and the
\* database may.
Mark(r) ==
  \/ /\ tracked /\ ~cancelled
     /\ row' = r
     /\ UNCHANGED unmarked
  \/ /\ UNCHANGED row
     /\ unmarked' = (unmarked \/ (tracked /\ ~cancelled))

\* Mutant: counts the failed step as completed.
MarkFailedOffByOne ==
  /\ phase = "mark"
  /\ Mark([status |-> "failed", completed |-> step, failedStep |-> Steps[step]])
  /\ phase' = "exited" /\ code' = 1
  /\ UNCHANGED <<step, entered, wrote, tracked, ingestionVars>>

\* The failed run's row is finalised; run returns the error without a drain.
MarkFailed ==
  /\ phase = "mark"
  /\ Mark([status |-> "failed", completed |-> step - 1, failedStep |-> Steps[step]])
  /\ phase' = "exited" /\ code' = 1
  /\ UNCHANGED <<step, entered, wrote, tracked, ingestionVars>>

\* Mutant: counts one step too many.
MarkCompletedOffByOne ==
  /\ phase = "steps" /\ step > Len(Steps)
  /\ Mark([status |-> "completed", completed |-> step, failedStep |-> "none"])
  /\ phase' = "drain" /\ step' = 1
  /\ UNCHANGED <<entered, wrote, tracked, code, ingestionVars>>

\* Every step has returned nil: the row is finalised, before the drain.
MarkCompleted ==
  /\ phase = "steps" /\ step > Len(Steps)
  /\ Mark([status |-> "completed", completed |-> Len(Steps), failedStep |-> "none"])
  /\ phase' = "drain" /\ step' = 1
  /\ UNCHANGED <<entered, wrote, tracked, code, ingestionVars>>

\* Mutant: waits for the priority channel only.
DrainPriority ==
  /\ phase = "drain"
  /\ gate \/ cancelled
  /\ phase' = "post"
  /\ UNCHANGED <<step, entered, wrote, code, auditVars, ingestionVars>>

\* drainBackgroundIngestion: Wait's error is only logged.
Drain ==
  /\ phase = "drain"
  /\ finished \/ cancelled
  /\ phase' = "post"
  /\ UNCHANGED <<step, entered, wrote, code, auditVars, ingestionVars>>

\* run returns nil, and the process ends with whatever still runs in it.
Exit ==
  /\ phase = "post" /\ step > Len(PostSteps)
  /\ phase' = "exited" /\ code' = 0
  /\ UNCHANGED <<step, entered, wrote, auditVars, ingestionVars>>

\* The process is killed or crashes.
Kill ==
  /\ Alive
  /\ phase' = "killed"
  /\ UNCHANGED <<step, entered, wrote, code, auditVars, ingestionVars>>

-----------------------------------------------------------------------------
(* Around the steps *)

\* A signal, or the 90 minutes are over.
Cancel ==
  /\ Alive /\ ~cancelled
  /\ Ingestion!Cancel
  /\ UNCHANGED <<runVars, auditVars>>

\* The background ingestion, while the process lives.
Background ==
  /\ Alive
  /\ (\E t \in Tickers : Ingestion!Account(t)) \/ Ingestion!OpenGate \/ Ingestion!Finish
  /\ UNCHANGED <<runVars, auditVars>>

Ended == ~Alive /\ UNCHANGED vars

Next ==
  \/ InsertRun
  \/ Enter
  \/ StepSucceeds
  \/ StepTolerates
  \/ StepFails
  \/ StartIngestion
  \/ WaitPriority
  \/ MarkFailed
  \/ MarkCompleted
  \/ Drain
  \/ Exit
  \/ Kill
  \/ Cancel
  \/ Background
  \/ Ended

\* The main goroutine goes on whenever it can: every query and request is bound
\* by the context or by a client timeout.  The ingestion's goroutines finish, by
\* CandleIngestion's RunEnds.  Nothing forces a cancellation or a crash.
Main ==
  \/ InsertRun \/ Enter \/ StepSucceeds \/ StepTolerates \/ StepFails
  \/ StartIngestion \/ WaitPriority \/ MarkFailed \/ MarkCompleted \/ Drain \/ Exit

Fairness == WF_vars(Main) /\ WF_vars(Background)

Spec == Init /\ [][Next]_vars /\ Fairness

-----------------------------------------------------------------------------
(* Properties *)

Rows == [status : {"running", "completed", "failed"},
         completed : 0 .. Len(Steps),
         failedStep : {Steps[i] : i \in DOMAIN Steps} \union {"none"}]

TypeOK ==
  /\ phase \in {"insert", "steps", "mark", "drain", "post", "exited", "killed"}
  /\ step \in 1 .. Len(Steps) + 1
  /\ entered \in {"no", "live", "dead"}
  /\ wrote \subseteq {Steps[i] : i \in DOMAIN Steps} \union {PostSteps[i] : i \in DOMAIN PostSteps}
  /\ row \in Rows \union {NoRow}
  /\ tracked \in BOOLEAN /\ unmarked \in BOOLEAN
  /\ code \in {-1, 0, 1}
  /\ begun \in BOOLEAN /\ cancelled \in BOOLEAN /\ gate \in BOOLEAN /\ finished \in BOOLEAN
  /\ critical \subseteq all /\ all \subseteq Tickers
  /\ accounted \subseteq all /\ failures \subseteq accounted
  /\ caller \in {"none", "nil", "failure", "ctxErr"}

RegimeSteps == {"universe", "regimeInputs", "classification", "sectorMomentum", "rankLists",
                "llmEvaluation", "tradeOutcomes", "netReturns", "commercialReport"}

\* What a run writes from the universe snapshot on, it writes after every
\* CRITICAL ticker was ingested without an error.  This holds of cancelled runs
\* too, although the handle's safety net then opens the gate early and the wait
\* may return nil: the next step begins on a dead context and writes nothing.
RegimeRestsOnBenchmarks ==
  wrote \intersect RegimeSteps # {} => critical \subseteq accounted \ failures

\* What the steps after the drain write, they write when the candles of every
\* ticker have been accounted for; a drain that a cancellation cut short is
\* followed by steps that cannot write.
PostStepsSeeAllCandles ==
  \A i \in DOMAIN PostSteps : PostSteps[i] \in wrote => accounted = all

\* The steps a completed run has been through and that write something.
Mandatory == {Steps[i] : i \in DOMAIN Steps} \ (Tolerant \union ReadOnly)

\* The audit row never tells a different story from the process: a completed row
\* belongs to a run whose steps all returned nil, a failed row names the step
\* that aborted and counts those before it, and a row still running after the
\* exit is one that a cancellation or the database kept from being marked.
AuditMatchesRun ==
  row # NoRow =>
    /\ row.status = "completed" => /\ code # 1
                                   /\ row.completed = Len(Steps)
                                   /\ Mandatory \subseteq wrote
    /\ row.status = "failed" => /\ code = 1
                                /\ row.completed + 1 = step
                                /\ row.failedStep = Steps[step]
                                /\ \A i \in step + 1 .. Len(Steps) : Steps[i] \notin wrote
    /\ phase = "exited" /\ row.status = "running" => ~tracked \/ cancelled \/ unmarked

\* A run ends: no step and no wait blocks for ever, whether or not the context
\* is cancelled while it blocks.
RunEnds == <>(~Alive)
=============================================================================
