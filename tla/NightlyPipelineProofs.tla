----------------------- MODULE NightlyPipelineProofs -----------------------
(***************************************************************************)
(* What holds of every run of the pipeline, for any tickers and any        *)
(* configuration, wherever it is cancelled, killed or refused by the       *)
(* database: what it writes rests on the candles it needs, and its audit   *)
(* row tells what happened.                                                *)
(***************************************************************************)
EXTENDS NightlyPipeline, TLAPS

\* Every critical ticker has been ingested without an error.
BenchmarksIngested == critical \subseteq accounted \ failures

\* The background ingestion: nothing is known of it before it begins, an open gate
\* has seen every critical ticker and an end every ticker, unless it was cancelled.
IngestionInv ==
  /\ ~begun => critical = {} /\ all = {} /\ accounted = {} /\ ~gate /\ ~finished
  /\ gate => cancelled \/ critical \subseteq accounted
  /\ finished => cancelled \/ accounted = all

\* Where the run is: within its slice of steps, with what the steps so far have
\* written, and with the ingestion begun by its own step.
PositionInv ==
  /\ Alive \/ phase = "killed" => code = -1
  /\ phase = "insert" => step = 1 /\ entered = "no"
  /\ phase = "mark" \/ (phase = "steps" /\ entered # "no") => step <= Len(Steps)
  /\ phase = "post" => step <= Len(PostSteps) + 1
  /\ phase = "post" /\ entered # "no" => step <= Len(PostSteps)
  /\ phase = "drain" => step = 1 /\ entered = "no"
  /\ phase = "insert" \/ (phase = "steps" /\ step <= 5) => ~begun
  /\ phase = "insert" => wrote = {}
  /\ phase = "steps" => \A i \in step .. Len(Steps) : Steps[i] \notin wrote
  /\ phase = "mark" => \A i \in step + 1 .. Len(Steps) : Steps[i] \notin wrote
  /\ phase \in {"insert", "steps", "mark", "drain"}
       => \A i \in DOMAIN PostSteps : PostSteps[i] \notin wrote

\* Past the wait for the gate the benchmarks are there, or the run is cancelled and
\* a step that begins finds its context dead.  The same goes for the drain.
CandlesInv ==
  /\ phase = "steps" /\ step >= 7 => cancelled \/ BenchmarksIngested
  /\ phase = "steps" /\ step >= 7 /\ entered = "live" => BenchmarksIngested
  /\ phase = "post" => cancelled \/ accounted = all
  /\ phase = "post" /\ entered = "live" => accounted = all
  /\ RegimeRestsOnBenchmarks
  /\ PostStepsSeeAllCandles

\* The steps behind the run have written, and the row is what the last mark made it.
AuditInv ==
  /\ phase = "steps" => \A i \in 1 .. step - 1 : Steps[i] \in Mandatory => Steps[i] \in wrote
  /\ phase \in {"drain", "post"} => Mandatory \subseteq wrote
  /\ phase = "insert" => row = NoRow
  /\ row # NoRow /\ row.status # "running" => phase \notin {"insert", "steps", "mark"}
  /\ row # NoRow /\ row.status = "failed" => phase = "exited"
  /\ row # NoRow /\ row.status = "running" /\ phase \in {"drain", "post"}
       => ~tracked \/ cancelled \/ unmarked
  /\ AuditMatchesRun

Inv == TypeOK /\ IngestionInv /\ PositionInv /\ CandlesInv /\ AuditInv

-----------------------------------------------------------------------------
(* The slices *)

\* The slice of steps for every configuration: where the ingestion starts, where
\* the run waits for it, and that what is written afterwards is regime work.
LEMMA StepsAre ==
  /\ Len(Steps) \in 13 .. 15 /\ DOMAIN Steps = 1 .. Len(Steps)
  /\ Steps[5] = "startIngestion" /\ Steps[6] = "waitPriority"
  /\ \A i \in 1 .. Len(Steps) :
       /\ Steps[i] = "startIngestion" => i = 5
       /\ Steps[i] = "waitPriority" => i = 6
       /\ Steps[i] \in RegimeSteps <=> i >= 7
       /\ Steps[i] \notin {"postTradeOutcomes", "attribution", "experiments", "promptMemory"}
  /\ \A i, j \in 1 .. Len(Steps) : Steps[i] = Steps[j] => i = j
<1> USE DEF Steps, Wired, RegimeSteps
<1>1. CASE "llmEvaluation" \in Enabled /\ "commercialReport" \in Enabled
  BY <1>1
<1>2. CASE "llmEvaluation" \in Enabled /\ "commercialReport" \notin Enabled
  BY <1>2
<1>3. CASE "llmEvaluation" \notin Enabled /\ "commercialReport" \in Enabled
  BY <1>3
<1>4. CASE "llmEvaluation" \notin Enabled /\ "commercialReport" \notin Enabled
  BY <1>4
<1> QED
  BY <1>1, <1>2, <1>3, <1>4

\* The slice of steps after the drain: none of them writes under a name of the first.
LEMMA PostStepsAre ==
  /\ Len(PostSteps) \in 3 .. 4 /\ DOMAIN PostSteps = 1 .. Len(PostSteps)
  /\ \A i \in 1 .. Len(PostSteps) :
       PostSteps[i] \in {"postTradeOutcomes", "attribution", "experiments", "promptMemory"}
  /\ \A i, j \in 1 .. Len(PostSteps) : PostSteps[i] = PostSteps[j] => i = j
  BY DEF PostSteps, Wired
-----------------------------------------------------------------------------
(* The actions *)

StepNames == {Steps[i] : i \in DOMAIN Steps} \union {PostSteps[i] : i \in DOMAIN PostSteps}

\* The step at hand is one of its slice.
LEMMA CurrentStep ==
  ASSUME Inv, phase \in {"steps", "post"}, entered # "no"
  PROVE  /\ step + 1 \in 1 .. Len(Steps) + 1
         /\ Current \in StepNames
         /\ phase = "steps" => step \in 1 .. Len(Steps) /\ Current = Steps[step]
         /\ phase = "post" => step \in 1 .. Len(PostSteps) /\ Current = PostSteps[step]
<1> USE StepsAre, PostStepsAre
<1>1. phase = "steps" => step \in 1 .. Len(Steps) /\ Current = Steps[step]
  BY DEF Inv, TypeOK, PositionInv, Current
<1>2. phase = "post" => step \in 1 .. Len(PostSteps) /\ Current = PostSteps[step]
  BY DEF Inv, TypeOK, PositionInv, Current
<1>3. step + 1 \in 1 .. Len(Steps) + 1
  <2>1. step \in 1 .. Len(Steps)
    BY <1>1, <1>2
  <2> QED
    BY <2>1
<1>4. Current \in StepNames
  BY <1>1, <1>2 DEF StepNames
<1> QED
  BY <1>1, <1>2, <1>3, <1>4

\* What a step writes on a live context rests on the candles it needs, and so does
\* the only thing done on a dead one, the imports.
LEMMA WritingKeepsCandles ==
  ASSUME Inv, phase \in {"steps", "post"}, entered # "no",
         \/ UNCHANGED wrote
         \/ /\ entered = "live" \/ Current = "tvImports"
            /\ wrote' = wrote \union {Current},
         UNCHANGED ingestionVars
  PROVE  wrote' \subseteq StepNames /\ RegimeRestsOnBenchmarks' /\ PostStepsSeeAllCandles'
<1> USE StepsAre, PostStepsAre
<1>1. wrote \subseteq StepNames /\ RegimeRestsOnBenchmarks /\ PostStepsSeeAllCandles
  BY DEF Inv, TypeOK, CandlesInv, StepNames
<1>2. CASE UNCHANGED wrote
  BY <1>1, <1>2 DEF ingestionVars, RegimeRestsOnBenchmarks, PostStepsSeeAllCandles
<1>3. CASE /\ entered = "live" \/ Current = "tvImports"
           /\ wrote' = wrote \union {Current}
  <2>1. wrote' \subseteq StepNames
    BY <1>1, <1>3, CurrentStep
  <2>2. Current \in RegimeSteps => BenchmarksIngested
    <3> SUFFICES ASSUME Current \in RegimeSteps PROVE BenchmarksIngested
      OBVIOUS
    <3>1. entered = "live"
      BY <1>3 DEF RegimeSteps
    <3>2. phase = "steps" /\ step >= 7
      BY CurrentStep DEF RegimeSteps
    <3> QED
      BY <3>1, <3>2 DEF Inv, CandlesInv
  <2>3. \A i \in DOMAIN PostSteps : PostSteps[i] = Current => accounted = all
    <3> SUFFICES ASSUME NEW i \in DOMAIN PostSteps, PostSteps[i] = Current
                 PROVE  accounted = all
      OBVIOUS
    <3>1. phase = "post" /\ Current # "tvImports"
      BY CurrentStep
    <3> QED
      BY <1>3, <3>1 DEF Inv, CandlesInv
  <2> QED
    BY <1>1, <1>3, <2>1, <2>2, <2>3
    DEF ingestionVars, RegimeRestsOnBenchmarks, PostStepsSeeAllCandles, BenchmarksIngested
<1> QED
  BY <1>2, <1>3

\* The types depend on where the run is and what it has written.
LEMMA TypesOfRun ==
  ASSUME TypeOK, UNCHANGED <<auditVars, ingestionVars>>,
         phase' \in {"insert", "steps", "mark", "drain", "post", "exited", "killed"},
         step' \in 1 .. Len(Steps) + 1, entered' \in {"no", "live", "dead"},
         wrote' \subseteq StepNames, code' \in {-1, 0, 1}
  PROVE  TypeOK'
<1>1. /\ row' \in Rows \union {NoRow} /\ tracked' \in BOOLEAN /\ unmarked' \in BOOLEAN
      /\ begun' \in BOOLEAN /\ cancelled' \in BOOLEAN /\ gate' \in BOOLEAN /\ finished' \in BOOLEAN
      /\ critical' \subseteq all' /\ all' \subseteq Tickers
      /\ accounted' \subseteq all' /\ failures' \subseteq accounted'
      /\ caller' \in {"none", "nil", "failure", "ctxErr"}
  BY DEF TypeOK, auditVars, ingestionVars
<1> QED
  BY <1>1 DEF TypeOK, StepNames

\* A step that is over leaves the row as it is, and if it had to write it has.
LEMMA AuditOfStep ==
  ASSUME Inv, phase \in {"steps", "post"}, UNCHANGED <<phase, code, auditVars, cancelled>>,
         step' = step + 1, wrote \subseteq wrote',
         phase = "steps" /\ Steps[step] \in Mandatory => Steps[step] \in wrote'
  PROVE  AuditInv'
<1>1. step \in Nat
  BY StepsAre DEF Inv, TypeOK
<1>2. phase = "steps" => \A i \in 1 .. step' - 1 : Steps[i] \in Mandatory => Steps[i] \in wrote'
  <2> SUFFICES ASSUME phase = "steps", NEW i \in 1 .. step, Steps[i] \in Mandatory
               PROVE  Steps[i] \in wrote'
    BY <1>1
  <2>1. CASE i = step
    BY <2>1
  <2>2. CASE i # step
    BY <1>1, <2>2 DEF Inv, AuditInv
  <2> QED
    BY <2>1, <2>2
<1>3. phase = "post" => Mandatory \subseteq wrote'
  BY DEF Inv, AuditInv
<1>4. row # NoRow => row.status # "failed"
  BY DEF Inv, AuditInv
<1>5. AuditMatchesRun'
  BY <1>4 DEF Inv, AuditInv, AuditMatchesRun, auditVars
<1> QED
  BY <1>2, <1>3, <1>4, <1>5 DEF Inv, AuditInv, auditVars

\* A run that begins has written nothing and tells nothing yet; a refused INSERT
\* leaves it untracked.
LEMMA InsertRunKeeps == Inv /\ InsertRun => Inv'
<1> SUFFICES ASSUME Inv, InsertRun PROVE Inv'
  OBVIOUS
<1> USE StepsAre, PostStepsAre
        DEF Inv, InsertRun, runVars, auditVars, ingestionVars, Ingestion!Cancel
<1>1. TypeOK'
  BY DEF TypeOK, Rows, PositionInv
<1>2. IngestionInv'
  BY DEF TypeOK, IngestionInv, PositionInv
<1>3. PositionInv'
  BY DEF TypeOK, IngestionInv, PositionInv, Alive
<1>4. CandlesInv'
  BY DEF TypeOK, IngestionInv, PositionInv, CandlesInv, BenchmarksIngested,
         RegimeRestsOnBenchmarks, PostStepsSeeAllCandles
<1>5. AuditInv'
  BY DEF TypeOK, IngestionInv, PositionInv, AuditInv, AuditMatchesRun, Mandatory
<1> QED
  BY <1>1, <1>2, <1>3, <1>4, <1>5

\* A step sees the context as it is when it begins: a cancellation that comes later
\* finds it past its check.
LEMMA EnterKeeps == Inv /\ Enter => Inv'
<1> SUFFICES ASSUME Inv, Enter PROVE Inv'
  OBVIOUS
<1> USE StepsAre, PostStepsAre DEF Inv, Enter, runVars, auditVars, ingestionVars
<1>1. TypeOK'
  BY DEF TypeOK, PositionInv
<1>2. IngestionInv'
  BY DEF TypeOK, IngestionInv, PositionInv
<1>3. PositionInv'
  BY DEF TypeOK, IngestionInv, PositionInv, Alive
<1>4. CandlesInv'
  BY DEF TypeOK, IngestionInv, PositionInv, CandlesInv, BenchmarksIngested,
         RegimeRestsOnBenchmarks, PostStepsSeeAllCandles
<1>5. AuditInv'
  BY DEF TypeOK, IngestionInv, PositionInv, AuditInv, AuditMatchesRun, Mandatory
<1> QED
  BY <1>1, <1>2, <1>3, <1>4, <1>5

\* A step that succeeds was live, so the candles it reads are there.
LEMMA StepSucceedsKeeps == Inv /\ StepSucceeds => Inv'
<1> SUFFICES ASSUME Inv, StepSucceeds PROVE Inv'
  OBVIOUS
<1> USE StepsAre, PostStepsAre
        DEF Inv, StepSucceeds, runVars, auditVars, ingestionVars, Proceed, Current
<1>0. /\ wrote' \subseteq StepNames /\ RegimeRestsOnBenchmarks' /\ PostStepsSeeAllCandles'
      /\ step' \in 1 .. Len(Steps) + 1
  BY CurrentStep, WritingKeepsCandles DEF TypeOK
<1>1. TypeOK'
  BY <1>0, TypesOfRun DEF TypeOK
<1>2. IngestionInv'
  BY DEF TypeOK, IngestionInv, PositionInv
<1>3. PositionInv'
  BY DEF TypeOK, IngestionInv, PositionInv, Alive
<1>4. CandlesInv'
  BY <1>0 DEF TypeOK, IngestionInv, PositionInv, CandlesInv, BenchmarksIngested
<1>5. AuditInv'
  <2>1. phase = "steps" /\ Steps[step] \in Mandatory => Steps[step] \in wrote'
    BY DEF Mandatory
  <2> QED
    BY <2>1, AuditOfStep
<1> QED
  BY <1>1, <1>2, <1>3, <1>4, <1>5

\* A step that logs its error goes on, with or without what it has written.
LEMMA StepToleratesKeeps == Inv /\ StepTolerates => Inv'
<1> SUFFICES ASSUME Inv, StepTolerates PROVE Inv'
  OBVIOUS
<1> USE StepsAre, PostStepsAre
        DEF Inv, StepTolerates, runVars, auditVars, ingestionVars, Proceed, Current, Remains
<1>0. /\ wrote' \subseteq StepNames /\ RegimeRestsOnBenchmarks' /\ PostStepsSeeAllCandles'
      /\ step' \in 1 .. Len(Steps) + 1
  BY CurrentStep, WritingKeepsCandles DEF TypeOK
<1>1. TypeOK'
  BY <1>0, TypesOfRun DEF TypeOK
<1>2. IngestionInv'
  BY DEF TypeOK, IngestionInv, PositionInv
<1>3. PositionInv'
  BY DEF TypeOK, IngestionInv, PositionInv, Alive
<1>4. CandlesInv'
  BY <1>0 DEF Tolerant, TypeOK, IngestionInv, PositionInv, CandlesInv, BenchmarksIngested
<1>5. AuditInv'
  <2>1. ~(phase = "steps" /\ Steps[step] \in Mandatory)
    BY DEF Mandatory, TypeOK
  <2>2. phase \in {"steps", "post"}
    OBVIOUS
  <2> QED
    BY <2>1, <2>2, AuditOfStep
<1> QED
  BY <1>1, <1>2, <1>3, <1>4, <1>5

\* A step that fails stops the run in its place, to be marked.
LEMMA StepFailsKeeps == Inv /\ StepFails => Inv'
<1> SUFFICES ASSUME Inv, StepFails PROVE Inv'
  OBVIOUS
<1> USE StepsAre, PostStepsAre
        DEF Inv, StepFails, runVars, auditVars, ingestionVars, Current, Remains
<1>0. /\ wrote' \subseteq StepNames /\ RegimeRestsOnBenchmarks' /\ PostStepsSeeAllCandles'
      /\ step' \in 1 .. Len(Steps) + 1
  BY CurrentStep, WritingKeepsCandles DEF TypeOK
<1>1. TypeOK'
  BY <1>0, TypesOfRun DEF TypeOK
<1>2. IngestionInv'
  BY DEF TypeOK, IngestionInv, PositionInv
<1>3. PositionInv'
  BY DEF TypeOK, IngestionInv, PositionInv, Alive
<1>4. CandlesInv'
  BY <1>0 DEF TypeOK, IngestionInv, PositionInv, CandlesInv, BenchmarksIngested
<1>5. AuditInv'
  BY DEF TypeOK, IngestionInv, PositionInv, AuditInv, AuditMatchesRun, Mandatory
<1> QED
  BY <1>1, <1>2, <1>3, <1>4, <1>5

\* The fifth step begins the ingestion, and the run goes on beside it.
LEMMA StartIngestionKeeps == Inv /\ StartIngestion => Inv'
<1> SUFFICES ASSUME Inv, StartIngestion PROVE Inv'
  OBVIOUS
<1> USE StepsAre, PostStepsAre
        DEF Inv, StartIngestion, runVars, auditVars, ingestionVars, Ingestion!Begin,
            Proceed, Current
<1>1. TypeOK'
  <2>1. step' \in 1 .. Len(Steps) + 1
    BY DEF TypeOK, PositionInv
  <2>2. /\ critical' \subseteq all' /\ all' \subseteq Tickers
        /\ accounted' = {} /\ failures' = {}
        /\ gate' \in BOOLEAN /\ finished' \in BOOLEAN /\ begun' \in BOOLEAN
    BY DEF TypeOK, PositionInv, IngestionInv
  <2> QED
    BY <2>1, <2>2 DEF TypeOK
<1>2. IngestionInv'
  BY DEF TypeOK, IngestionInv, PositionInv
<1>3. PositionInv'
  BY DEF TypeOK, IngestionInv, PositionInv, Alive
<1>4. CandlesInv'
  BY DEF TypeOK, IngestionInv, PositionInv, CandlesInv, BenchmarksIngested,
         RegimeRestsOnBenchmarks, PostStepsSeeAllCandles
<1>5. AuditInv'
  <2>1. Steps[step] \notin Mandatory
    BY DEF Mandatory, ReadOnly
  <2>2. UNCHANGED cancelled
    OBVIOUS
  <2> QED
    BY <2>1, <2>2, AuditOfStep
<1> QED
  BY <1>1, <1>2, <1>3, <1>4, <1>5

\* The sixth step passes an open gate without a failed benchmark, or fails.
LEMMA WaitPriorityKeeps == Inv /\ WaitPriority => Inv'
<1> SUFFICES ASSUME Inv, WaitPriority PROVE Inv'
  OBVIOUS
<1>1. TypeOK'
  <2>1. /\ step' \in 1 .. Len(Steps) + 1 /\ entered' \in {"no", "live", "dead"}
        /\ phase' \in {"steps", "mark"} /\ caller' \in {"none", "nil", "failure", "ctxErr"}
    BY CurrentStep DEF Inv, TypeOK, WaitPriority, Proceed, Ingestion!Answer
  <2> QED
    BY <2>1 DEF Inv, WaitPriority, Ingestion!Answer, TypeOK, auditVars
<1> USE StepsAre, PostStepsAre
        DEF Inv, WaitPriority, runVars, auditVars, ingestionVars, Ingestion!Answer, Proceed,
            Current
<1>2. IngestionInv'
  BY DEF TypeOK, IngestionInv, PositionInv
<1>3. PositionInv'
  BY DEF TypeOK, IngestionInv, PositionInv, Alive
<1>4. CandlesInv'
  BY DEF TypeOK, IngestionInv, PositionInv, CandlesInv, BenchmarksIngested,
         RegimeRestsOnBenchmarks, PostStepsSeeAllCandles
<1>5. AuditInv'
  BY DEF TypeOK, IngestionInv, PositionInv, AuditInv, AuditMatchesRun, Mandatory, ReadOnly
<1> QED
  BY <1>1, <1>2, <1>3, <1>4, <1>5

\* The mark of a failed run names the step it stopped at.
LEMMA MarkFailedKeeps == Inv /\ MarkFailed => Inv'
<1> SUFFICES ASSUME Inv, MarkFailed PROVE Inv'
  OBVIOUS
<1>1. TypeOK'
  <2>1. step \in 1 .. Len(Steps) /\ step - 1 \in 0 .. Len(Steps)
    BY StepsAre DEF Inv, TypeOK, PositionInv, MarkFailed
  <2>2. [status |-> "failed", completed |-> step - 1, failedStep |-> Steps[step]] \in Rows
    BY StepsAre, <2>1 DEF Rows
  <2>3. row' \in Rows \union {NoRow} /\ unmarked' \in BOOLEAN
    BY <2>2 DEF Inv, TypeOK, MarkFailed, Mark
  <2> QED
    BY <2>3 DEF Inv, TypeOK, MarkFailed, Mark, ingestionVars
<1> USE StepsAre, PostStepsAre DEF Inv, MarkFailed, runVars, auditVars, ingestionVars, Mark
<1>2. IngestionInv'
  BY DEF TypeOK, IngestionInv, PositionInv
<1>3. PositionInv'
  BY DEF TypeOK, IngestionInv, PositionInv, Alive
<1>4. CandlesInv'
  BY DEF TypeOK, IngestionInv, PositionInv, CandlesInv, BenchmarksIngested,
         RegimeRestsOnBenchmarks, PostStepsSeeAllCandles
<1>5. AuditInv'
  BY DEF TypeOK, IngestionInv, PositionInv, AuditInv, AuditMatchesRun, Mandatory
<1> QED
  BY <1>1, <1>2, <1>3, <1>4, <1>5

\* A run behind its last step has written all that is mandatory when it is marked.
LEMMA MarkCompletedKeeps == Inv /\ MarkCompleted => Inv'
<1> SUFFICES ASSUME Inv, MarkCompleted PROVE Inv'
  OBVIOUS
<1>1. TypeOK'
  <2>1. [status |-> "completed", completed |-> Len(Steps), failedStep |-> "none"] \in Rows
    BY StepsAre DEF Rows
  <2>2. row' \in Rows \union {NoRow} /\ unmarked' \in BOOLEAN /\ step' \in 1 .. Len(Steps) + 1
    BY StepsAre, <2>1 DEF Inv, TypeOK, MarkCompleted, Mark
  <2> QED
    BY <2>2 DEF Inv, TypeOK, MarkCompleted, Mark, ingestionVars
<1> USE StepsAre, PostStepsAre DEF Inv, MarkCompleted, runVars, auditVars, ingestionVars, Mark
<1>0. Mandatory \subseteq wrote
  <2>1. step - 1 = Len(Steps)
    BY DEF TypeOK
  <2> QED
    BY <2>1 DEF AuditInv, Mandatory
<1>2. IngestionInv'
  BY DEF TypeOK, IngestionInv, PositionInv
<1>3. PositionInv'
  BY DEF TypeOK, IngestionInv, PositionInv, Alive
<1>4. CandlesInv'
  BY DEF TypeOK, IngestionInv, PositionInv, CandlesInv, BenchmarksIngested,
         RegimeRestsOnBenchmarks, PostStepsSeeAllCandles
<1>5. AuditInv'
  BY <1>0 DEF TypeOK, IngestionInv, PositionInv, Alive, AuditInv, AuditMatchesRun
<1> QED
  BY <1>1, <1>2, <1>3, <1>4, <1>5

\* The drain waits for the end of the ingestion, or for the cancellation.
LEMMA DrainKeeps == Inv /\ Drain => Inv'
<1> SUFFICES ASSUME Inv, Drain PROVE Inv'
  OBVIOUS
<1> USE StepsAre, PostStepsAre DEF Inv, Drain, runVars, auditVars, ingestionVars
<1>1. TypeOK'
  BY DEF TypeOK, PositionInv
<1>2. IngestionInv'
  BY DEF TypeOK, IngestionInv, PositionInv
<1>3. PositionInv'
  BY DEF TypeOK, IngestionInv, PositionInv, Alive
<1>4. CandlesInv'
  BY DEF TypeOK, IngestionInv, PositionInv, CandlesInv, BenchmarksIngested,
         RegimeRestsOnBenchmarks, PostStepsSeeAllCandles
<1>5. AuditInv'
  BY DEF TypeOK, IngestionInv, PositionInv, AuditInv, AuditMatchesRun, Mandatory
<1> QED
  BY <1>1, <1>2, <1>3, <1>4, <1>5

\* The exit code is the last thing the run says.
LEMMA ExitKeeps == Inv /\ Exit => Inv'
<1> SUFFICES ASSUME Inv, Exit PROVE Inv'
  OBVIOUS
<1> USE StepsAre, PostStepsAre DEF Inv, Exit, runVars, auditVars, ingestionVars
<1>1. TypeOK'
  BY DEF TypeOK, PositionInv
<1>2. IngestionInv'
  BY DEF TypeOK, IngestionInv, PositionInv
<1>3. PositionInv'
  BY DEF TypeOK, IngestionInv, PositionInv, Alive
<1>4. CandlesInv'
  BY DEF TypeOK, IngestionInv, PositionInv, CandlesInv, BenchmarksIngested,
         RegimeRestsOnBenchmarks, PostStepsSeeAllCandles
<1>5. AuditInv'
  BY DEF TypeOK, IngestionInv, PositionInv, AuditInv, AuditMatchesRun, Mandatory
<1> QED
  BY <1>1, <1>2, <1>3, <1>4, <1>5

\* A kill leaves the row as it is, and no code.
LEMMA KillKeeps == Inv /\ Kill => Inv'
<1> SUFFICES ASSUME Inv, Kill PROVE Inv'
  OBVIOUS
<1>1. TypeOK'
  BY DEF Inv, Kill, TypeOK, auditVars, ingestionVars
<1> USE StepsAre, PostStepsAre DEF Inv, Kill, runVars, auditVars, ingestionVars, Alive
<1>2. IngestionInv'
  BY DEF TypeOK, IngestionInv, PositionInv
<1>3. PositionInv'
  BY DEF TypeOK, IngestionInv, PositionInv, Alive
<1>4. CandlesInv'
  BY DEF TypeOK, IngestionInv, PositionInv, CandlesInv, BenchmarksIngested,
         RegimeRestsOnBenchmarks, PostStepsSeeAllCandles
<1>5. AuditInv'
  BY DEF TypeOK, IngestionInv, PositionInv, AuditInv, AuditMatchesRun, Mandatory
<1> QED
  BY <1>1, <1>2, <1>3, <1>4, <1>5

\* A cancellation reaches the ingestion and the steps to come.
LEMMA CancelKeeps == Inv /\ Cancel => Inv'
<1> SUFFICES ASSUME Inv, Cancel PROVE Inv'
  OBVIOUS
<1>1. TypeOK'
  BY DEF Inv, Cancel, Ingestion!Cancel, TypeOK, runVars, auditVars
<1> USE StepsAre, PostStepsAre
        DEF Inv, Cancel, runVars, auditVars, ingestionVars, Ingestion!Cancel, Alive
<1>2. IngestionInv'
  BY DEF TypeOK, IngestionInv, PositionInv
<1>3. PositionInv'
  BY DEF TypeOK, IngestionInv, PositionInv, Alive
<1>4. CandlesInv'
  BY DEF TypeOK, IngestionInv, PositionInv, CandlesInv, BenchmarksIngested,
         RegimeRestsOnBenchmarks, PostStepsSeeAllCandles
<1>5. AuditInv'
  BY DEF TypeOK, IngestionInv, PositionInv, AuditInv, AuditMatchesRun, Mandatory
<1> QED
  BY <1>1, <1>2, <1>3, <1>4, <1>5

\* The ingestion goes on while the run is in any of its steps.
LEMMA BackgroundKeeps == Inv /\ Background => Inv'
<1> SUFFICES ASSUME Inv, Background PROVE Inv'
  OBVIOUS
<1>1. TypeOK'
  <2> USE DEF Inv, TypeOK, Background, runVars, auditVars
  <2>1. ASSUME NEW t \in Tickers, Ingestion!Account(t)
        PROVE  TypeOK'
    BY <2>1 DEF Ingestion!Account
  <2>2. CASE Ingestion!OpenGate
    BY <2>2 DEF Ingestion!OpenGate
  <2>3. CASE Ingestion!Finish
    BY <2>3 DEF Ingestion!Finish
  <2> QED
    BY <2>1, <2>2, <2>3
<1> USE StepsAre, PostStepsAre
        DEF Inv, Background, runVars, auditVars, ingestionVars, Ingestion!Account,
            Ingestion!OpenGate, Ingestion!Finish, Alive
<1>2. IngestionInv'
  BY DEF TypeOK, IngestionInv, PositionInv
<1>3. PositionInv'
  BY DEF TypeOK, IngestionInv, PositionInv, Alive
<1>4. CandlesInv'
  BY DEF TypeOK, IngestionInv, PositionInv, CandlesInv, BenchmarksIngested,
         RegimeRestsOnBenchmarks, PostStepsSeeAllCandles
<1>5. AuditInv'
  BY DEF TypeOK, IngestionInv, PositionInv, AuditInv, AuditMatchesRun, Mandatory
<1> QED
  BY <1>1, <1>2, <1>3, <1>4, <1>5

-----------------------------------------------------------------------------
(* Theorems *)

\* The invariant is inductive: no action, in whatever phase, leaves it.
LEMMA Invariance == Spec => []Inv
<1>1. Init => Inv
  <2> SUFFICES ASSUME Init PROVE Inv
    OBVIOUS
  <2> USE StepsAre, PostStepsAre DEF Init, Ingestion!Init
  <2>1. TypeOK
    <3>1. step \in 1 .. Len(Steps) + 1 /\ code \in {-1, 0, 1}
      OBVIOUS
    <3> QED
      BY <3>1 DEF TypeOK
  <2>2. IngestionInv /\ PositionInv
    BY DEF IngestionInv, PositionInv, Alive
  <2>3. CandlesInv
    BY DEF CandlesInv, RegimeRestsOnBenchmarks, PostStepsSeeAllCandles
  <2>4. AuditInv
    BY DEF AuditInv, AuditMatchesRun
  <2> QED
    BY <2>1, <2>2, <2>3, <2>4 DEF Inv
<1>2. Inv /\ [Next]_vars => Inv'
  <2> SUFFICES ASSUME Inv, [Next]_vars PROVE Inv'
    OBVIOUS
  <2>1. CASE UNCHANGED vars
    BY <2>1 DEF vars, runVars, auditVars, ingestionVars, Inv, TypeOK, IngestionInv, PositionInv,
                CandlesInv, AuditInv, Alive, BenchmarksIngested, RegimeRestsOnBenchmarks,
                PostStepsSeeAllCandles, AuditMatchesRun
  <2> QED
    BY <2>1, InsertRunKeeps, EnterKeeps, StepSucceedsKeeps, StepToleratesKeeps, StepFailsKeeps,
       StartIngestionKeeps, WaitPriorityKeeps, MarkFailedKeeps, MarkCompletedKeeps, DrainKeeps,
       ExitKeeps, KillKeeps, CancelKeeps, BackgroundKeeps
    DEF Next, Ended
<1> QED
  BY <1>1, <1>2, PTL DEF Spec

\* Every variable keeps its type, for any tickers and any configuration.
THEOREM TypeCorrect == Spec => []TypeOK
<1>1. Inv => TypeOK
  BY DEF Inv
<1> QED
  BY Invariance, <1>1, PTL

\* Nothing is written from the universe snapshot on without every CRITICAL ticker
\* ingested: the gate in front of those steps does its work also in a run that is
\* cancelled while it waits, or afterwards.
THEOREM RegimeRestsOnBenchmarksHolds == Spec => []RegimeRestsOnBenchmarks
<1>1. Inv => RegimeRestsOnBenchmarks
  BY DEF Inv, CandlesInv
<1> QED
  BY Invariance, <1>1, PTL

\* The steps after the drain write only when every ticker has been accounted for.
THEOREM PostStepsSeeAllCandlesHolds == Spec => []PostStepsSeeAllCandles
<1>1. Inv => PostStepsSeeAllCandles
  BY DEF Inv, CandlesInv
<1> QED
  BY Invariance, <1>1, PTL

\* The row of nightly_runs tells the same story as the process, whichever steps are
\* configured and whichever of its marks were refused.
THEOREM AuditMatchesRunHolds == Spec => []AuditMatchesRun
<1>1. Inv => AuditMatchesRun
  BY DEF Inv, AuditInv
<1> QED
  BY Invariance, <1>1, PTL
=============================================================================
