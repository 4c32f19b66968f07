----------------------- MODULE CandleIngestionProofs -----------------------
(***************************************************************************)
(* Proofs about CandleIngestion, for any set of tickers, any pool of       *)
(* workers, any number of retries and any dates.                           *)
(***************************************************************************)
EXTENDS CandleIngestion, FiniteSetTheorems, TLAPS

\* A worker sleeps only while it holds a job it may still try again.
SleepsBetweenAttempts ==
  \A w \in Workers : sleeping[w] => job[w] # NoJob /\ attempt[w] < MaxRetries

\* The assumptions on the constants, in the form the provers need them.
LEMMA Constants ==
  /\ IsFiniteSet(Tickers) /\ Benchmarks \subseteq Tickers /\ Screened \subseteq Tickers
  /\ Workers # {} /\ MaxRetries \in Nat \ {0} /\ NoJob \notin Tickers
  /\ Today \in Nat /\ LookbackDays \in Nat /\ NoCandle \notin Int
  /\ StoredLatest \subseteq [Tickers -> Int \union {NoCandle}]
BY TickersAssumption, WorkersAssumption, RetriesAssumption, DatesAssumption, NoJobAssumption
   DEF TickersAssumption, WorkersAssumption, RetriesAssumption, DatesAssumption, NoJobAssumption

\* Every step keeps every variable in its type: the attempts stay within
\* MaxRetries, a worker receives only jobs that were queued for its loop.
THEOREM TypeCorrect == Spec => [](TypeOK /\ SleepsBetweenAttempts)
<1>1. Init => TypeOK /\ SleepsBetweenAttempts
  <2> SUFFICES ASSUME Init PROVE TypeOK /\ SleepsBetweenAttempts
    OBVIOUS
  <2>1. latest \in [Tickers -> Dates]
    BY Constants DEF Init, Dates
  <2>2. attempt \in [Workers -> 0 .. MaxRetries] /\ job \in [Workers -> Tickers \union {NoJob}]
    BY Constants DEF Init
  <2>3. tvTickers \subseteq Tickers /\ sleeping \in [Workers -> BOOLEAN]
    BY Constants DEF Init
  <2>4. SleepsBetweenAttempts /\ loop \in [Workers -> {"critical", "normal", "done"}]
    BY DEF Init, SleepsBetweenAttempts
  <2>7. /\ cancelled \in BOOLEAN /\ resultClosed \in BOOLEAN /\ priorityClosed \in BOOLEAN
        /\ priorityDone \in BOOLEAN /\ allDone \in BOOLEAN /\ panicked \in BOOLEAN
    BY DEF Init
  <2>5. TypeOK
    BY <2>1, <2>2, <2>3, <2>4, <2>7 DEF Init, TypeOK
  <2>6. QED
    BY <2>4, <2>5
<1>2. TypeOK /\ SleepsBetweenAttempts /\ [Next]_vars => (TypeOK /\ SleepsBetweenAttempts)'
  <2> SUFFICES ASSUME TypeOK, SleepsBetweenAttempts, [Next]_vars
               PROVE (TypeOK /\ SleepsBetweenAttempts)'
    OBVIOUS
  <2> USE DEF TypeOK, Dates, SleepsBetweenAttempts
  <2>1. CASE Start
    <3>1. CriticalJobs \subseteq Tickers /\ NormalJobs \subseteq Tickers
      BY Constants DEF CriticalJobs, NormalJobs, Symbols
    <3>2. /\ loop' \in [Workers -> {"critical", "normal", "done"}]
          /\ collector' \in {"idle", "init", "collect", "done"}
          /\ priorityDone' \in BOOLEAN /\ allDone' \in BOOLEAN
      BY <2>1 DEF Start
    <3>3. QED
      BY <2>1, <3>1, <3>2 DEF Start, inputs, waitVars
  <2>2. CASE StartFails \/ Cancel
    <3>1. CASE StartFails
      BY <3>1 DEF StartFails, inputs, jobs, workerVars, collectVars, handleVars, waitVars
    <3>2. CASE Cancel
      BY <3>2 DEF Cancel, inputs, jobs, workerVars, collectVars, handleVars, waitVars
    <3>3. QED BY <2>2, <3>1, <3>2
  <2>10. CASE Finished \/ UNCHANGED vars
    BY <2>10 DEF Finished, vars, inputs, jobs, workerVars, collectVars, handleVars, waitVars
  <2>3. ASSUME NEW w \in Workers, WorkerStep(w) PROVE (TypeOK /\ SleepsBetweenAttempts)'
    <3>1. CASE ReceiveCritical(w)
      BY <3>1, Constants
         DEF ReceiveCritical, Admit, Idle, inputs, jobs, collectVars, handleVars, waitVars
    <3>2. CASE ReceiveNormal(w)
      BY <3>2, Constants
         DEF ReceiveNormal, Admit, Idle, inputs, jobs, collectVars, handleVars, waitVars
    <3>3. CASE LoopEnds(w)
      BY <3>3 DEF LoopEnds, Idle, inputs, jobs, collectVars, handleVars, waitVars
    <3>4. CASE IngestSucceeds(w)
      <4>1. \A d \in Fetched(job[w]) : d \in Dates
        BY <3>4, Constants DEF IngestSucceeds, Ingesting, Fetched, FromDate
      <4>2. QED
        BY <3>4, <4>1, Constants
           DEF IngestSucceeds, Ingesting, SendResult, inputs, jobs, collectVars, handleVars,
               waitVars
    <3>5. CASE IngestFails(w)
      <4>1. CASE attempt[w] < MaxRetries
        <5>1. sleeping' \in [Workers -> BOOLEAN]
          BY <3>5, <4>1 DEF IngestFails
        <5>2. SleepsBetweenAttempts'
          BY <3>5, <4>1 DEF IngestFails, Ingesting
        <5>3. QED
          BY <3>5, <4>1, <5>1, <5>2 DEF IngestFails, inputs, jobs, collectVars, handleVars, waitVars
      <4>2. CASE ~(attempt[w] < MaxRetries)
        <5>1. panicked' \in BOOLEAN /\ sleeping' \in [Workers -> BOOLEAN]
          BY <3>5, <4>2 DEF IngestFails, SendResult
        <5>2. /\ job[w] \in Tickers
              /\ job' \in [Workers -> Tickers \union {NoJob}]
              /\ attempt' \in [Workers -> 0 .. MaxRetries]
          BY <3>5, <4>2, Constants DEF IngestFails, Ingesting, SendResult
        <5>3. resultCh' \subseteq Tickers /\ failed' \subseteq Tickers
          BY <3>5, <4>2, <5>2 DEF IngestFails, SendResult
        <5>4. SleepsBetweenAttempts'
          BY <3>5, <4>2 DEF IngestFails, SendResult
        <5>5. QED
          BY <3>5, <4>2, <5>1, <5>2, <5>3, <5>4
             DEF IngestFails, inputs, jobs, collectVars, handleVars, waitVars
      <4>3. QED BY <4>1, <4>2
    <3>6. CASE BackoffElapses(w)
      BY <3>6, Constants DEF BackoffElapses, inputs, jobs, collectVars, handleVars, waitVars
    <3>7. CASE BackoffCancelled(w)
      BY <3>7, Constants
         DEF BackoffCancelled, SendResult, inputs, jobs, collectVars, handleVars, waitVars
    <3>8. QED
      BY <2>3, <3>1, <3>2, <3>3, <3>4, <3>5, <3>6, <3>7 DEF WorkerStep
  <2>4. CASE CloseResults
    BY <2>4 DEF CloseResults, inputs, jobs, workerVars, collectVars, handleVars, waitVars
  <2>5. CASE CollectorStarts
    <3>1. Cardinality(critJobs) \in Int
      BY Constants, FS_Subset, FS_CardinalityType
    <3>2. panicked' \in BOOLEAN /\ priorityDone' \in BOOLEAN /\ priorityClosed' \in BOOLEAN
      BY <2>5 DEF CollectorStarts, ClosePriority
    <3>3. pendingCritical' \in Int /\ collector' \in {"idle", "init", "collect", "done"}
      BY <2>5, <3>1 DEF CollectorStarts
    <3>4. QED
      BY <2>5, <3>2, <3>3 DEF CollectorStarts, inputs, jobs, workerVars, waitVars
  <2>6. CASE Collect
    <3>1. panicked' \in BOOLEAN /\ priorityDone' \in BOOLEAN /\ priorityClosed' \in BOOLEAN
      BY <2>6 DEF Collect, CollectCritical, CollectNormal, ClosePriority
    <3>2. resultCh' \subseteq Tickers /\ collected' \subseteq Tickers
      BY <2>6 DEF Collect
    <3>3. criticalErrs' \subseteq Tickers /\ normalErrs' \subseteq Tickers
      BY <2>6 DEF Collect, CollectCritical, CollectNormal
    <3>4. pendingCritical' \in Int
      BY <2>6 DEF Collect, CollectCritical, CollectNormal
    <3>5. QED
      BY <2>6, <3>1, <3>2, <3>3, <3>4 DEF Collect, inputs, jobs, workerVars, waitVars
  <2>7. CASE CollectorEnds
    BY <2>7 DEF CollectorEnds, ClosePriority, inputs, jobs, workerVars, waitVars
  <2>8. CASE WaitForPriorityIngestion
    BY <2>8 DEF WaitForPriorityIngestion, inputs, jobs, workerVars, collectVars, handleVars
  <2>11. CASE Wait
    BY <2>11 DEF Wait, inputs, jobs, workerVars, collectVars, handleVars
  <2>9. QED
    BY <2>1, <2>2, <2>3, <2>4, <2>5, <2>6, <2>7, <2>8, <2>10, <2>11 DEF Next
<1>3. QED BY <1>1, <1>2, PTL DEF Spec

-----------------------------------------------------------------------------
(* The inductive invariant *)

\* Before a run starts there are no jobs, so the invariant holds trivially.
LEMMA InvInit == Init => IInv
<1> SUFFICES ASSUME Init PROVE IInv
  OBVIOUS
<1>1. JobConservation
  BY Constants DEF Init, JobConservation, AllJobs, Held
<1>2. CollectorInv
  BY DEF Init, CollectorInv, AllJobs
<1>3. WorkersInv
  BY DEF Init, WorkersInv
<1>4. ErrorsInv /\ NoPanic
  BY DEF Init, ErrorsInv, NoPanic
<1>5. QED
  BY <1>1, <1>2, <1>3, <1>4 DEF IInv

\* Before the handle exists there is no job anywhere, and no channel is closed.
LEMMA NothingBeforeStart ==
  ASSUME IInv, handle = "none"
  PROVE  /\ critQ = {} /\ normQ = {} /\ Held = {} /\ resultCh = {}
         /\ collected = {} /\ dropped = {} /\ AllJobs = {} /\ failed = {}
         /\ criticalErrs = {} /\ normalErrs = {}
         /\ collector = "idle" /\ ~priorityDone /\ ~allDone /\ ~resultClosed
         /\ \A w \in Workers : loop[w] = "done" /\ job[w] = NoJob
<1>1. collector = "idle" /\ ~priorityDone /\ ~allDone
  BY DEF IInv, CollectorInv
<1>2. AllJobs = {} /\ ~resultClosed
  BY <1>1 DEF IInv, CollectorInv
<1>3. critQ = {} /\ normQ = {} /\ Held = {} /\ resultCh = {} /\ collected = {} /\ dropped = {}
  BY <1>2 DEF IInv, JobConservation
<1>4. failed = {} /\ criticalErrs = {} /\ normalErrs = {}
  BY <1>3 DEF IInv, ErrorsInv
<1>5. \A w \in Workers : loop[w] = "done" /\ job[w] = NoJob
  BY <1>1 DEF IInv, WorkersInv
<1>6. QED BY <1>1, <1>2, <1>3, <1>4, <1>5

\* Building the queues puts every job in exactly one of them; with no job at
\* all both channels are closed and no goroutine is started.
LEMMA StartInv ==
  ASSUME TypeOK, SleepsBetweenAttempts, IInv, Start
  PROVE  IInv'
<1> DEFINE Empty == /\ critQ = {} /\ normQ = {} /\ Held = {} /\ resultCh = {}
                    /\ collected = {} /\ dropped = {} /\ failed = {}
                    /\ criticalErrs = {} /\ normalErrs = {}
<1>1. /\ Empty
      /\ collector = "idle" /\ ~priorityDone /\ ~allDone /\ ~resultClosed
      /\ \A w \in Workers : loop[w] = "done" /\ job[w] = NoJob
  BY NothingBeforeStart DEF Start
<1>2. /\ handle' = "live" /\ critJobs' = CriticalJobs /\ normJobs' = NormalJobs
      /\ critQ' = critJobs' /\ normQ' = normJobs'
      /\ UNCHANGED <<job, resultCh, resultClosed, collected, dropped, failed,
                     criticalErrs, normalErrs, panicked>>
  BY DEF Start
<1>3. CASE CriticalJobs \union NormalJobs = {}
  <2>1. loop' = loop /\ collector' = collector /\ priorityDone' /\ allDone'
    BY <1>3 DEF Start
  <2>2. critQ' = {} /\ normQ' = {} /\ AllJobs' = {}
    BY <1>2, <1>3 DEF AllJobs
  <2>3. Held' = {} /\ \A w \in Workers : job'[w] = NoJob
    BY <1>1, <1>2 DEF Held
  <2>4. JobConservation'
    BY <1>1, <1>2, <2>2, <2>3 DEF JobConservation
  <2>5. CollectorInv'
    BY <1>1, <1>2, <2>1, <2>2 DEF CollectorInv
  <2>6. WorkersInv'
    BY <1>1, <1>2, <2>1, <2>2, <2>3 DEF WorkersInv
  <2>7. ErrorsInv' /\ NoPanic'
    BY <1>1, <1>2, <2>2 DEF ErrorsInv, AllJobs, IInv, NoPanic
  <2>8. QED BY <2>4, <2>5, <2>6, <2>7 DEF IInv
<1>4. CASE CriticalJobs \union NormalJobs # {}
  <2>1. /\ loop' = [w \in Workers |-> "critical"] /\ collector' = "init"
        /\ ~priorityDone' /\ ~allDone'
    BY <1>1, <1>4 DEF Start
  <2>2. AllJobs' = critQ' \union normQ'
    BY <1>2 DEF AllJobs
  <2>3. Held' = {} /\ \A w \in Workers : job'[w] = NoJob
    BY <1>1, <1>2 DEF Held
  <2>4. JobConservation'
    BY <1>1, <1>2, <2>2, <2>3 DEF JobConservation
  <2>5. CollectorInv'
    BY <1>1, <1>2, <2>1 DEF CollectorInv
  <2>6. WorkersInv'
    BY <1>1, <1>2, <2>1, <2>3 DEF WorkersInv
  <2>7. critJobs' \intersect normJobs' = {}
    BY <1>2 DEF CriticalJobs, NormalJobs
  <2>8. ErrorsInv' /\ NoPanic'
    BY <1>1, <1>2, <2>7 DEF ErrorsInv, IInv, NoPanic
  <2>9. QED BY <2>4, <2>5, <2>6, <2>8 DEF IInv
<1>5. QED BY <1>3, <1>4

\* A failed start leaves no goroutine and no open channel behind.
LEMMA StartFailsInv ==
  ASSUME TypeOK, SleepsBetweenAttempts, IInv, StartFails
  PROVE  IInv'
<1> USE DEF StartFails, inputs, jobs, workerVars, collectVars, handleVars, waitVars
<1>1. JobConservation'
  BY DEF IInv, JobConservation, AllJobs, Held
<1>2. CollectorInv'
  <2>1. collector = "idle" /\ ~priorityDone /\ ~allDone
    BY DEF IInv, CollectorInv
  <2>2. QED BY <2>1 DEF IInv, CollectorInv, AllJobs
<1>3. WorkersInv'
  BY DEF IInv, WorkersInv
<1>4. ErrorsInv' /\ NoPanic'
  BY DEF IInv, ErrorsInv, NoPanic
<1>5. QED BY <1>1, <1>2, <1>3, <1>4 DEF IInv

\* The cancellation alone moves no job; it only weakens what is promised.
LEMMA CancelInv ==
  ASSUME TypeOK, SleepsBetweenAttempts, IInv, Cancel
  PROVE  IInv'
<1> USE DEF IInv
<1>1. JobConservation'
  BY Constants
     DEF JobConservation, AllJobs, Held, CollectorInv, TypeOK, Cancel, inputs, jobs,
         workerVars, collectVars, handleVars, waitVars
<1>2. CollectorInv'
  BY Constants
     DEF CollectorInv, AllJobs, TypeOK, Cancel, inputs, jobs, workerVars, collectVars,
         handleVars, waitVars
<1>3. WorkersInv'
  BY Constants
     DEF WorkersInv, CollectorInv, TypeOK, Cancel, inputs, jobs, workerVars, collectVars,
         handleVars, waitVars
<1>4. ErrorsInv'
  BY Constants
     DEF ErrorsInv, JobConservation, Held, CollectorInv, TypeOK, Cancel, inputs, jobs,
         workerVars, collectVars, handleVars, waitVars
<1>5. NoPanic'
  BY Constants
     DEF NoPanic, WorkersInv, CollectorInv, TypeOK, Cancel, inputs, jobs, workerVars,
         collectVars, handleVars, waitVars
<1>6. QED BY <1>1, <1>2, <1>3, <1>4, <1>5

\* Receiving moves one job from the CRITICAL queue to the worker, or drops it.
LEMMA ReceiveCriticalInv ==
  ASSUME TypeOK, SleepsBetweenAttempts, IInv, NEW w \in Workers, ReceiveCritical(w)
  PROVE  IInv'
<1> USE DEF IInv
<1>1. JobConservation'
  <2>1. PICK t \in critQ : critQ' = critQ \ {t} /\ Admit(w, t)
    BY DEF ReceiveCritical
  <2>2. /\ job[w] = NoJob /\ t \in Tickers /\ t # NoJob /\ t \notin Held
        /\ t \notin resultCh \union collected \union dropped
    BY Constants DEF ReceiveCritical, Idle, JobConservation, TypeOK
  <2>3. t \notin normQ
    BY DEF ErrorsInv, TypeOK
  <2>4. CASE cancelled
    <3>1. job' = job /\ dropped' = dropped \union {t}
      BY <2>1, <2>4 DEF Admit
    <3>2. Held' = Held
      BY <3>1 DEF Held
    <3>3. QED
      BY <2>1, <2>2, <2>3, <3>1, <3>2
         DEF ReceiveCritical, JobConservation, AllJobs, jobs, collectVars
  <2>5. CASE ~cancelled
    <3>1. job' = [job EXCEPT ![w] = t] /\ dropped' = dropped
      BY <2>1, <2>5 DEF Admit
    <3>2. Held' = Held \union {t}
      BY <2>2, <3>1 DEF Held, TypeOK
    <3>3. \A w1, w2 \in Workers : job'[w1] = job'[w2] /\ job'[w1] # NoJob => w1 = w2
      BY <2>2, <3>1 DEF JobConservation, Held, TypeOK
    <3>4. QED
      BY <2>1, <2>2, <2>3, <3>1, <3>2, <3>3
         DEF ReceiveCritical, JobConservation, AllJobs, jobs, collectVars
  <2>6. QED BY <2>4, <2>5
<1>2. CollectorInv'
  BY Constants
     DEF CollectorInv, AllJobs, TypeOK, ReceiveCritical, Admit, Idle, inputs, jobs,
         workerVars, collectVars, handleVars, waitVars
<1>3. WorkersInv'
  BY Constants
     DEF WorkersInv, CollectorInv, TypeOK, ReceiveCritical, Admit, Idle, inputs, jobs,
         workerVars, collectVars, handleVars, waitVars
<1>4. ErrorsInv'
  BY Constants
     DEF ErrorsInv, JobConservation, Held, CollectorInv, TypeOK, ReceiveCritical, Admit,
         Idle, inputs, jobs, workerVars, collectVars, handleVars, waitVars
<1>5. NoPanic'
  BY Constants
     DEF NoPanic, WorkersInv, CollectorInv, TypeOK, ReceiveCritical, Admit, Idle, inputs,
         jobs, workerVars, collectVars, handleVars, waitVars
<1>6. QED BY <1>1, <1>2, <1>3, <1>4, <1>5

\* Receiving moves one job from the NORMAL queue to the worker, or drops it.
LEMMA ReceiveNormalInv ==
  ASSUME TypeOK, SleepsBetweenAttempts, IInv, NEW w \in Workers, ReceiveNormal(w)
  PROVE  IInv'
<1> USE DEF IInv
<1>1. JobConservation'
  <2>1. PICK t \in normQ : normQ' = normQ \ {t} /\ Admit(w, t)
    BY DEF ReceiveNormal
  <2>2. /\ job[w] = NoJob /\ t \in Tickers /\ t # NoJob /\ t \notin Held
        /\ t \notin resultCh \union collected \union dropped
    BY Constants DEF ReceiveNormal, Idle, JobConservation, TypeOK
  <2>3. t \notin critQ
    BY DEF ErrorsInv, TypeOK
  <2>4. CASE cancelled
    <3>1. job' = job /\ dropped' = dropped \union {t}
      BY <2>1, <2>4 DEF Admit
    <3>2. Held' = Held
      BY <3>1 DEF Held
    <3>3. QED
      BY <2>1, <2>2, <2>3, <3>1, <3>2
         DEF ReceiveNormal, JobConservation, AllJobs, jobs, collectVars
  <2>5. CASE ~cancelled
    <3>1. job' = [job EXCEPT ![w] = t] /\ dropped' = dropped
      BY <2>1, <2>5 DEF Admit
    <3>2. Held' = Held \union {t}
      BY <2>2, <3>1 DEF Held, TypeOK
    <3>3. \A w1, w2 \in Workers : job'[w1] = job'[w2] /\ job'[w1] # NoJob => w1 = w2
      BY <2>2, <3>1 DEF JobConservation, Held, TypeOK
    <3>4. QED
      BY <2>1, <2>2, <2>3, <3>1, <3>2, <3>3
         DEF ReceiveNormal, JobConservation, AllJobs, jobs, collectVars
  <2>6. QED BY <2>4, <2>5
<1>2. CollectorInv'
  BY Constants
     DEF CollectorInv, AllJobs, TypeOK, ReceiveNormal, Admit, Idle, inputs, jobs,
         workerVars, collectVars, handleVars, waitVars
<1>3. WorkersInv'
  BY Constants
     DEF WorkersInv, CollectorInv, TypeOK, ReceiveNormal, Admit, Idle, inputs, jobs,
         workerVars, collectVars, handleVars, waitVars
<1>4. ErrorsInv'
  BY Constants
     DEF ErrorsInv, JobConservation, Held, CollectorInv, TypeOK, ReceiveNormal, Admit, Idle,
         inputs, jobs, workerVars, collectVars, handleVars, waitVars
<1>5. NoPanic'
  BY Constants
     DEF NoPanic, WorkersInv, CollectorInv, TypeOK, ReceiveNormal, Admit, Idle, inputs,
         jobs, workerVars, collectVars, handleVars, waitVars
<1>6. QED BY <1>1, <1>2, <1>3, <1>4, <1>5

\* A worker leaves a range loop only when that queue is empty.
LEMMA LoopEndsInv ==
  ASSUME TypeOK, SleepsBetweenAttempts, IInv, NEW w \in Workers, LoopEnds(w)
  PROVE  IInv'
<1> USE DEF IInv
<1>1. JobConservation'
  BY Constants
     DEF JobConservation, AllJobs, Held, CollectorInv, TypeOK, LoopEnds, Idle, inputs, jobs,
         workerVars, collectVars, handleVars, waitVars
<1>2. CollectorInv'
  BY Constants
     DEF CollectorInv, AllJobs, TypeOK, LoopEnds, Idle, inputs, jobs, workerVars,
         collectVars, handleVars, waitVars
<1>3. WorkersInv'
  BY Constants
     DEF WorkersInv, CollectorInv, TypeOK, LoopEnds, Idle, inputs, jobs, workerVars,
         collectVars, handleVars, waitVars
<1>4. ErrorsInv'
  BY Constants
     DEF ErrorsInv, JobConservation, Held, CollectorInv, TypeOK, LoopEnds, Idle, inputs,
         jobs, workerVars, collectVars, handleVars, waitVars
<1>5. NoPanic'
  BY Constants
     DEF NoPanic, WorkersInv, CollectorInv, TypeOK, LoopEnds, Idle, inputs, jobs,
         workerVars, collectVars, handleVars, waitVars
<1>6. QED BY <1>1, <1>2, <1>3, <1>4, <1>5

\* A worker that holds a job has not returned, so the result channel it sends
\* on is still open.
LEMMA IngestSucceedsInv ==
  ASSUME TypeOK, SleepsBetweenAttempts, IInv, NEW w \in Workers, IngestSucceeds(w)
  PROVE  IInv'
<1> USE DEF IInv
<1>1. JobConservation'
  BY Constants
     DEF JobConservation, AllJobs, Held, CollectorInv, TypeOK, IngestSucceeds, Ingesting,
         SendResult, inputs, jobs, workerVars, collectVars, handleVars, waitVars
<1>2. CollectorInv'
  <2>1. job[w] # NoJob
    BY DEF IngestSucceeds, Ingesting, SleepsBetweenAttempts
  <2>2. ~resultClosed /\ collector # "idle"
    BY <2>1 DEF WorkersInv
  <2>3. QED
    BY <2>2 DEF IngestSucceeds, CollectorInv, AllJobs, inputs, jobs, collectVars, handleVars
<1>3. WorkersInv'
  BY Constants
     DEF WorkersInv, CollectorInv, TypeOK, IngestSucceeds, Ingesting, SendResult, inputs,
         jobs, workerVars, collectVars, handleVars, waitVars
<1>4. ErrorsInv'
  BY Constants
     DEF ErrorsInv, JobConservation, Held, CollectorInv, TypeOK, IngestSucceeds, Ingesting,
         SendResult, inputs, jobs, workerVars, collectVars, handleVars, waitVars
<1>5. NoPanic'
  BY Constants
     DEF NoPanic, WorkersInv, CollectorInv, TypeOK, IngestSucceeds, Ingesting, SendResult,
         inputs, jobs, workerVars, collectVars, handleVars, waitVars
<1>6. QED BY <1>1, <1>2, <1>3, <1>4, <1>5

\* The same for a job that failed its last attempt: its error travels with
\* the result.
LEMMA IngestFailsInv ==
  ASSUME TypeOK, SleepsBetweenAttempts, IInv, NEW w \in Workers, IngestFails(w)
  PROVE  IInv'
<1> USE DEF IInv
<1>1. JobConservation'
  BY Constants
     DEF JobConservation, AllJobs, Held, CollectorInv, TypeOK, IngestFails, Ingesting,
         SendResult, inputs, jobs, workerVars, collectVars, handleVars, waitVars
<1>2. CollectorInv'
  <2>1. job[w] # NoJob
    BY DEF IngestFails, Ingesting, SleepsBetweenAttempts
  <2>2. ~resultClosed /\ collector # "idle"
    BY <2>1 DEF WorkersInv
  <2>3. QED
    BY <2>2 DEF IngestFails, CollectorInv, AllJobs, inputs, jobs, collectVars, handleVars
<1>3. WorkersInv'
  BY Constants
     DEF WorkersInv, CollectorInv, TypeOK, IngestFails, Ingesting, SendResult, inputs, jobs,
         workerVars, collectVars, handleVars, waitVars
<1>4. ErrorsInv'
  BY Constants
     DEF ErrorsInv, JobConservation, Held, CollectorInv, TypeOK, IngestFails, Ingesting,
         SendResult, inputs, jobs, workerVars, collectVars, handleVars, waitVars
<1>5. NoPanic'
  BY Constants
     DEF NoPanic, WorkersInv, CollectorInv, TypeOK, IngestFails, Ingesting, SendResult,
         inputs, jobs, workerVars, collectVars, handleVars, waitVars
<1>6. QED BY <1>1, <1>2, <1>3, <1>4, <1>5

\* Retrying moves no job.
LEMMA BackoffElapsesInv ==
  ASSUME TypeOK, SleepsBetweenAttempts, IInv, NEW w \in Workers, BackoffElapses(w)
  PROVE  IInv'
<1> USE DEF IInv
<1>1. JobConservation'
  BY Constants
     DEF JobConservation, AllJobs, Held, CollectorInv, TypeOK, BackoffElapses, inputs, jobs,
         workerVars, collectVars, handleVars, waitVars
<1>2. CollectorInv'
  BY Constants
     DEF CollectorInv, AllJobs, TypeOK, BackoffElapses, inputs, jobs, workerVars,
         collectVars, handleVars, waitVars
<1>3. WorkersInv'
  BY Constants
     DEF WorkersInv, CollectorInv, TypeOK, BackoffElapses, inputs, jobs, workerVars,
         collectVars, handleVars, waitVars
<1>4. ErrorsInv'
  BY Constants
     DEF ErrorsInv, JobConservation, Held, CollectorInv, TypeOK, BackoffElapses, inputs,
         jobs, workerVars, collectVars, handleVars, waitVars
<1>5. NoPanic'
  BY Constants
     DEF NoPanic, WorkersInv, CollectorInv, TypeOK, BackoffElapses, inputs, jobs,
         workerVars, collectVars, handleVars, waitVars
<1>6. QED BY <1>1, <1>2, <1>3, <1>4, <1>5

\* A job given up during the backoff is reported like any failed job.
LEMMA BackoffCancelledInv ==
  ASSUME TypeOK, SleepsBetweenAttempts, IInv, NEW w \in Workers, BackoffCancelled(w)
  PROVE  IInv'
<1> USE DEF IInv
<1>1. JobConservation'
  <2>1. job[w] \in Held
    BY DEF BackoffCancelled, SleepsBetweenAttempts, Held
  <2>2. Held' = Held \ {job[w]}
    BY <2>1 DEF BackoffCancelled, SendResult, Held, JobConservation, TypeOK
  <2>3. resultCh' = resultCh \union {job[w]} /\ job' = [job EXCEPT ![w] = NoJob]
    BY DEF BackoffCancelled, SendResult
  <2>4. \A w1, w2 \in Workers : job'[w1] = job'[w2] /\ job'[w1] # NoJob => w1 = w2
    BY <2>3 DEF JobConservation, TypeOK
  <2>5. QED
    BY <2>1, <2>2, <2>3, <2>4 DEF BackoffCancelled, JobConservation, AllJobs, jobs, collectVars
<1>2. CollectorInv'
  <2>1. job[w] # NoJob
    BY DEF BackoffCancelled, Ingesting, SleepsBetweenAttempts
  <2>2. ~resultClosed /\ collector # "idle"
    BY <2>1 DEF WorkersInv
  <2>3. QED
    BY <2>2 DEF BackoffCancelled, CollectorInv, AllJobs, inputs, jobs, collectVars, handleVars
<1>3. WorkersInv'
  BY Constants
     DEF WorkersInv, CollectorInv, TypeOK, BackoffCancelled, SendResult, inputs, jobs,
         workerVars, collectVars, handleVars, waitVars
<1>4. ErrorsInv'
  BY Constants
     DEF ErrorsInv, JobConservation, Held, CollectorInv, TypeOK, BackoffCancelled,
         SendResult, inputs, jobs, workerVars, collectVars, handleVars, waitVars
<1>5. NoPanic'
  <2>1. job[w] # NoJob
    BY DEF BackoffCancelled, SleepsBetweenAttempts
  <2>2. ~resultClosed
    BY <2>1 DEF WorkersInv
  <2>3. QED
    BY <2>2 DEF BackoffCancelled, SendResult, NoPanic
<1>6. QED BY <1>1, <1>2, <1>3, <1>4, <1>5

\* When every worker has returned, no job is held and none will be sent.
LEMMA CloseResultsInv ==
  ASSUME TypeOK, SleepsBetweenAttempts, IInv, CloseResults
  PROVE  IInv'
<1> USE DEF IInv
<1>1. JobConservation'
  BY Constants
     DEF JobConservation, AllJobs, Held, CollectorInv, TypeOK, CloseResults,
         WorkersReturned, inputs, jobs, workerVars, collectVars, handleVars, waitVars
<1>2. CollectorInv'
  BY Constants
     DEF CollectorInv, AllJobs, TypeOK, CloseResults, WorkersReturned, inputs, jobs,
         workerVars, collectVars, handleVars, waitVars
<1>3. WorkersInv'
  BY Constants
     DEF WorkersInv, CollectorInv, TypeOK, CloseResults, WorkersReturned, inputs, jobs,
         workerVars, collectVars, handleVars, waitVars
<1>4. ErrorsInv'
  BY Constants
     DEF ErrorsInv, JobConservation, Held, CollectorInv, TypeOK, CloseResults,
         WorkersReturned, inputs, jobs, workerVars, collectVars, handleVars, waitVars
<1>5. NoPanic'
  BY Constants
     DEF NoPanic, WorkersInv, CollectorInv, TypeOK, CloseResults, WorkersReturned, inputs,
         jobs, workerVars, collectVars, handleVars, waitVars
<1>6. QED BY <1>1, <1>2, <1>3, <1>4, <1>5

\* The collector starts with nothing counted and every CRITICAL job pending.
LEMMA CollectorStartsInv ==
  ASSUME TypeOK, SleepsBetweenAttempts, IInv, CollectorStarts
  PROVE  IInv'
<1> USE DEF IInv
<1>1. JobConservation'
  BY Constants
     DEF JobConservation, AllJobs, Held, CollectorInv, TypeOK, CollectorStarts,
         ClosePriority, inputs, jobs, workerVars, collectVars, handleVars, waitVars
<1>2. CollectorInv'
  BY Constants
     DEF CollectorInv, AllJobs, TypeOK, CollectorStarts, ClosePriority, inputs, jobs,
         workerVars, collectVars, handleVars, waitVars
<1>3. WorkersInv'
  BY Constants
     DEF WorkersInv, CollectorInv, TypeOK, CollectorStarts, ClosePriority, inputs, jobs,
         workerVars, collectVars, handleVars, waitVars
<1>4. ErrorsInv'
  BY Constants
     DEF ErrorsInv, JobConservation, Held, CollectorInv, TypeOK, CollectorStarts,
         ClosePriority, inputs, jobs, workerVars, collectVars, handleVars, waitVars
<1>5. NoPanic'
  BY Constants
     DEF NoPanic, WorkersInv, CollectorInv, TypeOK, CollectorStarts, ClosePriority, inputs,
         jobs, workerVars, collectVars, handleVars, waitVars
<1>6. QED BY <1>1, <1>2, <1>3, <1>4, <1>5

\* Counting one result keeps pendingCritical equal to the CRITICAL jobs not yet
\* counted, and closes priorityDone exactly when it reaches zero.
LEMMA CollectInv ==
  ASSUME TypeOK, SleepsBetweenAttempts, IInv, Collect
  PROVE  IInv'
<1> USE DEF IInv
<1>1. PICK t \in resultCh : /\ resultCh' = resultCh \ {t}
                            /\ collected' = collected \union {t}
                            /\ IF t \in critJobs THEN CollectCritical(t) ELSE CollectNormal(t)
  BY DEF Collect
<1>2. t \notin collected /\ t \in AllJobs /\ collector = "collect"
  BY DEF Collect, JobConservation
<1>3. JobConservation'
  BY <1>1, <1>2 DEF Collect, JobConservation, AllJobs, Held, jobs, workerVars
<1>4. CASE t \in critJobs
  <2>1. CollectCritical(t)
    BY <1>1, <1>4
  <2>2. IsFiniteSet(critJobs \ collected)
    BY Constants, FS_Subset DEF TypeOK
  <2>3. (critJobs \ collected)' = (critJobs \ collected) \ {t}
    BY <1>1 DEF Collect, jobs
  <2>4. pendingCritical' = Cardinality((critJobs \ collected)')
    BY <1>2, <1>4, <2>1, <2>2, <2>3, FS_RemoveElement DEF CollectCritical, CollectorInv
  <2>5. pendingCritical' = 0 <=> (critJobs \ collected)' = {}
    BY <2>2, <2>3, <2>4, FS_RemoveElement, FS_EmptySet
  <2>6. priorityClosed = FALSE /\ priorityDone = FALSE /\ panicked = FALSE
    BY <1>2, <1>4 DEF CollectorInv, TypeOK, NoPanic
  <2>7. /\ priorityClosed' <=> (critJobs \subseteq collected)'
        /\ priorityDone' = priorityClosed'
        /\ panicked' = panicked
    <3>1. (critJobs \subseteq collected)' <=> pendingCritical' = 0
      BY <2>5
    <3>2. CASE pendingCritical' = 0
      <4>1. priorityClosed' = TRUE /\ priorityDone' = TRUE /\ panicked' = FALSE
        BY <2>1, <2>6, <3>2 DEF CollectCritical, ClosePriority
      <4>2. QED BY <2>6, <3>1, <3>2, <4>1
    <3>3. CASE pendingCritical' # 0
      <4>1. priorityClosed' = FALSE /\ priorityDone' = FALSE /\ panicked' = FALSE
        BY <2>1, <2>6, <3>3 DEF CollectCritical
      <4>2. QED BY <2>6, <3>1, <3>3, <4>1
    <3>4. QED BY <3>2, <3>3
  <2>8. CollectorInv'
    BY <1>1, <1>2, <2>4, <2>7 DEF Collect, CollectorInv
  <2>9. ErrorsInv' /\ WorkersInv' /\ NoPanic'
    BY <1>1, <1>2, <1>4, <2>1, <2>7
       DEF Collect, CollectCritical, ErrorsInv, WorkersInv, NoPanic, jobs, workerVars
  <2>10. QED BY <1>3, <2>8, <2>9
<1>5. CASE t \notin critJobs
  <2>1. CollectNormal(t)
    BY <1>1, <1>5
  <2>2. (critJobs \ collected)' = critJobs \ collected
    BY <1>1, <1>5 DEF Collect, jobs
  <2>3. CollectorInv'
    BY <1>1, <1>2, <1>5, <2>1, <2>2 DEF Collect, CollectNormal, CollectorInv, AllJobs, jobs
  <2>4. ErrorsInv' /\ WorkersInv' /\ NoPanic'
    BY <1>1, <1>2, <1>5, <2>1
       DEF Collect, CollectNormal, ErrorsInv, WorkersInv, NoPanic, AllJobs, jobs, workerVars
  <2>5. QED BY <1>3, <2>3, <2>4
<1>6. QED BY <1>4, <1>5

\* The safety net closes priorityDone only when nobody has.
LEMMA CollectorEndsInv ==
  ASSUME TypeOK, SleepsBetweenAttempts, IInv, CollectorEnds
  PROVE  IInv'
<1> USE DEF IInv
<1>1. JobConservation'
  BY Constants
     DEF JobConservation, AllJobs, Held, CollectorInv, TypeOK, CollectorEnds, ClosePriority,
         inputs, jobs, workerVars, collectVars, handleVars, waitVars
<1>2. CollectorInv'
  BY Constants
     DEF CollectorInv, AllJobs, TypeOK, CollectorEnds, ClosePriority, inputs, jobs,
         workerVars, collectVars, handleVars, waitVars
<1>3. WorkersInv'
  BY Constants
     DEF WorkersInv, CollectorInv, TypeOK, CollectorEnds, ClosePriority, inputs, jobs,
         workerVars, collectVars, handleVars, waitVars
<1>4. ErrorsInv'
  BY Constants
     DEF ErrorsInv, JobConservation, Held, CollectorInv, TypeOK, CollectorEnds,
         ClosePriority, inputs, jobs, workerVars, collectVars, handleVars, waitVars
<1>5. NoPanic'
  BY Constants
     DEF NoPanic, WorkersInv, CollectorInv, TypeOK, CollectorEnds, ClosePriority, inputs,
         jobs, workerVars, collectVars, handleVars, waitVars
<1>6. QED BY <1>1, <1>2, <1>3, <1>4, <1>5

\* Waiting changes nothing the invariant speaks of.
LEMMA WaitForPriorityIngestionInv ==
  ASSUME TypeOK, SleepsBetweenAttempts, IInv, WaitForPriorityIngestion
  PROVE  IInv'
<1> USE DEF IInv
<1>1. JobConservation'
  BY Constants
     DEF JobConservation, AllJobs, Held, CollectorInv, TypeOK, WaitForPriorityIngestion,
         inputs, jobs, workerVars, collectVars, handleVars, waitVars
<1>2. CollectorInv'
  BY Constants
     DEF CollectorInv, AllJobs, TypeOK, WaitForPriorityIngestion, inputs, jobs, workerVars,
         collectVars, handleVars, waitVars
<1>3. WorkersInv'
  BY Constants
     DEF WorkersInv, CollectorInv, TypeOK, WaitForPriorityIngestion, inputs, jobs,
         workerVars, collectVars, handleVars, waitVars
<1>4. ErrorsInv'
  BY Constants
     DEF ErrorsInv, JobConservation, Held, CollectorInv, TypeOK, WaitForPriorityIngestion,
         inputs, jobs, workerVars, collectVars, handleVars, waitVars
<1>5. NoPanic'
  BY Constants
     DEF NoPanic, WorkersInv, CollectorInv, TypeOK, WaitForPriorityIngestion, inputs, jobs,
         workerVars, collectVars, handleVars, waitVars
<1>6. QED BY <1>1, <1>2, <1>3, <1>4, <1>5

\* Waiting changes nothing the invariant speaks of.
LEMMA WaitInv ==
  ASSUME TypeOK, SleepsBetweenAttempts, IInv, Wait
  PROVE  IInv'
<1> USE DEF IInv
<1>1. JobConservation'
  BY Constants
     DEF JobConservation, AllJobs, Held, CollectorInv, TypeOK, Wait, inputs, jobs,
         workerVars, collectVars, handleVars, waitVars
<1>2. CollectorInv'
  BY Constants
     DEF CollectorInv, AllJobs, TypeOK, Wait, inputs, jobs, workerVars, collectVars,
         handleVars, waitVars
<1>3. WorkersInv'
  BY Constants
     DEF WorkersInv, CollectorInv, TypeOK, Wait, inputs, jobs, workerVars, collectVars,
         handleVars, waitVars
<1>4. ErrorsInv'
  BY Constants
     DEF ErrorsInv, JobConservation, Held, CollectorInv, TypeOK, Wait, inputs, jobs,
         workerVars, collectVars, handleVars, waitVars
<1>5. NoPanic'
  BY Constants
     DEF NoPanic, WorkersInv, CollectorInv, TypeOK, Wait, inputs, jobs, workerVars,
         collectVars, handleVars, waitVars
<1>6. QED BY <1>1, <1>2, <1>3, <1>4, <1>5

\* The inductive invariant holds in every reachable state.
THEOREM Invariance == Spec => []IInv
<1>1. IInv /\ TypeOK /\ SleepsBetweenAttempts /\ [Next]_vars => IInv'
  <2> SUFFICES ASSUME IInv, TypeOK, SleepsBetweenAttempts, [Next]_vars PROVE IInv'
    OBVIOUS
  <2>1. CASE Start BY <2>1, StartInv
  <2>2. CASE StartFails BY <2>2, StartFailsInv
  <2>3. CASE Cancel BY <2>3, CancelInv
  <2>4. ASSUME NEW w \in Workers, WorkerStep(w) PROVE IInv'
    BY <2>4, ReceiveCriticalInv, ReceiveNormalInv, LoopEndsInv, IngestSucceedsInv,
       IngestFailsInv, BackoffElapsesInv, BackoffCancelledInv DEF WorkerStep
  <2>5. CASE CloseResults BY <2>5, CloseResultsInv
  <2>6. CASE CollectorStarts BY <2>6, CollectorStartsInv
  <2>7. CASE Collect BY <2>7, CollectInv
  <2>8. CASE CollectorEnds BY <2>8, CollectorEndsInv
  <2>9. CASE WaitForPriorityIngestion BY <2>9, WaitForPriorityIngestionInv
  <2>10. CASE Wait BY <2>10, WaitInv
  <2>11. CASE Finished \/ UNCHANGED vars
    <3>1. UNCHANGED vars
      BY <2>11 DEF Finished
    <3> USE <3>1 DEF vars, inputs, jobs, workerVars, collectVars, handleVars, waitVars
    <3>2. JobConservation'
      BY DEF IInv, JobConservation, AllJobs, Held
    <3>3. CollectorInv'
      BY DEF IInv, CollectorInv, AllJobs
    <3>4. WorkersInv'
      BY DEF IInv, WorkersInv
    <3>5. ErrorsInv'
      BY DEF IInv, ErrorsInv
    <3>6. NoPanic'
      BY DEF IInv, NoPanic
    <3>7. QED
      BY <3>2, <3>3, <3>4, <3>5, <3>6 DEF IInv
  <2>12. QED
    BY <2>1, <2>2, <2>3, <2>4, <2>5, <2>6, <2>7, <2>8, <2>9, <2>10, <2>11 DEF Next
<1>2. QED BY InvInit, TypeCorrect, <1>1, PTL DEF Spec

-----------------------------------------------------------------------------
(* Safety *)

\* Of a run that was not cancelled, only counted jobs are left when every
\* worker has returned and the result channel is drained.
LEMMA NothingLeft ==
  ASSUME TypeOK, IInv, ~cancelled, resultClosed, resultCh = {}
  PROVE  collected = AllJobs
<1>1. PICK w \in Workers : TRUE
  BY Constants
<1>2. \A v \in Workers : loop[v] = "done" /\ job[v] = NoJob
  BY DEF IInv, CollectorInv, WorkersInv
<1>3. critQ = {} /\ normQ = {} /\ dropped = {} /\ Held = {} /\ resultCh = {}
  BY <1>1, <1>2 DEF IInv, CollectorInv, WorkersInv, Held
<1>4. QED
  BY <1>3 DEF IInv, JobConservation

\* priorityDone closes on CRITICAL jobs that were all processed, with their
\* failures listed, unless the context was cancelled.
THEOREM PriorityGateHolds == Spec => []PriorityGate
<1>1. TypeOK /\ IInv => PriorityGate
  <2> SUFFICES ASSUME TypeOK, IInv, priorityDone, ~cancelled
               PROVE /\ critJobs \subseteq collected
                     /\ criticalErrs = critJobs \intersect failed
    BY DEF PriorityGate
  <2>1. critJobs \subseteq collected
    <3>1. CASE collector = "idle"
      BY <3>1 DEF IInv, CollectorInv, AllJobs
    <3>2. CASE collector = "collect"
      BY <3>2 DEF IInv, CollectorInv
    <3>3. CASE collector = "done"
      BY <3>3, NothingLeft DEF AllJobs, IInv, CollectorInv
    <3>4. collector # "init"
      BY DEF IInv, CollectorInv
    <3>5. QED BY <3>1, <3>2, <3>3, <3>4 DEF TypeOK
  <2>2. QED BY <2>1 DEF IInv, ErrorsInv
<1>2. QED BY <1>1, TypeCorrect, Invariance, PTL

\* allDone closes last, after every worker has returned.
THEOREM AllDoneIsFinalHolds == Spec => []AllDoneIsFinal
<1>1. TypeOK /\ IInv => AllDoneIsFinal
  <2> SUFFICES ASSUME TypeOK, IInv, allDone PROVE AllDoneIsFinal
    BY DEF AllDoneIsFinal
  <2>1. CASE collector = "idle"
    BY <2>1 DEF AllDoneIsFinal, IInv, CollectorInv, WorkersInv, JobConservation
  <2>2. CASE collector = "done"
    BY <2>2, NothingLeft DEF AllDoneIsFinal, IInv, CollectorInv, WorkersInv
  <2>3. collector \notin {"init", "collect"}
    BY DEF IInv, CollectorInv
  <2>4. QED BY <2>1, <2>2, <2>3 DEF TypeOK
<1>2. QED BY <1>1, TypeCorrect, Invariance, PTL

\* Jobs are neither lost nor processed twice.
THEOREM ConservationHolds == Spec => []JobConservation
<1>1. IInv => JobConservation
  BY DEF IInv
<1>2. QED BY <1>1, Invariance, PTL

\* No channel is closed twice or sent on after its close, however many workers
\* there are and wherever the cancellation finds them.
THEOREM NoPanicHolds == Spec => []NoPanic
<1>1. IInv => NoPanic
  BY DEF IInv
<1>2. QED BY <1>1, Invariance, PTL

\* The collector has nothing left to record when it closes a channel.
LEMMA FrozenStep ==
  ASSUME TypeOK, IInv, [Next]_vars
  PROVE  /\ priorityDone => criticalErrs' = criticalErrs
         /\ allDone => normalErrs' = normalErrs
<1>1. CASE Collect
  <2>1. PICK t \in resultCh : IF t \in critJobs THEN CollectCritical(t) ELSE CollectNormal(t)
    BY <1>1 DEF Collect
  <2>2. collector = "collect" /\ ~allDone /\ t \notin collected
    BY <1>1 DEF Collect, IInv, CollectorInv, JobConservation
  <2>3. priorityDone => t \notin critJobs
    BY <2>2 DEF IInv, CollectorInv
  <2>4. QED BY <2>1, <2>2, <2>3 DEF CollectNormal
<1>2. CASE ~Collect
  BY <1>2 DEF Next, Start, StartFails, Cancel, WorkerStep, ReceiveCritical, ReceiveNormal,
     LoopEnds, IngestSucceeds, IngestFails, BackoffElapses, BackoffCancelled, CloseResults,
     CollectorStarts, CollectorEnds, WaitForPriorityIngestion, Wait, Finished, handleVars, vars
<1>3. QED BY <1>1, <1>2

\* An error list does not change once the channel that publishes it is closed.
THEOREM ErrorsFrozenHolds == Spec => ErrorsFrozen
<1>1. TypeOK /\ IInv /\ [Next]_vars =>
        [/\ priorityDone => criticalErrs' = criticalErrs
         /\ allDone => normalErrs' = normalErrs]_vars
  BY FrozenStep
<1>2. QED BY <1>1, TypeCorrect, Invariance, PTL DEF Spec, ErrorsFrozen

-----------------------------------------------------------------------------
(* Every benchmark is covered *)

UpToToday(t) == latest[t] # NoCandle /\ latest[t] >= Today

\* A benchmark without a CRITICAL job was up to date when the queues were built
\* and stays so; who was told that all went well was told so by an error list
\* that can no longer grow.
CoveredInv ==
  /\ handle = "live" => \A t \in Benchmarks : t \in critJobs \/ UpToToday(t)
  /\ priorityWait = "nil" => handle = "live" /\ priorityDone /\ criticalErrs = {}

\* computeFromDate leaves out only who has today's candle.
LEMMA UpToDateIsToday ==
  ASSUME TypeOK, NEW t \in Tickers
  PROVE  UpToDate(t) <=> UpToToday(t)
<1>1. CASE latest[t] = NoCandle
  BY <1>1, Constants DEF UpToDate, FromDate, UpToToday
<1>2. CASE latest[t] # NoCandle
  <2>1. latest[t] \in Int
    BY <1>2 DEF TypeOK, Dates
  <2> QED
    BY <1>2, <2>1, Constants DEF UpToDate, FromDate, UpToToday
<1> QED
  BY <1>1, <1>2

\* A fetch never takes a candle away, and has no window for who is up to date.
LEMMA StaysUpToDate ==
  ASSUME TypeOK, [Next]_vars, NEW t \in Tickers, UpToToday(t)
  PROVE  UpToToday(t)'
<1>1. ASSUME NEW w \in Workers, IngestSucceeds(w) PROVE UpToToday(t)'
  <2>1. PICK d \in Fetched(job[w]) : latest' = [latest EXCEPT ![job[w]] = d]
    BY <1>1 DEF IngestSucceeds
  <2>2. CASE job[w] # t
    BY <2>1, <2>2 DEF UpToToday, TypeOK
  <2>3. CASE job[w] = t
    <3>1. UpToDate(t) /\ latest[t] \in Int
      BY UpToDateIsToday DEF UpToToday, TypeOK, Dates
    <3>2. FromDate(t) \in Int /\ FromDate(t) > Today
      BY <3>1, Constants DEF UpToDate, FromDate
    <3>3. FromDate(t) .. Today = {}
      BY <3>2, Constants
    <3>4. d = latest[t]
      BY <2>3, <3>3 DEF Fetched
    <3> QED
      BY <2>1, <2>3, <3>4 DEF UpToToday, TypeOK
  <2> QED
    BY <2>2, <2>3
<1>2. CASE UNCHANGED latest
  BY <1>2 DEF UpToToday
<1> QED
  BY <1>1, <1>2
  DEF Next, Start, StartFails, Cancel, WorkerStep, ReceiveCritical, ReceiveNormal, LoopEnds,
      IngestFails, BackoffElapses, BackoffCancelled, CloseResults, CollectorStarts, Collect,
      CollectorEnds, WaitForPriorityIngestion, Wait, Finished, vars

LEMMA CoveredInvariant ==
  ASSUME TypeOK, IInv, CoveredInv, [Next]_vars
  PROVE  CoveredInv'
<1>1. Benchmarks \subseteq Tickers
  BY Constants
<1>2. CASE Start
  <2>1. \A t \in Benchmarks : t \in critJobs' \/ UpToDate(t)
    BY <1>2 DEF Start, CriticalJobs
  <2>2. priorityWait' = priorityWait /\ priorityWait # "nil"
    BY <1>2 DEF Start, waitVars, CoveredInv
  <2> QED
    BY <1>1, <2>1, <2>2, UpToDateIsToday, StaysUpToDate DEF CoveredInv
<1>3. CASE WaitForPriorityIngestion
  <2>1. UNCHANGED <<handle, latest, critJobs, priorityDone, criticalErrs>>
    BY <1>3 DEF WaitForPriorityIngestion, jobs, handleVars
  <2>2. priorityWait' = "nil" => handle = "live" /\ priorityDone /\ criticalErrs = {}
    BY <1>3 DEF WaitForPriorityIngestion
  <2> QED
    BY <2>1, <2>2 DEF CoveredInv, UpToToday
<1>4. CASE ~Start /\ ~WaitForPriorityIngestion
  <2>1. /\ UNCHANGED <<critJobs, priorityWait>>
        /\ handle' = "live" <=> handle = "live"
        /\ priorityDone => priorityDone'
    BY <1>4
    DEF Next, StartFails, Cancel, WorkerStep, ReceiveCritical, ReceiveNormal, LoopEnds,
        IngestSucceeds, IngestFails, BackoffElapses, BackoffCancelled, CloseResults,
        CollectorStarts, Collect, CollectCritical, CollectNormal, ClosePriority, CollectorEnds,
        Wait, Finished, jobs, handleVars, waitVars, vars
  <2> QED
    BY <1>1, <2>1, StaysUpToDate, FrozenStep DEF CoveredInv
<1> QED
  BY <1>2, <1>3, <1>4

\* Whoever was told that priority ingestion went well finds every benchmark up
\* to date or fetched without an error, for any dates the run starts from.
THEOREM BenchmarksCoveredHolds == Spec => []BenchmarksCovered
<1>1. Init => CoveredInv
  BY DEF Init, CoveredInv
<1>2. TypeOK /\ IInv /\ CoveredInv /\ [Next]_vars => CoveredInv'
  BY CoveredInvariant
<1>3. IInv /\ CoveredInv /\ PriorityGate => BenchmarksCovered
  <2> SUFFICES ASSUME IInv, CoveredInv, PriorityGate, priorityWait = "nil", ~cancelled,
                      NEW t \in Benchmarks
               PROVE  t \in collected \ failed \/ UpToToday(t)
    BY DEF BenchmarksCovered, UpToToday
  <2>1. critJobs \subseteq collected /\ critJobs \intersect failed = {}
    BY DEF CoveredInv, PriorityGate
  <2> QED
    BY <2>1 DEF CoveredInv
<1>4. QED
  BY <1>1, <1>2, <1>3, TypeCorrect, Invariance, PriorityGateHolds, PTL DEF Spec

-----------------------------------------------------------------------------
(* The order of the queues *)

\* A NORMAL job leaves its queue only when the CRITICAL queue is empty.
THEOREM CriticalFirstHolds == Spec => CriticalFirst
<1>1. TypeOK /\ IInv /\ [Next]_vars => [normQ' # normQ /\ handle = "live" => critQ = {}]_vars
  <2> SUFFICES ASSUME TypeOK, IInv, Next, normQ' # normQ, handle = "live" PROVE critQ = {}
    OBVIOUS
  <2>1. PICK w \in Workers : ReceiveNormal(w)
    BY DEF Next, Start, StartFails, Cancel, WorkerStep, ReceiveCritical,
       LoopEnds, IngestSucceeds, IngestFails, BackoffElapses, BackoffCancelled, CloseResults,
       CollectorStarts, Collect, CollectorEnds, WaitForPriorityIngestion, Wait, Finished,
       workerVars, vars
  <2>2. QED BY <2>1 DEF ReceiveNormal, IInv, WorkersInv
<1>2. QED BY <1>1, TypeCorrect, Invariance, PTL DEF Spec, CriticalFirst

-----------------------------------------------------------------------------
(* Refinement: the goroutines and channels behave like the barrier *)

\* The collector's count of a result accounts for one job of the barrier.
LEMMA CollectRefines ==
  ASSUME TypeOK, IInv, TypeOK', IInv', Collect
  PROVE  Barrier!Next
<1>1. PICK t \in resultCh : /\ collected' = collected \union {t}
                            /\ IF t \in critJobs THEN CollectCritical(t) ELSE CollectNormal(t)
  BY DEF Collect
<1>2. /\ t \in AllJobs \ collected /\ collector = "collect" /\ ~allDone
      /\ handle = "live" /\ collector' = "collect"
  BY DEF Collect, IInv, CollectorInv, JobConservation, TypeOK
<1>3. /\ critJobs' = critJobs /\ AllJobs' = AllJobs /\ handle' = handle
      /\ cancelled' = cancelled /\ allDone' = allDone /\ priorityWait' = priorityWait
  BY DEF Collect, jobs, waitVars, AllJobs
<1>4. priorityDone' = (priorityDone \/ (t \in critJobs /\ critJobs \subseteq collected'))
  <2>1. priorityDone <=> critJobs \subseteq collected
    BY <1>2 DEF IInv, CollectorInv
  <2>2. priorityDone' <=> critJobs \subseteq collected'
    BY <1>2, <1>3 DEF IInv, CollectorInv
  <2>3. QED BY <1>1, <2>1, <2>2 DEF TypeOK
<1>5. (criticalErrs \union normalErrs)' \in
        {criticalErrs \union normalErrs, criticalErrs \union normalErrs \union {t}}
  <2>1. CASE t \in critJobs
    BY <1>1, <2>1 DEF CollectCritical
  <2>2. CASE t \notin critJobs
    BY <1>1, <2>2 DEF CollectNormal
  <2>3. QED BY <2>1, <2>2
<1>6. Barrier!Account(t)
  BY <1>1, <1>2, <1>3, <1>4, <1>5 DEF Barrier!Account
<1>7. QED
  BY <1>2, <1>6 DEF Barrier!Next, AllJobs, TypeOK

\* Every other step is a step of the barrier too, or invisible to it.
LEMMA StepRefines ==
  ASSUME TypeOK, IInv, TypeOK', IInv', [Next]_vars
  PROVE  [Barrier!Next]_Barrier!vars
<1> USE DEF Barrier!vars
<1>1. CASE Start
  <2>1. /\ collected = {} /\ AllJobs' \subseteq Tickers /\ critJobs' \subseteq AllJobs'
        /\ handle = "none" /\ ~priorityDone /\ ~allDone
    BY <1>1 DEF Start, IInv, CollectorInv, JobConservation, AllJobs, TypeOK
  <2>2. priorityDone' = (AllJobs' = {}) /\ allDone' = (AllJobs' = {})
    BY <1>1, <2>1 DEF Start, AllJobs, TypeOK
  <2>3. /\ collected' = collected /\ cancelled' = cancelled /\ priorityWait' = priorityWait
        /\ criticalErrs' = criticalErrs /\ normalErrs' = normalErrs /\ handle' = "live"
    BY <1>1 DEF Start, waitVars
  <2>4. Barrier!Begin
    BY <2>1, <2>2, <2>3 DEF Barrier!Begin
  <2>5. QED BY <2>4 DEF Barrier!Next
<1>2. CASE StartFails
  BY <1>2 DEF StartFails, jobs, collectVars, handleVars, waitVars, AllJobs
<1>3. CASE Cancel
  BY <1>3 DEF Cancel, jobs, collectVars, handleVars, waitVars, AllJobs, Barrier!Next, Barrier!Cancel
<1>4. ASSUME NEW w \in Workers, WorkerStep(w) PROVE UNCHANGED Barrier!vars
  BY <1>4 DEF WorkerStep, ReceiveCritical, ReceiveNormal, LoopEnds, IngestSucceeds, IngestFails,
     BackoffElapses, BackoffCancelled, jobs, collectVars, handleVars, waitVars, AllJobs
<1>5. CASE CloseResults
  BY <1>5 DEF CloseResults, jobs, collectVars, handleVars, waitVars, AllJobs
<1>6. CASE CollectorStarts
  <2>1. CASE critJobs = {}
    <3>1. handle = "live" /\ priorityDone' = TRUE
      BY <1>6, <2>1 DEF CollectorStarts, ClosePriority, IInv, CollectorInv, TypeOK
    <3>2. Barrier!OpenGate
      BY <1>6, <2>1, <3>1 DEF CollectorStarts, Barrier!OpenGate, jobs, waitVars, AllJobs
    <3>3. QED BY <3>2 DEF Barrier!Next
  <2>2. CASE critJobs # {}
    BY <1>6, <2>2 DEF CollectorStarts, jobs, waitVars, AllJobs
  <2>3. QED BY <2>1, <2>2
<1>7. CASE Collect
  BY <1>7, CollectRefines
<1>8. CASE CollectorEnds
  <2>1. handle = "live" /\ collector' = "done"
    BY <1>8 DEF CollectorEnds, IInv, CollectorInv, TypeOK
  <2>2. priorityDone' = TRUE /\ allDone' = TRUE
    BY <2>1 DEF IInv, CollectorInv, TypeOK
  <2>3. /\ collected' = collected /\ cancelled' = cancelled /\ AllJobs' = AllJobs
        /\ critJobs' = critJobs /\ handle' = handle /\ priorityWait' = priorityWait
        /\ criticalErrs' = criticalErrs /\ normalErrs' = normalErrs
    BY <1>8 DEF CollectorEnds, jobs, waitVars, AllJobs
  <2>4. cancelled \/ collected = AllJobs
    BY <1>8, NothingLeft DEF CollectorEnds
  <2>5. Barrier!Finish
    BY <2>1, <2>2, <2>3, <2>4 DEF Barrier!Finish
  <2>6. QED BY <2>5 DEF Barrier!Next
<1>9. CASE WaitForPriorityIngestion
  <2>1. criticalErrs = {} <=> critJobs \intersect (criticalErrs \union normalErrs) = {}
    BY DEF IInv, ErrorsInv
  <2>2. Barrier!Answer
    BY <1>9, <2>1
       DEF WaitForPriorityIngestion, Barrier!Answer, jobs, collectVars, handleVars, AllJobs
  <2>3. QED BY <2>2 DEF Barrier!Next
<1>10. CASE Wait
  BY <1>10 DEF Wait, jobs, collectVars, handleVars, AllJobs
<1>11. CASE Finished \/ UNCHANGED vars
  BY <1>11 DEF Finished, vars, jobs, collectVars, handleVars, waitVars, AllJobs
<1>12. QED
  BY <1>1, <1>2, <1>3, <1>4, <1>5, <1>6, <1>7, <1>8, <1>9, <1>10, <1>11 DEF Next

\* The handle implements the barrier: whatever the workers do, jobs are counted
\* once each and the gate opens with the last CRITICAL one or after a cancel.
THEOREM Refinement == Spec => ImplementsBarrier
<1>1. Init => Barrier!Init
  BY DEF Init, Barrier!Init, AllJobs
<1>2. QED
  BY <1>1, StepRefines, TypeCorrect, Invariance, PTL DEF Spec, ImplementsBarrier, Barrier!Spec

=============================================================================
