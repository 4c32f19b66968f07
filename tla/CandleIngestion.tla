-------------------------- MODULE CandleIngestion --------------------------
(***************************************************************************)
(* The asynchronous candle ingestion of the nightly pipeline:              *)
(* StartCandleIngestionAsync builds a CRITICAL and a NORMAL queue, a pool  *)
(* of workers drains them, a collector goroutine counts the results and    *)
(* closes priorityDone and allDone, and callers block on either channel    *)
(* or on the cancellation of the context.                                  *)
(*                                                                         *)
(* The queues are filled and closed before a worker starts and nothing is  *)
(* ever appended to them, so a queue is a set: receiving any element is    *)
(* the same as having fixed some order beforehand.  The result channel has *)
(* room for every job, so a send never blocks; it is a set as well, since  *)
(* the order in which the collector counts the results is not observable.  *)
(*                                                                         *)
(* An operator introduced as "Mutant:" is a plausible wrong version of the *)
(* definition after it.  No action uses it; a property must notice it.     *)
(***************************************************************************)
EXTENDS Integers, FiniteSets

CONSTANTS
  Tickers,       \* every symbol a run may meet
  Benchmarks,    \* models.Benchmarks and models.SectorETFs: IsCriticalTicker
  Screened,      \* symbols a TradingView screener may return
  Workers,       \* cfg.WorkerCount goroutines
  MaxRetries,    \* maxRetries of ingestWithRetry
  Today,         \* cfg.TargetDate, as a day number
  LookbackDays,  \* lookbackDays: the window of a ticker with no candle
  StoredLatest,  \* the latest stored dates, by ticker, a run may start from
  NoCandle,      \* no row in candles_daily for the ticker
  NoJob          \* a worker that holds no job

ASSUME TickersAssumption   == /\ IsFiniteSet(Tickers)
                              /\ Benchmarks \subseteq Tickers
                              /\ Screened \subseteq Tickers
ASSUME WorkersAssumption   == IsFiniteSet(Workers) /\ Workers # {}
ASSUME RetriesAssumption   == MaxRetries \in Nat \ {0}
ASSUME DatesAssumption     == /\ Today \in Nat
                              /\ LookbackDays \in Nat
                              /\ NoCandle \notin Int
                              /\ StoredLatest \subseteq [Tickers -> Int \union {NoCandle}]
ASSUME NoJobAssumption     == NoJob \notin Tickers

VARIABLES
  dbTickers,    \* tickerRepo.ListAll: the symbols of the tickers table
  tvTickers,    \* cfg.TVPriorityTickers: today's TradingView screener output
  latest,       \* latest[t]: newest candle of t in candles_daily
  handle,       \* what StartCandleIngestionAsync returned: "none" yet, "live", "error"
  cancelled,    \* ctx is done (SIGTERM, or the pipeline's timeout)
  critJobs,     \* criticalJobs, as built
  normJobs,     \* normalJobs, as built
  critQ,        \* what criticalCh still holds
  normQ,        \* what normalCh still holds
  loop,         \* loop[w]: the range loop worker w is in
  job,          \* job[w]: the job worker w processes
  attempt,      \* attempt[w]: the attempt ingestWithRetry is at
  sleeping,     \* sleeping[w]: w waits out the backoff between attempts
  failed,       \* jobs whose result carries an error
  resultCh,     \* results sent and not yet received
  resultClosed, \* resultCh has been closed
  dropped,      \* jobs received by a worker that returned on ctx.Done
  collector,    \* where the collector goroutine is
  collected,    \* jobs whose result the collector has received
  pendingCritical, priorityClosed,   \* the collector's locals
  criticalErrs, normalErrs,          \* the handle's error lists
  priorityDone, allDone,             \* the handle's channels, TRUE: closed
  panicked,                          \* a close or send on a closed channel
  priorityWait, allWait              \* callers of the two Wait methods

inputs      == <<dbTickers, tvTickers>>
jobs        == <<critJobs, normJobs>>
workerVars  == <<critQ, normQ, loop, job, attempt, sleeping, failed, dropped>>
handleVars  == <<criticalErrs, normalErrs, priorityDone, allDone>>
collectVars == <<collector, collected, pendingCritical, priorityClosed>>
waitVars    == <<priorityWait, allWait>>
vars == <<inputs, latest, handle, cancelled, jobs, workerVars, resultCh,
          resultClosed, collectVars, handleVars, panicked, waitVars>>

Dates == Int \union {NoCandle}

-----------------------------------------------------------------------------
(* Building the queues *)

\* buildSymbolList: the tickers table merged with the hard-coded lists.
Symbols == dbTickers \union Benchmarks

\* computeFromDate: the first day of the fetch window.
FromDate(t) == IF latest[t] = NoCandle THEN Today - LookbackDays ELSE latest[t] + 1

\* Mutant: the guard an older computeFromDate had, !from.Before(today).
UpToDateOffByOne(t) == FromDate(t) >= Today

UpToDate(t) == FromDate(t) > Today

\* Steps 3 and 3b: a TradingView ticker becomes CRITICAL only if neither queue
\* has it already.
NormalJobs == {t \in Symbols \ Benchmarks : ~UpToDate(t)}

CriticalJobs ==
  LET listed == {t \in Benchmarks : ~UpToDate(t)}
  IN  listed \union {t \in tvTickers \ (listed \union NormalJobs) : ~UpToDate(t)}

Init ==
  /\ latest \in StoredLatest
  /\ dbTickers \in {T \in SUBSET Tickers : \A t \in Tickers : latest[t] # NoCandle => t \in T}
  /\ tvTickers \in SUBSET Screened
  /\ handle = "none"
  /\ cancelled = FALSE
  /\ critJobs = {} /\ normJobs = {}
  /\ critQ = {} /\ normQ = {}
  /\ loop = [w \in Workers |-> "done"]
  /\ job = [w \in Workers |-> NoJob]
  /\ attempt = [w \in Workers |-> 0]
  /\ sleeping = [w \in Workers |-> FALSE]
  /\ failed = {} /\ dropped = {}
  /\ resultCh = {} /\ resultClosed = FALSE
  /\ collector = "idle"
  /\ collected = {}
  /\ pendingCritical = 0
  /\ priorityClosed = FALSE
  /\ criticalErrs = {} /\ normalErrs = {}
  /\ priorityDone = FALSE /\ allDone = FALSE
  /\ panicked = FALSE
  /\ priorityWait = "none" /\ allWait = "none"

\* StartCandleIngestionAsync, from the symbol list to the launch of the
\* goroutines.  With no job at all it closes both channels and starts none.
Start ==
  /\ handle = "none"
  /\ handle' = "live"
  /\ critJobs' = CriticalJobs /\ normJobs' = NormalJobs
  /\ critQ' = CriticalJobs /\ normQ' = NormalJobs
  /\ IF CriticalJobs \union NormalJobs = {}
     THEN /\ priorityDone' = TRUE /\ allDone' = TRUE
          /\ UNCHANGED <<loop, collector>>
     ELSE /\ loop' = [w \in Workers |-> "critical"]
          /\ collector' = "init"
          /\ UNCHANGED <<priorityDone, allDone>>
  /\ UNCHANGED <<inputs, latest, cancelled, job, attempt, sleeping, failed,
                 dropped, resultCh, resultClosed, collected, pendingCritical,
                 priorityClosed, criticalErrs, normalErrs, panicked, waitVars>>

\* Listing the tickers or loading their latest dates fails: no handle.
StartFails ==
  /\ handle = "none"
  /\ handle' = "error"
  /\ UNCHANGED <<inputs, latest, cancelled, jobs, workerVars, resultCh, resultClosed,
                 collectVars, handleVars, panicked, waitVars>>

\* SIGTERM, an interrupt or the pipeline's timeout cancels the shared context.
Cancel ==
  /\ ~cancelled
  /\ cancelled' = TRUE
  /\ UNCHANGED <<inputs, latest, handle, jobs, workerVars, resultCh,
                 resultClosed, collectVars, handleVars, panicked, waitVars>>

-----------------------------------------------------------------------------
(* A worker: runPriorityWorker around ingestWithRetry *)

Idle(w) == job[w] = NoJob
Ingesting(w) == job[w] # NoJob /\ ~sleeping[w]

\* The body of both range loops up to processJob: a worker that finds ctx done
\* returns, and the job it has just received is lost.  No other goroutine can
\* tell the receive from the check that follows it, so they are one step.
Admit(w, t) ==
  IF cancelled
  THEN /\ loop' = [loop EXCEPT ![w] = "done"]
       /\ dropped' = dropped \union {t}
       /\ UNCHANGED <<job, attempt>>
  ELSE /\ job' = [job EXCEPT ![w] = t]
       /\ attempt' = [attempt EXCEPT ![w] = 1]
       /\ UNCHANGED <<loop, dropped>>

\* for job := range criticalCh
ReceiveCritical(w) ==
  /\ loop[w] = "critical" /\ Idle(w)
  /\ \E t \in critQ : critQ' = critQ \ {t} /\ Admit(w, t)
  /\ UNCHANGED <<inputs, latest, handle, cancelled, jobs, normQ, sleeping, failed,
                 resultCh, resultClosed, collectVars, handleVars, panicked, waitVars>>

\* for job := range normalCh
ReceiveNormal(w) ==
  /\ loop[w] = "normal" /\ Idle(w)
  /\ \E t \in normQ : normQ' = normQ \ {t} /\ Admit(w, t)
  /\ UNCHANGED <<inputs, latest, handle, cancelled, jobs, critQ, sleeping, failed,
                 resultCh, resultClosed, collectVars, handleVars, panicked, waitVars>>

\* A range loop ends when its closed channel is empty.
LoopEnds(w) ==
  /\ Idle(w)
  /\ \/ loop[w] = "critical" /\ critQ = {} /\ loop' = [loop EXCEPT ![w] = "normal"]
     \/ loop[w] = "normal" /\ normQ = {} /\ loop' = [loop EXCEPT ![w] = "done"]
  /\ UNCHANGED <<inputs, latest, handle, cancelled, jobs, critQ, normQ, job,
                 attempt, sleeping, failed, dropped, resultCh, resultClosed,
                 collectVars, handleVars, panicked, waitVars>>

\* What candles_daily may hold after FetchDailyCandles and UpsertBatch: nothing
\* new (an empty answer is no error), or candles up to some day of the window.
Fetched(t) == {latest[t]} \union FromDate(t) .. Today

\* results <- tickerResult{...}, and the worker is free again.
SendResult(w) ==
  /\ resultCh' = resultCh \union {job[w]}
  /\ panicked' = (panicked \/ resultClosed)
  /\ job' = [job EXCEPT ![w] = NoJob]
  /\ attempt' = [attempt EXCEPT ![w] = 0]
  /\ sleeping' = [sleeping EXCEPT ![w] = FALSE]

\* EnsureExists, which satisfies the foreign key, then the fetch and the write.
IngestSucceeds(w) ==
  /\ Ingesting(w)
  /\ dbTickers' = dbTickers \union {job[w]}
  /\ \E d \in Fetched(job[w]) : latest' = [latest EXCEPT ![job[w]] = d]
  /\ SendResult(w)
  /\ UNCHANGED <<tvTickers, handle, cancelled, jobs, critQ, normQ, loop, failed,
                 dropped, resultClosed, collectVars, handleVars, waitVars>>

\* Mutant: one retry too many.
IngestFailsOneMore(w) ==
  /\ Ingesting(w)
  /\ dbTickers' \in {dbTickers, dbTickers \union {job[w]}}
  /\ IF attempt[w] <= MaxRetries
     THEN /\ sleeping' = [sleeping EXCEPT ![w] = TRUE]
          /\ UNCHANGED <<job, attempt, failed, resultCh, panicked>>
     ELSE /\ failed' = failed \union {job[w]}
          /\ SendResult(w)
  /\ UNCHANGED <<tvTickers, latest, handle, cancelled, jobs, critQ, normQ, loop, dropped,
                 resultClosed, collectVars, handleVars, waitVars>>

\* The attempt fails, before or after EnsureExists has committed its row; at the
\* last attempt the job fails for good.  UpsertBatch is one transaction and
\* stores nothing.
IngestFails(w) ==
  /\ Ingesting(w)
  /\ dbTickers' \in {dbTickers, dbTickers \union {job[w]}}
  /\ IF attempt[w] < MaxRetries
     THEN /\ sleeping' = [sleeping EXCEPT ![w] = TRUE]
          /\ UNCHANGED <<job, attempt, failed, resultCh, panicked>>
     ELSE /\ failed' = failed \union {job[w]}
          /\ SendResult(w)
  /\ UNCHANGED <<tvTickers, latest, handle, cancelled, jobs, critQ, normQ, loop, dropped,
                 resultClosed, collectVars, handleVars, waitVars>>

\* The backoff between two attempts: time.After(wait) ...
BackoffElapses(w) ==
  /\ sleeping[w]
  /\ sleeping' = [sleeping EXCEPT ![w] = FALSE]
  /\ attempt' = [attempt EXCEPT ![w] = @ + 1]
  /\ UNCHANGED <<inputs, latest, handle, cancelled, jobs, critQ, normQ, loop, job,
                 failed, dropped, resultCh, resultClosed, collectVars, handleVars,
                 panicked, waitVars>>

\* Mutant: forgets to report the job it gives up on.
BackoffCancelledSilently(w) ==
  /\ sleeping[w] /\ cancelled
  /\ job' = [job EXCEPT ![w] = NoJob]
  /\ attempt' = [attempt EXCEPT ![w] = 0]
  /\ sleeping' = [sleeping EXCEPT ![w] = FALSE]
  /\ UNCHANGED <<inputs, latest, handle, cancelled, jobs, critQ, normQ, loop,
                 failed, dropped, resultCh, panicked, resultClosed, collectVars,
                 handleVars, waitVars>>

\* ... or ctx.Done, which gives the job up with ctx's error.
BackoffCancelled(w) ==
  /\ sleeping[w] /\ cancelled
  /\ failed' = failed \union {job[w]}
  /\ SendResult(w)
  /\ UNCHANGED <<inputs, latest, handle, cancelled, jobs, critQ, normQ, loop,
                 dropped, resultClosed, collectVars, handleVars, waitVars>>

WorkerStep(w) ==
  \/ ReceiveCritical(w)
  \/ ReceiveNormal(w)
  \/ LoopEnds(w)
  \/ IngestSucceeds(w)
  \/ IngestFails(w)
  \/ BackoffElapses(w)
  \/ BackoffCancelled(w)

-----------------------------------------------------------------------------
(* The closer and the collector goroutines *)

\* Mutant: the last job has been received, not processed.
AllQueuesReceived == critQ = {} /\ normQ = {}

\* wg.Wait: every worker has returned.
WorkersReturned == \A w \in Workers : loop[w] = "done"

\* wg.Wait(); close(resultCh)
CloseResults ==
  /\ handle = "live" /\ collector # "idle" /\ ~resultClosed
  /\ WorkersReturned
  /\ resultClosed' = TRUE
  /\ UNCHANGED <<inputs, latest, handle, cancelled, jobs, workerVars, resultCh,
                 collectVars, handleVars, panicked, waitVars>>

\* close(priorityDoneCh): a second close panics.
ClosePriority ==
  /\ priorityDone' = TRUE
  /\ panicked' = (panicked \/ priorityDone)

\* The collector's locals; with no CRITICAL job it signals at once.
CollectorStarts ==
  /\ collector = "init"
  /\ collector' = "collect"
  /\ pendingCritical' = Cardinality(critJobs)
  /\ priorityClosed' = (critJobs = {})
  /\ IF critJobs = {} THEN ClosePriority ELSE UNCHANGED <<priorityDone, panicked>>
  /\ UNCHANGED <<inputs, latest, handle, cancelled, jobs, workerVars, resultCh,
                 resultClosed, collected, criticalErrs, normalErrs, allDone, waitVars>>

\* Mutant: signals one result too early.
CollectCriticalEarly(t) ==
  /\ pendingCritical' = pendingCritical - 1
  /\ criticalErrs' = IF t \in failed THEN criticalErrs \union {t} ELSE criticalErrs
  /\ IF pendingCritical' <= 1 /\ ~priorityClosed
     THEN priorityClosed' = TRUE /\ ClosePriority
     ELSE UNCHANGED <<priorityClosed, priorityDone, panicked>>
  /\ UNCHANGED normalErrs

\* The result of a CRITICAL job: record its error, then signal if it is the last.
CollectCritical(t) ==
  /\ pendingCritical' = pendingCritical - 1
  /\ criticalErrs' = IF t \in failed THEN criticalErrs \union {t} ELSE criticalErrs
  /\ IF pendingCritical' = 0 /\ ~priorityClosed
     THEN priorityClosed' = TRUE /\ ClosePriority
     ELSE UNCHANGED <<priorityClosed, priorityDone, panicked>>
  /\ UNCHANGED normalErrs

\* Mutant: every result counts against the CRITICAL ones.
CollectNormalCounted(t) ==
  /\ normalErrs' = IF t \in failed THEN normalErrs \union {t} ELSE normalErrs
  /\ pendingCritical' = pendingCritical - 1
  /\ UNCHANGED <<priorityClosed, criticalErrs, priorityDone, panicked>>

\* The result of a NORMAL job.
CollectNormal(t) ==
  /\ normalErrs' = IF t \in failed THEN normalErrs \union {t} ELSE normalErrs
  /\ UNCHANGED <<pendingCritical, priorityClosed, criticalErrs, priorityDone, panicked>>

\* for r := range resultCh
Collect ==
  /\ collector = "collect"
  /\ \E t \in resultCh :
       /\ resultCh' = resultCh \ {t}
       /\ collected' = collected \union {t}
       /\ IF t \in critJobs THEN CollectCritical(t) ELSE CollectNormal(t)
  /\ UNCHANGED <<inputs, latest, handle, cancelled, jobs, workerVars, resultClosed,
                 collector, allDone, waitVars>>

\* Mutant: closes priorityDone without a look at priorityClosed.
CollectorEndsUnguarded ==
  /\ collector = "collect" /\ resultClosed /\ resultCh = {}
  /\ collector' = "done"
  /\ ClosePriority
  /\ allDone' = TRUE
  /\ UNCHANGED <<inputs, latest, handle, cancelled, jobs, workerVars, resultCh,
                 resultClosed, collected, pendingCritical, priorityClosed,
                 criticalErrs, normalErrs, waitVars>>

\* Mutant: no safety net.
CollectorEndsNoSafetyNet ==
  /\ collector = "collect" /\ resultClosed /\ resultCh = {}
  /\ collector' = "done"
  /\ allDone' = TRUE
  /\ UNCHANGED <<inputs, latest, handle, cancelled, jobs, workerVars, resultCh,
                 resultClosed, collected, pendingCritical, priorityClosed,
                 criticalErrs, normalErrs, priorityDone, panicked, waitVars>>

\* resultCh is closed and drained: the safety net, then allDone.
CollectorEnds ==
  /\ collector = "collect" /\ resultClosed /\ resultCh = {}
  /\ collector' = "done"
  /\ IF priorityClosed THEN UNCHANGED <<priorityDone, panicked>> ELSE ClosePriority
  /\ allDone' = TRUE
  /\ UNCHANGED <<inputs, latest, handle, cancelled, jobs, workerVars, resultCh,
                 resultClosed, collected, pendingCritical, priorityClosed,
                 criticalErrs, normalErrs, waitVars>>

-----------------------------------------------------------------------------
(* The callers of the handle *)

\* WaitForPriorityIngestion: select over priorityDone and ctx.Done.  When both
\* are ready the runtime picks either case.
WaitForPriorityIngestion ==
  /\ handle = "live" /\ priorityWait = "none"
  /\ \/ /\ priorityDone
        /\ priorityWait' = IF criticalErrs = {} THEN "nil" ELSE "failure"
     \/ /\ cancelled
        /\ priorityWait' = "ctxErr"
  /\ UNCHANGED <<inputs, latest, handle, cancelled, jobs, workerVars, resultCh,
                 resultClosed, collectVars, handleVars, panicked, allWait>>

\* Wait: the same over allDone, with the NORMAL errors.
Wait ==
  /\ handle = "live" /\ allWait = "none"
  /\ \/ /\ allDone
        /\ allWait' = IF normalErrs = {} THEN "nil" ELSE "failure"
     \/ /\ cancelled
        /\ allWait' = "ctxErr"
  /\ UNCHANGED <<inputs, latest, handle, cancelled, jobs, workerVars, resultCh,
                 resultClosed, collectVars, handleVars, panicked, priorityWait>>

\* The run is over: every goroutine has returned and so has every caller.
Finished ==
  /\ \/ handle = "error"
     \/ allDone /\ priorityWait # "none" /\ allWait # "none"
  /\ UNCHANGED vars

Next ==
  \/ Start
  \/ StartFails
  \/ Cancel
  \/ \E w \in Workers : WorkerStep(w)
  \/ CloseResults
  \/ CollectorStarts
  \/ Collect
  \/ CollectorEnds
  \/ WaitForPriorityIngestion
  \/ Wait
  \/ Finished

\* Goroutines that can run are eventually scheduled; every provider and
\* database call ends (HTTP client timeout, context).  Nothing forces a cancel.
Fairness ==
  /\ WF_vars(Start \/ StartFails)
  /\ \A w \in Workers : WF_vars(WorkerStep(w))
  /\ WF_vars(CloseResults)
  /\ WF_vars(CollectorStarts)
  /\ WF_vars(Collect)
  /\ WF_vars(CollectorEnds)
  /\ WF_vars(WaitForPriorityIngestion)
  /\ WF_vars(Wait)

Spec == Init /\ [][Next]_vars /\ Fairness

-----------------------------------------------------------------------------
(* Properties *)

AllJobs == critJobs \union normJobs
Held == {job[w] : w \in Workers} \ {NoJob}

TypeOK ==
  /\ dbTickers \subseteq Tickers /\ tvTickers \subseteq Tickers
  /\ latest \in [Tickers -> Dates]
  /\ handle \in {"none", "live", "error"} /\ cancelled \in BOOLEAN
  /\ critJobs \subseteq Tickers /\ normJobs \subseteq Tickers
  /\ critQ \subseteq critJobs /\ normQ \subseteq normJobs
  /\ loop \in [Workers -> {"critical", "normal", "done"}]
  /\ job \in [Workers -> Tickers \union {NoJob}]
  /\ attempt \in [Workers -> 0 .. MaxRetries]
  /\ sleeping \in [Workers -> BOOLEAN]
  /\ failed \subseteq Tickers /\ dropped \subseteq Tickers
  /\ resultCh \subseteq Tickers /\ resultClosed \in BOOLEAN
  /\ collector \in {"idle", "init", "collect", "done"}
  /\ collected \subseteq Tickers
  /\ pendingCritical \in Int /\ priorityClosed \in BOOLEAN
  /\ criticalErrs \subseteq Tickers /\ normalErrs \subseteq Tickers
  /\ priorityDone \in BOOLEAN /\ allDone \in BOOLEAN
  /\ panicked \in BOOLEAN
  /\ priorityWait \in {"none", "nil", "failure", "ctxErr"}
  /\ allWait \in {"none", "nil", "failure", "ctxErr"}

\* A job is in exactly one place: still queued, held by one worker, reported and
\* not yet counted, counted, or dropped by a worker that saw the cancellation.
\* Two workers never fetch the same ticker and no result is lost or counted
\* twice; the collector's counter depends on it.
JobConservation ==
  /\ AllJobs = critQ \union normQ \union Held \union resultCh \union collected \union dropped
  /\ \A w1, w2 \in Workers : job[w1] = job[w2] /\ job[w1] # NoJob => w1 = w2
  /\ (critQ \union normQ) \intersect (Held \union resultCh \union collected \union dropped) = {}
  /\ Held \intersect (resultCh \union collected \union dropped) = {}
  /\ resultCh \intersect (collected \union dropped) = {}
  /\ collected \intersect dropped = {}

\* No goroutine sends on or closes a closed channel, which would end the process.
NoPanic == ~panicked

\* Unless the context was cancelled, a closed priorityDone means that every
\* CRITICAL job was processed and that every failure is on the handle's list:
\* what lets the regime steps run on fresh benchmark candles.
PriorityGate ==
  priorityDone /\ ~cancelled => /\ critJobs \subseteq collected
                               /\ criticalErrs = critJobs \intersect failed

\* A caller told that priority ingestion went well, in a run that was never
\* cancelled, finds every benchmark already up to date or fetched without an
\* error: computeFromDate leaves out none that lags by a day.
BenchmarksCovered ==
  priorityWait = "nil" /\ ~cancelled =>
    \A t \in Benchmarks : \/ t \in collected \ failed
                         \/ (latest[t] # NoCandle /\ latest[t] >= Today)

\* allDone is closed last: priorityDone is closed, no worker is left that could
\* write a candle, and without a cancellation every job was processed.
AllDoneIsFinal ==
  allDone => /\ priorityDone
             /\ \A w \in Workers : loop[w] = "done"
             /\ ~cancelled => collected = AllJobs

\* The error lists are complete before the channel that publishes them closes:
\* what a Wait call has read cannot change afterwards.
ErrorsFrozen == [][/\ priorityDone => criticalErrs' = criticalErrs
                   /\ allDone => normalErrs' = normalErrs]_vars

\* No NORMAL job is received while a CRITICAL one is still queued.
CriticalFirst == [][normQ' # normQ /\ handle = "live" => critQ = {}]_vars

\* A run that starts ends: both channels are closed and both callers return,
\* whether or not the context is cancelled on the way.
RunEnds == handle = "live" ~> priorityDone /\ allDone /\ priorityWait # "none" /\ allWait # "none"

-----------------------------------------------------------------------------
(* The inductive invariant behind the safety properties *)

\* Where the collector is, and what that says about the channels.
CollectorInv ==
  /\ handle # "live" => collector = "idle" /\ ~priorityDone /\ ~allDone
  /\ collector = "idle" => AllJobs = {} /\ ~resultClosed /\ (priorityDone <=> allDone)
  /\ collector = "init" => ~priorityDone /\ ~allDone /\ collected = {}
  /\ collector = "collect" =>
       /\ ~allDone
       /\ priorityDone = priorityClosed
       /\ priorityClosed <=> critJobs \subseteq collected
       /\ pendingCritical = Cardinality(critJobs \ collected)
  /\ collector = "done" => priorityDone /\ allDone /\ resultClosed /\ resultCh = {}

\* Which loop a worker is in, and what that says about the queues.
WorkersInv ==
  /\ resultClosed \/ collector = "idle" => \A w \in Workers : loop[w] = "done"
  /\ \A w \in Workers : /\ job[w] # NoJob => loop[w] # "done"
                        /\ loop[w] = "normal" => critQ = {}
                        /\ loop[w] = "done" /\ ~cancelled => critQ = {} /\ normQ = {}
  /\ dropped # {} => cancelled

\* The error lists hold exactly the failures counted so far.
ErrorsInv ==
  /\ critJobs \intersect normJobs = {}
  /\ failed \subseteq resultCh \union collected
  /\ criticalErrs = critJobs \intersect collected \intersect failed
  /\ normalErrs = normJobs \intersect collected \intersect failed

IInv == JobConservation /\ CollectorInv /\ WorkersInv /\ ErrorsInv /\ NoPanic

-----------------------------------------------------------------------------
(* Refinement, and what the comments say *)

\* The handle behaves like the barrier: whatever the workers do, jobs are
\* accounted for once each, the gate opens with the last CRITICAL one, and only
\* a cancellation opens it or ends the run before that.
Barrier == INSTANCE IngestionBarrier WITH
  begun <- handle = "live", critical <- critJobs, all <- AllJobs,
  accounted <- collected, failures <- criticalErrs \union normalErrs,
  gate <- priorityDone, finished <- allDone, caller <- priorityWait

ImplementsBarrier == Barrier!Spec

\* What the comments on TVPriorityTickers say: today's screener tickers are
\* ingested at CRITICAL priority, so they have been processed when the
\* priority wait of an uncancelled run succeeds.
ScreenerTickersAreCritical ==
  priorityWait = "nil" /\ ~cancelled =>
    \A t \in tvTickers : t \in collected \/ (latest[t] # NoCandle /\ latest[t] >= Today)

=============================================================================
