------------------------- MODULE TradeOutcomesProofs -------------------------
(***************************************************************************)
(* What holds of the outcome rows for any tickers, lists, windows and      *)
(* number of days, whatever goes wrong: their types, that no row is        *)
(* dropped without a reason, that a settled date stays settled, and that a *)
(* run for today never leaves a row with less.  Without runs for earlier   *)
(* dates, net returns rest on gross returns.  If the reads are answered    *)
(* and no result is refused besides, a run that ends leaves nothing behind *)
(* and no ticker is primary twice on a day.                                *)
(***************************************************************************)
EXTENDS TradeOutcomes, OrderLemmas

USE NumbersAssumption DEF NumbersAssumption

-----------------------------------------------------------------------------
(* Operators *)

\* A result rests on one candle or more, and on no more than the horizon.
LEMMA TrackingBounds ==
  ASSUME latest \in [Tickers -> 0 .. MaxDay], NEW s \in Signals, NEW c \in 0 .. MaxDay
  PROVE  /\ Tracking(s, c) \in 0 .. Horizon
         /\ Tracking(s, c) > 0 => s.day + Tracking(s, c) <= c
         /\ Tracking(s, c) > 0 => s.day + Tracking(s, c) <= latest[s.ticker]
<1>1. latest[s.ticker] \in 0 .. MaxDay /\ s.day \in 1 .. MaxDay
  BY DEF Signals, Days
<1> QED
  BY <1>1 DEF Tracking, Lesser

\* A query that fails leaves nothing or all of a set.
LEMMA PartSubset == \A d, S : \A P \in Part(d, S) : P \subseteq S
  BY DEF Part

\* What the results of one date are.
LEMMA NewResults ==
  ASSUME TypeOK, NEW d \in Days, ComputeOutcomes(d)
  PROVE  /\ \A r \in results' : /\ r \in [signal : Signals, days : 1 .. Horizon, plausible : BOOLEAN]
                                /\ r.signal \in listed /\ r.signal.day = d
                                /\ r.days = Tracking(r.signal, runDate)
         /\ \A q, r \in results' : q.signal = r.signal => q = r
<1> DEFINE evaluable == {s \in listed : s.day = d /\ Tracking(s, runDate) > 0}
<1>1. PICK read \in Part("fetch", evaluable), bad \in SUBSET evaluable :
        results' = Results(read, bad)
  BY DEF ComputeOutcomes
<1>2. \A s \in read : s \in listed /\ s.day = d /\ Tracking(s, runDate) > 0
  BY PartSubset
<1>3. \A s \in read : s \in Signals /\ Tracking(s, runDate) \in 1 .. Horizon
  BY <1>2, TrackingBounds DEF TypeOK
<1>4. \A r \in results' : \E s \in read :
        r = [signal |-> s, days |-> Tracking(s, runDate), plausible |-> s \notin bad]
  BY <1>1 DEF Results
<1>5. \A r \in results' : r.signal \in read /\ r.days = Tracking(r.signal, runDate)
  BY <1>4
<1>6. \A r \in results' : r \in [signal : Signals, days : 1 .. Horizon, plausible : BOOLEAN]
  <2> SUFFICES ASSUME NEW r \in results'
               PROVE  r \in [signal : Signals, days : 1 .. Horizon, plausible : BOOLEAN]
    OBVIOUS
  <2>1. PICK s \in read :
          r = [signal |-> s, days |-> Tracking(s, runDate), plausible |-> s \notin bad]
    BY <1>4
  <2>2. s \in Signals /\ Tracking(s, runDate) \in 1 .. Horizon /\ (s \notin bad) \in BOOLEAN
    BY <1>3
  <2> QED
    BY <2>1, <2>2, Zenon
<1>7. \A q, r \in results' : q.signal = r.signal => q = r
  BY <1>4
<1>8. \A r \in results' : r.signal \in listed /\ r.signal.day = d
  BY <1>2, <1>5
<1> QED
  BY <1>5, <1>6, <1>7, <1>8

-----------------------------------------------------------------------------
(* Types *)

LEMMA TypeInvariant == TypeOK /\ [Next]_vars => TypeOK'
<1> SUFFICES ASSUME TypeOK, [Next]_vars PROVE TypeOK'
  OBVIOUS
<1>1. CASE NextDay
  BY <1>1 DEF NextDay, rows, job, TypeOK
<1>1a. ASSUME NEW d \in Days, RankAgain(d) PROVE TypeOK'
  BY <1>1a DEF RankAgain, rows, job, TypeOK
<1>2. ASSUME NEW t \in Tickers, Ingest(t) PROVE TypeOK'
  BY <1>2 DEF Ingest, rows, job, TypeOK
<1>3. ASSUME NEW date \in RunDates, RunTradeOutcomeJob(date) PROVE TypeOK'
  <2>1. date \in 0 .. MaxDay
    BY DEF RunDates, TypeOK
  <2> QED
    BY <1>3, <2>1 DEF RunTradeOutcomeJob, Pending, rows, TypeOK
<1>4. ASSUME NEW d \in Days, ComputeOutcomes(d) PROVE TypeOK'
  <2>1. results' \subseteq [signal : Signals, days : 1 .. Horizon, plausible : BOOLEAN]
    BY <1>4, NewResults
  <2> QED
    BY <1>4, <2>1 DEF ComputeOutcomes, rows, TypeOK
<1>5. ASSUME NEW r \in results, Refuse(r) PROVE TypeOK'
  BY <1>5 DEF Refuse, MarkCrossListDuplicate, TypeOK
<1>6. ASSUME NEW r \in results, UpsertTradeOutcome(r) PROVE TypeOK'
  BY <1>6 DEF UpsertTradeOutcome, TypeOK
<1>7. ASSUME NEW r \in results, UpsertFails(r) PROVE TypeOK'
  BY <1>7 DEF UpsertFails, MarkCrossListDuplicate, Leave, TypeOK
<1>8. CASE FlagDuplicates
  <2>1. duplicate' \subseteq Signals
    BY <1>8, PartSubset DEF FlagDuplicates, DuplicateSignals, Stored, TypeOK
  <2> QED
    BY <1>8, <2>1 DEF FlagDuplicates, Leave, TypeOK
<1>9. CASE Stop
  BY <1>9 DEF Stop, Leave, rows, TypeOK
<1>10. CASE RunNetReturnJob
  BY <1>10 DEF RunNetReturnJob, job, TypeOK
<1>11. CASE Over \/ UNCHANGED vars
  BY <1>11 DEF Over, vars, rows, job, TypeOK
<1>12. CASE JobStep
  BY <1>12, <1>4, <1>5, <1>6, <1>7, <1>8 DEF JobStep
<1> QED
  BY <1>1, <1>2, <1>3, <1>9, <1>10, <1>11, <1>12, <1>1a DEF Next

LEMMA TypeInit == Init => TypeOK
<1> SUFFICES ASSUME Init PROVE TypeOK
  OBVIOUS
<1>1. 0 \in 0 .. MaxDay /\ 0 \in 0 .. Horizon
  OBVIOUS
<1>2. latest \in [Tickers -> 0 .. MaxDay]
  BY <1>1 DEF Init
<1>3. evaluated \in [Signals -> 0 .. Horizon] /\ net \in [Signals -> 0 .. Horizon]
  BY <1>1 DEF Init
<1> QED
  BY <1>1, <1>2, <1>3 DEF Init, TypeOK

\* Every column has its type, for every value of the constants.
THEOREM TypeCorrect == Spec => []TypeOK
BY TypeInit, TypeInvariant, PTL DEF Spec

-----------------------------------------------------------------------------
(* No row is dropped without a reason *)

\* Reasons are about stored rows, and rows are never deleted.
LEMMA ReasonsStay ==
  ASSUME TypeOK, TypeOK', Stored \subseteq Stored', NEW s \in Signals
  PROVE  (HasTwin(s) => HasTwin(s)') /\ (Prior(s) => Prior(s)')
BY DEF HasTwin, Prior

\* What the checks tell of a row is so.
LEMMA VerdictsTrue ==
  ASSUME NEW s \in Signals, NEW v \in Verdicts(s)
  PROVE  /\ v \in {"primary", "crossList", "repeated"}
         /\ v = "repeated" => Prior(s)
         /\ v = "crossList" => HasTwin(s)
BY DEF Verdicts, CrossList, HasTwin

\* Steps that change neither the flags nor which rows there are.
LEMMA FlagsUntouched ==
  ASSUME TypeOK, TypeOK', DroppedForAReason, UNCHANGED <<primary, crossDup, evaluated>>
  PROVE  DroppedForAReason'
BY DEF DroppedForAReason, HasTwin, Prior, Stored

\* A flag that is marked without an upsert.
LEMMA MarkKeepsReasons ==
  ASSUME TypeOK, TypeOK', DroppedForAReason, UNCHANGED evaluated,
         NEW s \in Signals, NEW v \in Verdicts(s), MarkCrossListDuplicate(s, v)
  PROVE  DroppedForAReason'
<1>1. CASE v = "crossList" /\ s \in Stored
  <2>1. crossDup' = crossDup \union {s} /\ primary' = primary \ {s}
    BY <1>1 DEF MarkCrossListDuplicate
  <2>2. HasTwin(s)
    BY <1>1, VerdictsTrue
  <2> QED
    BY <2>1, <2>2 DEF DroppedForAReason, HasTwin, Prior, Stored
<1>2. CASE ~(v = "crossList" /\ s \in Stored)
  BY <1>2, FlagsUntouched DEF MarkCrossListDuplicate
<1> QED
  BY <1>1, <1>2

LEMMA UpsertKeepsReasons ==
  ASSUME TypeOK, TypeOK', DroppedForAReason, NEW r \in results, UpsertTradeOutcome(r)
  PROVE  DroppedForAReason'
<1> DEFINE s == r.signal
<1>1. s \in Signals /\ r.days \in 1 .. Horizon
  BY DEF TypeOK
<1>2. evaluated' = [evaluated EXCEPT ![s] = r.days]
  BY DEF UpsertTradeOutcome
<1>3. Stored' = Stored \union {s}
  BY <1>1, <1>2 DEF Stored, TypeOK
<1>4. PICK v \in Verdicts(s) :
        /\ primary' = IF v = "primary" THEN primary \union {s} ELSE primary \ {s}
        /\ crossDup' = IF v = "crossList" THEN crossDup \union {s} ELSE crossDup \ {s}
  BY DEF UpsertTradeOutcome
<1>5. \A q \in Signals : (HasTwin(q) => HasTwin(q)') /\ (Prior(q) => Prior(q)')
  BY <1>3, ReasonsStay
<1>6. primary' \intersect crossDup' = {}
  BY <1>4 DEF DroppedForAReason
<1>7. ASSUME NEW q \in Stored' \ primary'
      PROVE  IF q \in crossDup' THEN HasTwin(q)' ELSE Prior(q)'
  <2>1. q \in Signals
    BY DEF Stored
  <2>2. CASE q = s
    BY <1>1, <1>4, <1>5, <2>2, VerdictsTrue
  <2>3. CASE q # s
    <3>1. q \in Stored \ primary /\ (q \in crossDup' <=> q \in crossDup)
      BY <1>3, <1>4, <2>3
    <3> QED
      BY <1>5, <2>1, <3>1 DEF DroppedForAReason
  <2> QED
    BY <2>2, <2>3
<1> QED
  BY <1>6, <1>7 DEF DroppedForAReason

LEMMA ReasonInvariant == TypeOK /\ DroppedForAReason /\ [Next]_vars => DroppedForAReason'
<1> SUFFICES ASSUME TypeOK, DroppedForAReason, [Next]_vars PROVE DroppedForAReason'
  OBVIOUS
<1>0. TypeOK'
  BY TypeInvariant
<1>1. CASE NextDay
  BY <1>0, <1>1, FlagsUntouched DEF NextDay, rows
<1>1a. ASSUME NEW d \in Days, RankAgain(d) PROVE DroppedForAReason'
  BY <1>0, <1>1a, FlagsUntouched DEF RankAgain, rows
<1>2. ASSUME NEW t \in Tickers, Ingest(t) PROVE DroppedForAReason'
  BY <1>0, <1>2, FlagsUntouched DEF Ingest, rows
<1>3. ASSUME NEW date \in RunDates, RunTradeOutcomeJob(date) PROVE DroppedForAReason'
  BY <1>0, <1>3, FlagsUntouched DEF RunTradeOutcomeJob, rows
<1>4. ASSUME NEW d \in Days, ComputeOutcomes(d) PROVE DroppedForAReason'
  BY <1>0, <1>4, FlagsUntouched DEF ComputeOutcomes, rows
<1>5. ASSUME NEW r \in results, Refuse(r) PROVE DroppedForAReason'
  <2>1. r.signal \in Signals
    BY DEF TypeOK
  <2> QED
    BY <1>0, <1>5, <2>1, MarkKeepsReasons DEF Refuse
<1>6. ASSUME NEW r \in results, UpsertTradeOutcome(r) PROVE DroppedForAReason'
  BY <1>0, <1>6, UpsertKeepsReasons
<1>7. ASSUME NEW r \in results, UpsertFails(r) PROVE DroppedForAReason'
  <2>1. r.signal \in Signals
    BY DEF TypeOK
  <2> QED
    BY <1>0, <1>7, <2>1, MarkKeepsReasons DEF UpsertFails
<1>8. CASE FlagDuplicates
  BY <1>0, <1>8, FlagsUntouched DEF FlagDuplicates
<1>9. CASE Stop
  BY <1>0, <1>9, FlagsUntouched DEF Stop, rows
<1>10. CASE RunNetReturnJob
  BY <1>0, <1>10, FlagsUntouched DEF RunNetReturnJob
<1>11. CASE Over \/ UNCHANGED vars
  BY <1>0, <1>11, FlagsUntouched DEF Over, vars, rows
<1>12. CASE JobStep
  BY <1>12, <1>4, <1>5, <1>6, <1>7, <1>8 DEF JobStep
<1> QED
  BY <1>1, <1>2, <1>3, <1>9, <1>10, <1>11, <1>12, <1>1a DEF Next

\* Whatever fails and wherever the job is interrupted, a row that is not primary
\* is a duplicate of a row that is stored.
THEOREM DroppedForAReasonHolds == Spec => []DroppedForAReason
<1>1. Init => DroppedForAReason
  BY DEF Init, DroppedForAReason, Stored
<1> QED
  BY <1>1, TypeInit, TypeInvariant, ReasonInvariant, PTL DEF Spec

-----------------------------------------------------------------------------
(* Settled dates stay settled *)

\* An evaluation rests on candles that are there.
CandlesInv ==
  \A s \in Signals : evaluated[s] > 0 => s.day + evaluated[s] <= latest[s.ticker]

\* A run works on dates that are not settled, one at a time.
PendingInv ==
  /\ ~running => pending = {} /\ results = {}
  /\ pending \subseteq 1 .. today
  /\ \A d \in pending : ~Settled(d)
  /\ \A r \in results : r.signal.day \notin pending

\* The results of a date are of different signals, and together: a run whose
\* date is too early to complete one of them cannot settle the date, and any
\* other run completes again what is complete.
ResultsInv ==
  /\ \A r \in results : /\ r.signal \in listed
                        /\ r.signal.day + r.days <= runDate
                        /\ runDate < r.signal.day + Horizon => ~Settled(r.signal.day)
                        /\ /\ runDate >= r.signal.day + Horizon
                           /\ evaluated[r.signal] = Horizon
                           => r.days = Horizon
  /\ \A q, r \in results : q.signal.day = r.signal.day /\ (q.signal = r.signal => q = r)
  /\ \A r \in results : r.signal.day + r.days <= latest[r.signal.ticker]

JobInv == CandlesInv /\ PendingInv /\ ResultsInv

LEMMA IngestKeepsJob ==
  ASSUME TypeOK, JobInv, NEW t \in Tickers, Ingest(t)
  PROVE  JobInv'
<1>1. \A u \in Tickers : latest'[u] \in Nat /\ latest[u] \in Nat /\ latest[u] <= latest'[u]
  BY DEF Ingest, TypeOK
<1>2. CandlesInv'
  <2>1. \A s \in Signals : s.ticker \in Tickers /\ s.day \in Nat
    BY DEF Signals, Days
  <2>2. \A s \in Signals : evaluated[s] \in Nat
    BY DEF TypeOK
  <2>3. evaluated' = evaluated
    BY DEF Ingest, rows
  <2> QED
    BY <1>1, <2>1, <2>2, <2>3 DEF CandlesInv, JobInv
<1>3. PendingInv'
  BY DEF Ingest, rows, job, PendingInv, JobInv, Settled
<1>4. ResultsInv'
  <2>1. \A r \in results : r.signal.ticker \in Tickers /\ r.signal.day \in Nat /\ r.days \in Nat
    BY DEF TypeOK, Signals, Days
  <2> QED
    BY <1>1, <2>1 DEF Ingest, rows, job, ResultsInv, JobInv, Settled
<1> QED
  BY <1>2, <1>3, <1>4 DEF JobInv

\* Lists are published while no job runs.
LEMMA PublishingKeepsJob ==
  ASSUME JobInv, ~running, UNCHANGED <<latest, rows, job>>
  PROVE  JobInv'
<1>1. pending' = {} /\ results' = {}
  BY DEF job, JobInv, PendingInv
<1>2. CandlesInv'
  BY DEF rows, CandlesInv, JobInv
<1> QED
  BY <1>1, <1>2 DEF JobInv, PendingInv, ResultsInv

LEMMA StartKeepsJob ==
  ASSUME TypeOK, JobInv, NEW date \in RunDates, RunTradeOutcomeJob(date)
  PROVE  JobInv'
<1>1. results' = {} /\ pending' = Pending(date) /\ running'
  BY DEF RunTradeOutcomeJob, JobInv, PendingInv
<1>2. CandlesInv'
  BY DEF RunTradeOutcomeJob, rows, CandlesInv, JobInv
<1>3. ASSUME NEW d \in Pending(date) PROVE d \in 1 .. today /\ ~Settled(d)
  <2>1. date \in Nat /\ date <= today /\ today \in 0 .. MaxDay
    BY DEF RunDates, TypeOK
  <2>2. d \in Days /\ d < date
    BY DEF Pending
  <2>3. PICK s \in listed : s.day = d /\ evaluated[s] < Horizon
    BY DEF Pending
  <2>4. evaluated[s] # Horizon
    BY <2>3 DEF TypeOK
  <2> QED
    BY <2>1, <2>2, <2>3, <2>4 DEF Days, Settled
<1>4. PendingInv'
  BY <1>1, <1>3 DEF PendingInv, RunTradeOutcomeJob, rows, Settled
<1> QED
  BY <1>1, <1>2, <1>4 DEF JobInv, ResultsInv

LEMMA ComputeKeepsJob ==
  ASSUME TypeOK, JobInv, NEW d \in Days, ComputeOutcomes(d)
  PROVE  JobInv'
<1>1. CandlesInv'
  BY DEF ComputeOutcomes, rows, CandlesInv, JobInv
<1>2. PendingInv'
  <2>1. \A r \in results' : r.signal.day = d
    BY NewResults
  <2> QED
    BY <2>1 DEF ComputeOutcomes, rows, PendingInv, JobInv, Settled
<1>3. ~Settled(d)
  BY DEF ComputeOutcomes, PendingInv, JobInv
<1>4. ASSUME NEW r \in results'
      PROVE  /\ r.signal.day + r.days <= runDate
             /\ r.signal.day + r.days <= latest[r.signal.ticker]
             /\ /\ runDate >= r.signal.day + Horizon
                /\ evaluated[r.signal] = Horizon
                => r.days = Horizon
  <2>1. /\ r.signal \in Signals /\ r.days \in 1 .. Horizon
        /\ r.days = Tracking(r.signal, runDate)
    BY NewResults
  <2>2. runDate \in 0 .. MaxDay /\ latest[r.signal.ticker] \in 0 .. MaxDay /\ r.signal.day \in 1 .. MaxDay
    BY <2>1 DEF TypeOK, Signals, Days
  <2>3. evaluated[r.signal] = Horizon => r.signal.day + Horizon <= latest[r.signal.ticker]
    BY <2>1 DEF JobInv, CandlesInv
  <2>4. /\ r.signal.day + r.days <= runDate
        /\ r.signal.day + r.days <= latest[r.signal.ticker]
    BY <2>1, <2>2, TrackingBounds DEF TypeOK
  <2> QED
    BY <2>1, <2>2, <2>3, <2>4 DEF Tracking, Lesser
<1>5. ResultsInv'
  BY <1>3, <1>4, NewResults DEF ComputeOutcomes, rows, ResultsInv, Settled
<1> QED
  BY <1>1, <1>2, <1>5 DEF JobInv

\* An upsert leaves a settled date settled, and a date that is not settled so if
\* the run's date is too early.
LEMMA UpsertSettles ==
  ASSUME TypeOK, JobInv, NEW r \in results, UpsertTradeOutcome(r)
  PROVE  /\ \A d \in Days : Settled(d) => Settled(d)'
         /\ \A d \in Days : d # r.signal.day => (Settled(d)' <=> Settled(d))
         /\ runDate < r.signal.day + Horizon => ~Settled(r.signal.day)'
<1> DEFINE s == r.signal
<1>1. s \in Signals /\ s \in listed /\ r.days \in 1 .. Horizon /\ listed \subseteq Signals
  BY DEF TypeOK, JobInv, ResultsInv
<1>2. evaluated' = [evaluated EXCEPT ![s] = r.days] /\ listed' = listed
  BY DEF UpsertTradeOutcome
<1>3. \A q \in listed : evaluated'[q] = IF q = s THEN r.days ELSE evaluated[q]
  BY <1>1, <1>2 DEF TypeOK
<1>4. \A d \in Days : d # s.day => (Settled(d)' <=> Settled(d))
  BY <1>2, <1>3 DEF Settled
<1>5. s.day \in Nat /\ runDate \in Nat
  BY <1>1 DEF Signals, Days, TypeOK
<1>6. Settled(s.day) => Settled(s.day)'
  <2> SUFFICES ASSUME Settled(s.day) PROVE Settled(s.day)'
    OBVIOUS
  <2>1. evaluated[s] = Horizon
    BY <1>1 DEF Settled
  <2>2. runDate >= s.day + Horizon
    BY <1>5 DEF JobInv, ResultsInv
  <2>3. r.days = Horizon
    BY <2>1, <2>2 DEF JobInv, ResultsInv
  <2> QED
    BY <1>2, <1>3, <2>3 DEF Settled
<1>7. runDate < s.day + Horizon => ~Settled(s.day)'
  <2> SUFFICES ASSUME runDate < s.day + Horizon PROVE ~Settled(s.day)'
    OBVIOUS
  <2>1. r.days # Horizon
    BY <1>1, <1>5 DEF JobInv, ResultsInv
  <2> QED
    BY <1>1, <1>2, <1>3, <2>1 DEF Settled
<1> QED
  BY <1>4, <1>6, <1>7

LEMMA UpsertKeepsJob ==
  ASSUME TypeOK, JobInv, NEW r \in results, UpsertTradeOutcome(r)
  PROVE  JobInv'
<1> DEFINE s == r.signal
<1>1. /\ s \in Signals /\ r.days \in 1 .. Horizon
      /\ s.day + r.days <= latest[s.ticker]
  BY DEF TypeOK, JobInv, ResultsInv
<1>2. /\ evaluated' = [evaluated EXCEPT ![s] = r.days]
      /\ results' = results \ {r}
      /\ UNCHANGED <<today, listed, latest, running, runDate, pending>>
  BY DEF UpsertTradeOutcome
<1>3. \A q \in Signals : evaluated'[q] = IF q = s THEN r.days ELSE evaluated[q]
  BY <1>1, <1>2 DEF TypeOK
<1>4. CandlesInv'
  BY <1>1, <1>2, <1>3 DEF CandlesInv, JobInv
<1>5. PendingInv'
  <2>1. \A d \in pending : d \in Days /\ d # s.day
    BY DEF TypeOK, JobInv, PendingInv
  <2>2. running
    BY DEF UpsertTradeOutcome, NextResult
  <2> QED
    BY <1>2, <2>1, <2>2, UpsertSettles DEF JobInv, PendingInv
<1>6. ResultsInv'
  <2>1. ASSUME NEW q \in results'
        PROVE  /\ q \in results /\ q.signal # s /\ q.signal.day = s.day
               /\ evaluated'[q.signal] = evaluated[q.signal]
    BY <1>2, <1>3 DEF JobInv, ResultsInv, TypeOK
  <2>2. ASSUME NEW q \in results'
        PROVE  runDate' < q.signal.day + Horizon => ~Settled(q.signal.day)'
    BY <1>2, <2>1, UpsertSettles
  <2> QED
    BY <1>2, <2>1, <2>2 DEF JobInv, ResultsInv
<1> QED
  BY <1>4, <1>5, <1>6 DEF JobInv

\* Steps that at most drop results.
LEMMA DroppingKeepsJob ==
  ASSUME JobInv, results' \subseteq results, pending' \subseteq pending,
         running' => running, ~running' => pending' = {} /\ results' = {},
         UNCHANGED <<today, listed, latest, evaluated, runDate>>
  PROVE  JobInv'
<1>1. CandlesInv' /\ ResultsInv'
  BY DEF JobInv, CandlesInv, ResultsInv, Settled
<1>2. PendingInv'
  BY DEF JobInv, PendingInv, Settled
<1> QED
  BY <1>1, <1>2 DEF JobInv

LEMMA JobInvariant == TypeOK /\ JobInv /\ [Next]_vars => JobInv'
<1> SUFFICES ASSUME TypeOK, JobInv, [Next]_vars PROVE JobInv'
  OBVIOUS
<1>0. ~running => pending = {} /\ results = {}
  BY DEF JobInv, PendingInv
<1>1. CASE NextDay
  BY <1>1, PublishingKeepsJob DEF NextDay
<1>1a. ASSUME NEW d \in Days, RankAgain(d) PROVE JobInv'
  BY <1>1a, PublishingKeepsJob DEF RankAgain
<1>2. ASSUME NEW t \in Tickers, Ingest(t) PROVE JobInv'
  BY <1>2, IngestKeepsJob
<1>3. ASSUME NEW date \in RunDates, RunTradeOutcomeJob(date) PROVE JobInv'
  BY <1>3, StartKeepsJob
<1>4. ASSUME NEW d \in Days, ComputeOutcomes(d) PROVE JobInv'
  BY <1>4, ComputeKeepsJob
<1>5. ASSUME NEW r \in results, Refuse(r) PROVE JobInv'
  BY <1>5, DroppingKeepsJob DEF Refuse, NextResult
<1>6. ASSUME NEW r \in results, UpsertTradeOutcome(r) PROVE JobInv'
  BY <1>6, UpsertKeepsJob
<1>7. ASSUME NEW r \in results, UpsertFails(r) PROVE JobInv'
  BY <1>7, DroppingKeepsJob DEF UpsertFails, Leave
<1>8. CASE FlagDuplicates
  BY <1>8, DroppingKeepsJob DEF FlagDuplicates, Leave
<1>9. CASE Stop
  BY <1>9, DroppingKeepsJob DEF Stop, Leave, rows
<1>10. CASE RunNetReturnJob
  BY <1>0, <1>10, DroppingKeepsJob DEF RunNetReturnJob, job
<1>11. CASE Over \/ UNCHANGED vars
  BY <1>0, <1>11, DroppingKeepsJob DEF Over, vars, rows, job
<1>12. CASE JobStep
  BY <1>12, <1>4, <1>5, <1>6, <1>7, <1>8 DEF JobStep
<1> QED
  BY <1>1, <1>2, <1>3, <1>9, <1>10, <1>11, <1>12, <1>1a DEF Next

LEMMA JobInit == Init => JobInv
BY DEF Init, JobInv, CandlesInv, PendingInv, ResultsInv

\* Once every row of a date is complete they stay so until a new signal of the
\* date is published, under reruns for earlier dates, interrupted runs and
\* candles that arrive while the job works.
THEOREM SettledStaysHolds == Spec => SettledStays
<1> DEFINE Published(d) == \E s \in listed' \ listed : s.day = d
<1>1. TypeOK /\ JobInv /\ [Next]_vars => [\A d \in Days : Settled(d) => Settled(d)' \/ Published(d)]_vars
  <2> SUFFICES ASSUME TypeOK, JobInv, Next, NEW d \in Days, Settled(d)
               PROVE  Settled(d)' \/ Published(d)
    OBVIOUS
  <2>1. CASE UNCHANGED evaluated
    BY <2>1 DEF Settled
  <2>2. ASSUME NEW r \in results, UpsertTradeOutcome(r) PROVE Settled(d)'
    BY <2>2, UpsertSettles
  <2> QED
    BY <2>1, <2>2
    DEF Next, NextDay, RankAgain, JobStep, Ingest, RunTradeOutcomeJob, ComputeOutcomes, Refuse,
        UpsertFails, FlagDuplicates, Stop, RunNetReturnJob, Over, rows, vars
<1> QED
  BY <1>1, TypeInit, JobInit, TypeInvariant, JobInvariant, PTL DEF Spec, SettledStays

-----------------------------------------------------------------------------
(* Runs for today never leave a row with less *)

\* There are no candles of the future, and no run is for it.
TodayInv == runDate <= today /\ \A t \in Tickers : latest[t] <= today

\* A result of a run for today that waits for its upsert rests on as many candles
\* as the row it replaces.
GrowingInv ==
  running /\ runDate = today => \A r \in results : evaluated[r.signal] <= r.days

RowsInv == TodayInv /\ GrowingInv

\* Results of today's run use every candle there is.
LEMMA ComputeGrows ==
  ASSUME TypeOK, JobInv, TodayInv, NEW d \in Days, ComputeOutcomes(d)
  PROVE  GrowingInv'
<1>1. UNCHANGED <<evaluated, runDate, today>>
  BY DEF ComputeOutcomes, rows
<1>2. ASSUME runDate = today, NEW r \in results' PROVE evaluated[r.signal] <= r.days
  <2>1. /\ r.signal \in Signals /\ r.days \in 1 .. Horizon
        /\ r.days = Tracking(r.signal, today)
    BY <1>2, NewResults
  <2>2. r.signal.ticker \in Tickers /\ r.signal.day \in Nat
    BY <2>1 DEF Signals, Days
  <2>3. evaluated[r.signal] \in 0 .. Horizon
    BY <2>1 DEF TypeOK
  <2>4. latest[r.signal.ticker] \in Nat /\ today \in Nat /\ latest[r.signal.ticker] <= today
    BY <2>2 DEF TodayInv, TypeOK
  <2>5. evaluated[r.signal] > 0 => r.signal.day + evaluated[r.signal] <= latest[r.signal.ticker]
    BY <2>1 DEF JobInv, CandlesInv
  <2> QED
    BY <2>1, <2>2, <2>3, <2>4, <2>5 DEF Tracking, Lesser
<1> QED
  BY <1>1, <1>2 DEF GrowingInv

\* An upsert changes no other result's row.
LEMMA UpsertGrows ==
  ASSUME TypeOK, JobInv, GrowingInv, NEW r \in results, UpsertTradeOutcome(r)
  PROVE  /\ GrowingInv'
         /\ runDate = today => \A s \in Signals : evaluated[s] <= evaluated'[s]
<1>0. running
  BY DEF UpsertTradeOutcome, NextResult
<1>1. /\ r.signal \in Signals /\ r.days \in 1 .. Horizon
      /\ runDate = today => evaluated[r.signal] <= r.days
  BY <1>0 DEF TypeOK, GrowingInv
<1>2. evaluated' = [evaluated EXCEPT ![r.signal] = r.days] /\ results' = results \ {r}
  BY DEF UpsertTradeOutcome
<1>3. \A s \in Signals : /\ evaluated[s] \in Nat
                         /\ evaluated'[s] = IF s = r.signal THEN r.days ELSE evaluated[s]
  BY <1>1, <1>2 DEF TypeOK
<1>4. ASSUME runDate = today, NEW q \in results' PROVE evaluated'[q.signal] <= q.days
  <2>1. q \in results /\ q.signal \in Signals
    BY <1>2 DEF TypeOK
  <2>2. q.signal # r.signal
    BY <1>2, <2>1 DEF JobInv, ResultsInv
  <2> QED
    BY <1>0, <1>3, <1>4, <2>1, <2>2 DEF GrowingInv
<1>5. UNCHANGED <<runDate, today>>
  BY DEF UpsertTradeOutcome
<1> QED
  BY <1>1, <1>3, <1>4, <1>5 DEF GrowingInv

LEMMA RowsInvariant ==
  ASSUME TypeOK, JobInv, RowsInv, [Next]_vars
  PROVE  RowsInv' /\ \A s \in Signals : evaluated[s] <= evaluated'[s] \/ runDate < today
<1> DEFINE Grown == \A s \in Signals : evaluated[s] <= evaluated'[s] \/ runDate < today
<1>0. /\ \A s \in Signals : evaluated[s] \in Nat
      /\ ~running => results = {}
      /\ runDate \in Nat /\ today \in Nat
  BY DEF TypeOK, JobInv, PendingInv
<1>1. CASE NextDay
  <2>1. TodayInv'
    BY <1>0, <1>1 DEF NextDay, job, TypeOK, RowsInv, TodayInv
  <2> QED
    BY <1>0, <1>1, <2>1 DEF NextDay, rows, job, RowsInv, TodayInv, GrowingInv
<1>1a. ASSUME NEW d \in Days, RankAgain(d) PROVE RowsInv' /\ Grown
  BY <1>0, <1>1a DEF RankAgain, rows, job, RowsInv, TodayInv, GrowingInv
<1>2. ASSUME NEW t \in Tickers, Ingest(t) PROVE RowsInv' /\ Grown
  <2>1. \A u \in Tickers : latest'[u] <= today'
    BY <1>2 DEF Ingest, TypeOK, RowsInv, TodayInv
  <2> QED
    BY <1>0, <1>2, <2>1 DEF Ingest, rows, job, RowsInv, TodayInv, GrowingInv
<1>3. ASSUME NEW date \in RunDates, RunTradeOutcomeJob(date) PROVE RowsInv' /\ Grown
  <2>1. date <= today
    BY <1>0 DEF RunDates
  <2> QED
    BY <1>0, <1>3, <2>1 DEF RunTradeOutcomeJob, rows, RowsInv, TodayInv, GrowingInv
<1>4. ASSUME NEW d \in Days, ComputeOutcomes(d) PROVE RowsInv' /\ Grown
  <2>1. GrowingInv'
    BY <1>4, ComputeGrows DEF RowsInv
  <2> QED
    BY <1>0, <1>4, <2>1 DEF ComputeOutcomes, rows, RowsInv, TodayInv
<1>5. ASSUME NEW r \in results, Refuse(r) PROVE RowsInv' /\ Grown
  BY <1>0, <1>5 DEF Refuse, RowsInv, TodayInv, GrowingInv
<1>6. ASSUME NEW r \in results, UpsertTradeOutcome(r) PROVE RowsInv' /\ Grown
  <2>1. GrowingInv' /\ Grown
    BY <1>0, <1>6, UpsertGrows DEF RowsInv, TodayInv
  <2> QED
    BY <1>6, <2>1 DEF UpsertTradeOutcome, RowsInv, TodayInv
<1>7. ASSUME NEW r \in results, UpsertFails(r) PROVE RowsInv' /\ Grown
  BY <1>0, <1>7 DEF UpsertFails, Leave, RowsInv, TodayInv, GrowingInv
<1>8. CASE FlagDuplicates
  BY <1>0, <1>8 DEF FlagDuplicates, Leave, RowsInv, TodayInv, GrowingInv
<1>9. CASE Stop
  BY <1>0, <1>9 DEF Stop, Leave, rows, RowsInv, TodayInv, GrowingInv
<1>10. CASE RunNetReturnJob
  BY <1>0, <1>10 DEF RunNetReturnJob, job, RowsInv, TodayInv, GrowingInv
<1>11. CASE Over \/ UNCHANGED vars
  BY <1>0, <1>11 DEF Over, vars, rows, job, RowsInv, TodayInv, GrowingInv
<1>12. CASE JobStep
  BY <1>12, <1>4, <1>5, <1>6, <1>7, <1>8 DEF JobStep
<1> QED
  BY <1>1, <1>2, <1>3, <1>9, <1>10, <1>11, <1>12, <1>1a DEF Next

LEMMA RowsInit == Init => RowsInv
BY DEF Init, RowsInv, TodayInv, GrowingInv

\* Whatever goes wrong, only a run for an earlier date replaces an evaluation by
\* one that rests on fewer candles.
THEOREM NeverRegressHolds == Spec => NeverRegress
<1>1. TypeOK /\ JobInv /\ RowsInv /\ [Next]_vars =>
        RowsInv' /\ [\A s \in Signals : evaluated[s] <= evaluated'[s] \/ runDate < today]_vars
  BY RowsInvariant
<1> QED
  BY <1>1, TypeInit, JobInit, RowsInit, TypeInvariant, JobInvariant, PTL
  DEF Spec, NeverRegress

-----------------------------------------------------------------------------
(* Net returns, if no run is for an earlier date *)

RunsForToday == running => runDate = today

NetInv == RunsForToday /\ NetWithinGross

LEMMA RunsForTodayInvariant ==
  ASSUME "override" \notin Disturbances, RunsForToday, [Next]_vars
  PROVE  RunsForToday'
BY DEF RunsForToday, Next, NextDay, RankAgain, Ingest, RunDates, RunTradeOutcomeJob, JobStep,
       ComputeOutcomes, Refuse, UpsertTradeOutcome, UpsertFails, FlagDuplicates, Stop, Leave,
       RunNetReturnJob, Over, rows, job, vars

LEMMA NetInvariant ==
  ASSUME "override" \notin Disturbances, TypeOK, JobInv, RowsInv, NetInv, [Next]_vars
  PROVE  NetInv'
<1>1. \A s \in Signals : evaluated[s] \in Nat /\ evaluated'[s] \in Nat /\ net[s] \in Nat
  BY TypeInvariant DEF TypeOK
<1>2. CASE RunNetReturnJob
  <2>1. UNCHANGED evaluated
    BY <1>2 DEF RunNetReturnJob
  <2>2. PICK done \in Part("snapshot", {s \in Signals : evaluated[s] >= FirstNet /\ net[s] = 0}) :
          net' = [s \in Signals |-> IF s \in done THEN evaluated[s] ELSE net[s]]
    BY <1>2 DEF RunNetReturnJob
  <2>3. \A s \in done : evaluated[s] >= FirstNet
    BY PartSubset
  <2>4. NetWithinGross'
    BY <1>1, <2>1, <2>2, <2>3 DEF NetInv, NetWithinGross
  <2> QED
    BY <2>4, RunsForTodayInvariant DEF NetInv
<1>3. CASE UNCHANGED <<net, evaluated>>
  BY <1>3, RunsForTodayInvariant DEF NetInv, NetWithinGross
<1>4. ASSUME NEW r \in results, UpsertTradeOutcome(r) PROVE NetInv'
  <2>1. runDate = today /\ net' = net
    BY <1>4 DEF UpsertTradeOutcome, NextResult, NetInv, RunsForToday
  <2>2. runDate \in Nat
    BY DEF TypeOK
  <2>3. \A s \in Signals : evaluated[s] <= evaluated'[s]
    BY <2>1, <2>2, RowsInvariant
  <2>4. NetWithinGross'
    BY <1>1, <2>1, <2>3 DEF NetInv, NetWithinGross
  <2> QED
    BY <2>4, RunsForTodayInvariant DEF NetInv
<1> QED
  BY <1>2, <1>3, <1>4
  DEF Next, NextDay, RankAgain, Ingest, RunTradeOutcomeJob, JobStep, ComputeOutcomes, Refuse,
      UpsertFails, FlagDuplicates, Stop, Over, rows, vars

\* If no run is for an earlier date, net returns rest on gross returns that are
\* in the row.
THEOREM NetWithinGrossHolds ==
  ASSUME "override" \notin Disturbances PROVE Spec => []NetWithinGross
<1>1. Init => NetInv
  BY DEF Init, NetInv, RunsForToday, NetWithinGross
<1>2. TypeOK /\ JobInv /\ RowsInv /\ NetInv /\ [Next]_vars => RowsInv' /\ NetInv'
  BY RowsInvariant, NetInvariant
<1>3. NetInv => NetWithinGross
  BY DEF NetInv
<1> QED
  BY <1>1, <1>2, <1>3, TypeInit, JobInit, RowsInit, TypeInvariant, JobInvariant, PTL DEF Spec

-----------------------------------------------------------------------------
(* A run that ends has evaluated everything, and one row of a day is primary. *)
(* Both need that every result is read and plausible and that no run is for   *)
(* an earlier date; the job may still be broken off anywhere.                 *)

NothingMissing == Disturbances \intersect {"fetch", "verdict", "override"} = {}

\* Without disturbed reads, a date has a result for every signal with a candle.
LEMMA AllResults ==
  ASSUME NothingMissing, TypeOK, NEW d \in Days, ComputeOutcomes(d)
  PROVE  /\ \A r \in results' : r.plausible
         /\ \A s \in listed : s.day = d /\ Tracking(s, runDate) > 0
              => \E r \in results' : r.signal = s /\ r.days = Tracking(s, runDate)
<1> DEFINE evaluable == {s \in listed : s.day = d /\ Tracking(s, runDate) > 0}
<1>1. PICK read \in Part("fetch", evaluable), bad \in SUBSET evaluable :
        (bad # {} => "verdict" \in Disturbances) /\ results' = Results(read, bad)
  BY DEF ComputeOutcomes
<1>2. read = evaluable /\ bad = {}
  BY <1>1 DEF Part, NothingMissing
<1>3. results' = {[signal |-> s, days |-> Tracking(s, runDate), plausible |-> s \notin {}] : s \in evaluable}
  BY <1>1, <1>2 DEF Results
<1>4. ASSUME NEW s \in evaluable
      PROVE  \E r \in results' : r.signal = s /\ r.days = Tracking(s, runDate)
  <2> DEFINE r == [signal |-> s, days |-> Tracking(s, runDate), plausible |-> s \notin {}]
  <2>1. r \in results'
    BY <1>3
  <2> QED
    BY <2>1
<1>5. \A r \in results' : r.plausible
  <2> SUFFICES ASSUME NEW r \in results' PROVE r.plausible
    OBVIOUS
  <2>1. PICK s \in evaluable : r = [signal |-> s, days |-> Tracking(s, runDate), plausible |-> s \notin {}]
    BY <1>3
  <2> QED
    BY <2>1
<1> QED
  BY <1>4, <1>5

AllPlausible == \A r \in results : r.plausible

\* What a run for today has still to do: a signal of its window waits for its date
\* or for its upsert, or its row rests on all the candles.  Candles do not arrive
\* while it works, so that what it has computed is still all there is.
WorkInv ==
  /\ running => \A s \in listed :
       s.day \in runDate - Lookback .. runDate - 1 =>
         \/ s.day \in pending
         \/ \E r \in results : r.signal = s
         \/ evaluated[s] = Tracking(s, runDate)
  /\ \A r \in results : r.days = Tracking(r.signal, runDate)

\* A row without a result has no candle to rest on.
LEMMA NoCandleNoRow ==
  ASSUME TypeOK, JobInv, RowsInv, NEW s \in Signals, s.day < today, Tracking(s, today) = 0
  PROVE  evaluated[s] = 0
<1>0. s.ticker \in Tickers /\ s.day \in Nat
  BY DEF Signals, Days
<1>1. /\ latest[s.ticker] \in 0 .. MaxDay /\ latest[s.ticker] <= today /\ today \in 0 .. MaxDay
      /\ s.day \in Nat /\ evaluated[s] \in 0 .. Horizon
  BY <1>0 DEF TypeOK, RowsInv, TodayInv
<1>2. latest[s.ticker] <= s.day
  BY <1>1 DEF Tracking, Lesser
<1>3. evaluated[s] > 0 => s.day + evaluated[s] <= latest[s.ticker]
  BY DEF JobInv, CandlesInv
<1> QED
  BY <1>1, <1>2, <1>3

\* A complete row rests on all the candles of its horizon.
LEMMA CompleteIsTracked ==
  ASSUME TypeOK, JobInv, RowsInv, NEW s \in Signals, s.day < today, evaluated[s] = Horizon
  PROVE  Tracking(s, today) = Horizon
<1>0. s.ticker \in Tickers /\ s.day \in Nat
  BY DEF Signals, Days
<1> DEFINE last == latest[s.ticker]
<1>1. last \in Nat /\ last <= today /\ today \in Nat
  BY <1>0 DEF TypeOK, RowsInv, TodayInv
<1>2. s.day + Horizon <= last
  BY DEF JobInv, CandlesInv
<1>3. Lesser(last, today) = last
  BY <1>1 DEF Lesser
<1>4. Tracking(s, today) = IF last <= s.day THEN 0 ELSE Lesser(Horizon, last - s.day)
  BY <1>3 DEF Tracking
<1> HIDE DEF last
<1>5. Lesser(Horizon, last - s.day) = Horizon /\ ~(last <= s.day)
  BY <1>0, <1>1, <1>2 DEF Lesser
<1> QED
  BY <1>4, <1>5

\* Nothing of a run's window is forgotten: what is not done waits.
LEMMA StartHasWork ==
  ASSUME TypeOK, JobInv, RowsInv, NothingMissing, RunTradeOutcomeJob(today)
  PROVE  WorkInv'
<1>0. /\ runDate' = today /\ pending' = Pending(today) /\ results' = {} /\ running'
      /\ UNCHANGED <<listed, latest, evaluated>>
  BY DEF RunTradeOutcomeJob, rows, JobInv, PendingInv
<1> SUFFICES ASSUME NEW s \in listed, s.day \in today - Lookback .. today - 1, s.day \notin Pending(today)
             PROVE  evaluated[s] = Tracking(s, today)
  BY <1>0 DEF WorkInv, Tracking
<1>1. s \in Signals /\ s.day \in Days /\ today \in Nat /\ evaluated[s] \in 0 .. Horizon
  <2>1. s \in Signals /\ today \in Nat
    BY DEF TypeOK
  <2>2. s.day \in Days
    BY <2>1 DEF Signals
  <2>3. evaluated[s] \in 0 .. Horizon
    BY <2>1 DEF TypeOK
  <2> QED
    BY <2>1, <2>2, <2>3
<1>2. evaluated[s] = Horizon /\ s.day < today
  BY <1>1 DEF Pending, Days
<1> QED
  BY <1>1, <1>2, CompleteIsTracked

LEMMA ComputeKeepsWork ==
  ASSUME TypeOK, JobInv, RowsInv, RunsForToday, WorkInv, NothingMissing,
         NEW d \in Days, ComputeOutcomes(d)
  PROVE  WorkInv'
<1>1. running /\ results = {} /\ pending' = pending \ {d} /\ runDate = today
  BY DEF ComputeOutcomes, RunsForToday
<1>2. UNCHANGED <<today, listed, latest, rows, running, runDate>>
  BY DEF ComputeOutcomes
<1> SUFFICES ASSUME NEW s \in listed, s.day \in runDate - Lookback .. runDate - 1, s.day \notin pending'
             PROVE  \/ \E r \in results' : r.signal = s
                    \/ evaluated[s] = Tracking(s, runDate)
  BY <1>2, NewResults DEF WorkInv, rows, Tracking
<1>3. CASE s.day # d
  BY <1>1, <1>3 DEF WorkInv
<1>4. CASE s.day = d /\ Tracking(s, runDate) > 0
  BY <1>4, AllResults
<1>5. CASE s.day = d /\ ~(Tracking(s, runDate) > 0)
  <2>1. s \in Signals /\ today \in 0 .. MaxDay /\ s.day \in Nat
    BY DEF TypeOK, Signals, Days
  <2>2. Tracking(s, runDate) = 0
    BY <1>1, <1>5, <2>1, TrackingBounds DEF TypeOK
  <2> QED
    BY <1>1, <2>1, <2>2, NoCandleNoRow
<1> QED
  BY <1>3, <1>4, <1>5

LEMMA UpsertKeepsWork ==
  ASSUME TypeOK, JobInv, WorkInv, NEW r \in results, UpsertTradeOutcome(r)
  PROVE  WorkInv'
<1>1. /\ evaluated' = [evaluated EXCEPT ![r.signal] = r.days] /\ results' = results \ {r}
      /\ UNCHANGED <<today, listed, latest, running, runDate, pending>> /\ running
  BY DEF UpsertTradeOutcome, NextResult
<1> SUFFICES ASSUME NEW s \in listed, s.day \in runDate - Lookback .. runDate - 1, s.day \notin pending
             PROVE  \/ \E q \in results' : q.signal = s
                    \/ evaluated'[s] = Tracking(s, runDate)
  BY <1>1 DEF WorkInv, Tracking
<1>2. s \in Signals /\ \A q \in results : q.signal \in Signals
  BY DEF TypeOK
<1>3. CASE evaluated[s] = Tracking(s, runDate) /\ s # r.signal
  BY <1>1, <1>2, <1>3 DEF TypeOK
<1>4. CASE s = r.signal
  BY <1>1, <1>2, <1>4 DEF TypeOK, WorkInv
<1>5. ASSUME NEW q \in results, q.signal = s, s # r.signal PROVE q \in results'
  BY <1>1, <1>5
<1> QED
  BY <1>1, <1>3, <1>4, <1>5 DEF WorkInv

LEMMA PlausibleInvariant ==
  ASSUME NothingMissing, TypeOK, AllPlausible, [Next]_vars
  PROVE  AllPlausible'
<1>1. ASSUME NEW d \in Days, ComputeOutcomes(d) PROVE AllPlausible'
  BY <1>1, AllResults DEF AllPlausible
<1>2. CASE results' \subseteq results
  BY <1>2 DEF AllPlausible
<1> QED
  BY <1>1, <1>2
  DEF Next, NextDay, RankAgain, Ingest, RunTradeOutcomeJob, JobStep, Refuse, UpsertTradeOutcome,
      UpsertFails, FlagDuplicates, Stop, Leave, RunNetReturnJob, Over, job, vars

LEMMA WorkInvariant ==
  ASSUME NothingMissing, "background" \notin Disturbances,
         TypeOK, JobInv, RowsInv, RunsForToday, AllPlausible, WorkInv, [Next]_vars
  PROVE  WorkInv'
<1>1. CASE ~running' /\ results' = {}
  BY <1>1 DEF WorkInv
<1>2. CASE UNCHANGED <<listed, latest, evaluated, job>>
  BY <1>2 DEF WorkInv, Tracking, job
<1>3. ASSUME NEW date \in RunDates, RunTradeOutcomeJob(date) PROVE WorkInv'
  <2>1. date = today
    BY DEF RunDates, NothingMissing
  <2> QED
    BY <1>3, <2>1, StartHasWork
<1>4. ASSUME NEW d \in Days, ComputeOutcomes(d) PROVE WorkInv'
  BY <1>4, ComputeKeepsWork
<1>5. ASSUME NEW r \in results, UpsertTradeOutcome(r) PROVE WorkInv'
  BY <1>5, UpsertKeepsWork
<1>6. ASSUME NEW r \in results PROVE ~Refuse(r)
  BY DEF Refuse, AllPlausible
<1>7. ~running => results = {}
  BY DEF JobInv, PendingInv
<1>8. CASE NextDay \/ (\E d \in Days : RankAgain(d)) \/ (\E t \in Tickers : Ingest(t))
  BY <1>1, <1>7, <1>8 DEF NextDay, RankAgain, Ingest, job
<1>9. CASE FlagDuplicates \/ Stop \/ \E r \in results : UpsertFails(r)
  BY <1>1, <1>9 DEF FlagDuplicates, Stop, UpsertFails, Leave
<1>10. CASE RunNetReturnJob \/ Over \/ UNCHANGED vars
  BY <1>2, <1>10 DEF RunNetReturnJob, Over, vars, rows
<1> QED
  BY <1>3, <1>4, <1>5, <1>6, <1>8, <1>9, <1>10 DEF Next, JobStep

\* A run that gets to its end leaves nothing of its window behind, if all runs are
\* for today, every signal's candles can be read, no result is refused and no candle
\* arrives meanwhile.  Queries of the deduplication may fail, and earlier runs may
\* have been broken off anywhere.
THEOREM CompletedRunIsCompleteHolds ==
  ASSUME NothingMissing, "background" \notin Disturbances
  PROVE  Spec => CompletedRunIsComplete
<1> DEFINE Inv == RunsForToday /\ AllPlausible /\ WorkInv
           Complete == FlagDuplicates =>
             \A s \in listed : s.day \in runDate - Lookback .. runDate - 1 =>
               evaluated[s] = Tracking(s, runDate)
<1>1. Init => Inv
  BY DEF Init, RunsForToday, AllPlausible, WorkInv
<1>2. TypeOK /\ JobInv /\ RowsInv /\ Inv /\ [Next]_vars => RowsInv' /\ Inv'
  BY RowsInvariant, RunsForTodayInvariant, PlausibleInvariant, WorkInvariant DEF NothingMissing
<1>3. Inv => Complete
  BY DEF FlagDuplicates, WorkInv
<1> QED
  BY <1>1, <1>2, <1>3, TypeInit, JobInit, RowsInit, TypeInvariant, JobInvariant, PTL
  DEF Spec, CompletedRunIsComplete
-----------------------------------------------------------------------------
(* One row of a ticker's day is primary *)

Peers(p, s) == p.ticker = s.ticker /\ p.day = s.day
Waits(s) == \E r \in results : r.signal = s

\* The rows of a ticker's day are stored list by list, and no list is skipped.
InVisitedOrder ==
  /\ \A p \in Stored, s \in listed :
       Peers(p, s) /\ Visited[s.list] < Visited[p.list] => s \in Stored
  /\ \A r \in results, s \in listed : Peers(r.signal, s) => s \in Stored \/ Waits(s)

\* A primary row has a stored peer of more conviction only while the peer, stored
\* after it, has just come, or waits with it to be stored again: the primary row
\* comes first then, finds its peer and gives way.
PeersInv ==
  /\ primary \subseteq Stored /\ Stored \subseteq listed
  /\ InVisitedOrder
  /\ \A q \in primary, s \in Stored :
       Peers(q, s) /\ Conviction[s.list] < Conviction[q.list] =>
         Visited[q.list] < Visited[s.list] /\ (Waits(s) => Waits(q))
  /\ OnePrimaryPerDay
\* Steps that store nothing, publish nothing and leave the results alone or
\* forget them.
LEMMA PeersUntouched ==
  ASSUME PeersInv, UNCHANGED <<listed, evaluated>>, primary' \subseteq primary,
         results' \in {results, {}}
  PROVE  PeersInv'
<1>1. Stored' = Stored
  BY DEF Stored
<1>2. \A s : Waits(s)' => Waits(s)
  BY DEF Waits
<1>3. results' = results => \A s : Waits(s)' <=> Waits(s)
  BY DEF Waits
<1>4. InVisitedOrder'
  BY <1>1, <1>3 DEF PeersInv, InVisitedOrder
<1>5. results' = {} => \A s : ~Waits(s)'
  BY DEF Waits
<1> QED
  BY <1>1, <1>2, <1>3, <1>4, <1>5 DEF PeersInv, OnePrimaryPerDay

\* A signal of a new day has no row and no result to be compared with.
LEMMA NextDayKeepsPeers ==
  ASSUME TypeOK, JobInv, RowsInv, PeersInv, NextDay
  PROVE  PeersInv'
<1>1. PICK new \in SUBSET {s \in Signals : s.day = today + 1} : listed' = listed \union new
  BY DEF NextDay
<1>2. results' = {} /\ results = {} /\ UNCHANGED <<primary, evaluated>>
  BY DEF NextDay, rows, job, JobInv, PendingInv
<1>3. Stored' = Stored
  BY <1>2 DEF Stored
<1>4. ASSUME NEW p \in Stored PROVE p.day # today + 1
  <2>1. p \in Signals /\ evaluated[p] \in Nat /\ evaluated[p] > 0 /\ today \in Nat
    BY DEF Stored, TypeOK
  <2>2. p.day \in Nat /\ p.ticker \in Tickers
    BY <2>1 DEF Signals, Days
  <2>3. latest[p.ticker] \in Nat /\ latest[p.ticker] <= today
    BY <2>2 DEF TypeOK, RowsInv, TodayInv
  <2>4. p.day + evaluated[p] <= latest[p.ticker]
    BY <2>1 DEF JobInv, CandlesInv
  <2> QED
    BY <2>1, <2>2, <2>3, <2>4
<1>5. \A p \in Stored, s \in listed' : Peers(p, s) => s \in listed
  BY <1>1, <1>4 DEF Peers
<1>6. InVisitedOrder'
  BY <1>2, <1>3, <1>5 DEF PeersInv, InVisitedOrder, Peers
<1>7. \A s : ~Waits(s)'
  BY <1>2 DEF Waits
<1> QED
  BY <1>1, <1>2, <1>3, <1>6, <1>7 DEF PeersInv, OnePrimaryPerDay

\* A date's results are of all its signals with a candle, and a ticker's lists
\* have the same candles: what is computed of one list is computed of all.
LEMMA PeersComputedTogether ==
  ASSUME NothingMissing, TypeOK, JobInv, NEW d \in Days, ComputeOutcomes(d),
         NEW r \in results', NEW s \in listed, Peers(r.signal, s)
  PROVE  Waits(s)'
<1>1. /\ r.signal \in listed /\ r.signal.day = d /\ r.days = Tracking(r.signal, runDate)
      /\ r.days \in 1 .. Horizon
  BY NewResults
<1>2. Tracking(s, runDate) = Tracking(r.signal, runDate)
  BY DEF Peers, Tracking
<1>3. s.day = d /\ Tracking(s, runDate) > 0
  BY <1>1, <1>2 DEF Peers
<1> QED
  BY <1>3, AllResults DEF Waits

LEMMA ComputeKeepsPeers ==
  ASSUME NothingMissing, TypeOK, JobInv, PeersInv, NEW d \in Days, ComputeOutcomes(d)
  PROVE  PeersInv'
<1>1. UNCHANGED <<today, listed, latest, evaluated, primary, runDate>>
  BY DEF ComputeOutcomes, rows
<1>2. Stored' = Stored
  BY <1>1 DEF Stored
<1>3. ASSUME NEW r \in results', NEW s \in listed, Peers(r.signal, s) PROVE Waits(s)'
  BY <1>3, PeersComputedTogether
<1>4. \A s, q \in listed : Waits(s)' /\ Peers(s, q) => Waits(q)'
  BY <1>3 DEF Waits
<1>5. InVisitedOrder'
  BY <1>1, <1>2, <1>3 DEF PeersInv, InVisitedOrder
<1>6. \A q \in primary, s \in Stored : Peers(q, s) => q \in listed /\ s \in listed /\ Peers(s, q)
  BY DEF PeersInv, Peers
<1> QED
  BY <1>1, <1>2, <1>4, <1>5, <1>6 DEF PeersInv, OnePrimaryPerDay

\* A row that is found primary has no stored peer of as much conviction.
LEMMA PrimaryIsBest ==
  ASSUME NEW s \in Signals, ~CrossList(s), NEW p \in Stored, Peers(p, s), p # s
  PROVE  s \in Stored /\ Conviction[s.list] < Conviction[p.list]
<1> DEFINE peers == {q \in Stored : Peers(q, s)}
           C == {Conviction[q.list] : q \in peers}
<1>1. \A q \in Signals : q.list \in Lists /\ Conviction[q.list] \in Nat
  BY ListsAssumption DEF ListsAssumption, Signals
<1>2. C \in SUBSET Nat /\ C # {}
  BY <1>1 DEF Stored
<1>3. PICK c \in C : \A n \in C : c <= n
  BY <1>2, LeastNatural
<1>4. PICK best \in peers : c = Conviction[best.list]
  OBVIOUS
<1>5. \A q \in peers : Conviction[best.list] <= Conviction[q.list]
  BY <1>3, <1>4
<1>6. best.list = s.list
  BY <1>4, <1>5 DEF CrossList, Peers
<1>7. best = s
  BY <1>4, <1>6 DEF Peers, Signals, Stored
<1>8. p.list # s.list
  BY DEF Peers, Signals, Stored
<1>9. Conviction[s.list] # Conviction[p.list]
  BY <1>1, <1>8, ListsAssumption DEF ListsAssumption, Stored
<1> QED
  BY <1>1, <1>4, <1>5, <1>7, <1>9 DEF Stored

LEMMA UpsertKeepsPeers ==
  ASSUME "check" \notin Disturbances, TypeOK, JobInv, PeersInv,
         NEW r \in results, UpsertTradeOutcome(r)
  PROVE  PeersInv'
<1> DEFINE s == r.signal
<1>1. s \in Signals /\ s \in listed /\ r.days \in 1 .. Horizon
  BY DEF TypeOK, JobInv, ResultsInv
<1>2. /\ evaluated' = [evaluated EXCEPT ![s] = r.days]
      /\ results' = results \ {r} /\ listed' = listed
  BY DEF UpsertTradeOutcome
<1>3. Stored' = Stored \union {s}
  BY <1>1, <1>2 DEF Stored, TypeOK
<1>4. \A q : Waits(q)' <=> Waits(q) /\ q # s
  BY <1>2 DEF Waits, JobInv, ResultsInv
<1>5. \A q \in Signals : q.list \in Lists /\ Visited[q.list] \in Nat /\ Conviction[q.list] \in Nat
  BY ListsAssumption DEF ListsAssumption, Signals
<1>6. \A q : Waits(q) => Visited[s.list] <= Visited[q.list]
  BY DEF Waits, UpsertTradeOutcome, NextResult
<1>7. listed \subseteq Signals
  BY DEF TypeOK
<1>8. primary' \subseteq primary \union {s}
      /\ (s \in primary' => ~CrossList(s))
  BY DEF UpsertTradeOutcome, Verdicts
<1>9. s \in primary' => \A p \in Stored : Peers(p, s) /\ p # s =>
                          s \in Stored /\ Conviction[s.list] < Conviction[p.list]
  BY <1>1, <1>8, PrimaryIsBest
<1>10. InVisitedOrder'
  <2>1. ASSUME NEW p \in Stored', NEW q \in listed, Peers(p, q), Visited[q.list] < Visited[p.list]
        PROVE  q \in Stored'
    <3>1. CASE p \in Stored
      BY <1>3, <2>1, <3>1 DEF PeersInv, InVisitedOrder
    <3>2. CASE p = s
      <4>1. q \in Stored \/ Waits(q)
        BY <2>1, <3>2 DEF PeersInv, InVisitedOrder
      <4> QED
        BY <1>1, <1>3, <1>5, <1>6, <1>7, <2>1, <3>2, <4>1
    <3> QED
      BY <1>3, <3>1, <3>2
  <2>2. ASSUME NEW q \in results', NEW p \in listed, Peers(q.signal, p)
        PROVE  p \in Stored' \/ Waits(p)'
    BY <1>2, <1>3, <1>4, <2>2 DEF PeersInv, InVisitedOrder
  <2> QED
    BY <1>2, <2>1, <2>2 DEF InVisitedOrder
<1>11. ASSUME NEW q \in primary', NEW p \in Stored', Peers(q, p),
              Conviction[p.list] < Conviction[q.list]
       PROVE  Visited[q.list] < Visited[p.list] /\ (Waits(p)' => Waits(q)')
  <2>1. q \in Signals /\ p \in Signals
    BY <1>1, <1>3, <1>8 DEF PeersInv, Stored
  <2>2. q # p /\ Conviction[p.list] \in Nat /\ Conviction[q.list] \in Nat
    BY <1>5, <1>11, <2>1
  <2>3. q # s
    BY <1>3, <1>9, <1>11, <2>2 DEF Peers
  <2>4. q \in primary
    BY <1>8, <2>3
  <2>5. CASE p \in Stored
    BY <1>4, <1>11, <2>3, <2>4, <2>5 DEF PeersInv
  <2>6. CASE p = s /\ s \notin Stored
    <3>1. q \in Stored /\ ~(Visited[s.list] < Visited[q.list])
      BY <1>1, <1>11, <2>4, <2>6 DEF PeersInv, InVisitedOrder
    <3>2. Visited[s.list] # Visited[q.list]
      BY <1>5, <1>11, <2>1, <2>3, <2>6, ListsAssumption DEF ListsAssumption, Signals, Peers
    <3> QED
      BY <1>4, <1>5, <2>1, <2>6, <3>1, <3>2
  <2> QED
    BY <1>3, <2>5, <2>6
<1>12. ASSUME NEW q \in primary', s \in primary', Peers(q, s), q # s PROVE FALSE
  <2>1. q \in primary /\ q \in Stored
    BY <1>8, <1>12 DEF PeersInv
  <2>2. s \in Stored /\ Conviction[s.list] < Conviction[q.list]
    BY <1>9, <1>12, <2>1
  <2>3. Visited[q.list] < Visited[s.list] /\ Waits(q)
    BY <1>12, <2>1, <2>2 DEF PeersInv, Waits
  <2> QED
    BY <1>1, <1>5, <1>6, <2>1, <2>3 DEF Stored
<1>13. OnePrimaryPerDay'
  BY <1>8, <1>12 DEF PeersInv, OnePrimaryPerDay, Peers
<1>14. primary' \subseteq Stored' /\ Stored' \subseteq listed'
  BY <1>1, <1>2, <1>3, <1>8 DEF PeersInv
<1> QED
  BY <1>10, <1>11, <1>13, <1>14 DEF PeersInv

LEMMA PeersInvariant ==
  ASSUME NothingMissing, "check" \notin Disturbances,
         TypeOK, JobInv, RowsInv, AllPlausible, PeersInv, [Next]_vars
  PROVE  PeersInv'
<1>1. CASE NextDay
  BY <1>1, NextDayKeepsPeers
<1>2. ASSUME NEW d \in Days PROVE ~RankAgain(d)
  BY DEF RankAgain, RunDates, NothingMissing
<1>3. ASSUME NEW t \in Tickers, Ingest(t) PROVE PeersInv'
  BY <1>3, PeersUntouched DEF Ingest, rows, job
<1>4. ASSUME NEW date \in RunDates, RunTradeOutcomeJob(date) PROVE PeersInv'
  BY <1>4, PeersUntouched DEF RunTradeOutcomeJob, rows
<1>5. ASSUME NEW d \in Days, ComputeOutcomes(d) PROVE PeersInv'
  BY <1>5, ComputeKeepsPeers
<1>6. ASSUME NEW r \in results PROVE ~Refuse(r)
  BY DEF Refuse, AllPlausible
<1>7. ASSUME NEW r \in results, UpsertTradeOutcome(r) PROVE PeersInv'
  BY <1>7, UpsertKeepsPeers
<1>8. ASSUME NEW r \in results, UpsertFails(r) PROVE PeersInv'
  BY <1>8, PeersUntouched DEF UpsertFails, Leave, MarkCrossListDuplicate
<1>9. CASE FlagDuplicates \/ Stop \/ RunNetReturnJob \/ Over \/ UNCHANGED vars
  BY <1>9, PeersUntouched DEF FlagDuplicates, Stop, Leave, RunNetReturnJob, Over, vars, rows, job
<1> QED
  BY <1>1, <1>2, <1>3, <1>4, <1>5, <1>6, <1>7, <1>8, <1>9 DEF Next, JobStep

\* No ticker counts twice on a day, whatever number of lists has it and in
\* whatever order they are stored, if the queries of the deduplication and the
\* candles are answered, no result is refused and no run is for an earlier date.
\* Flags may stay unwritten and the job may be broken off anywhere.
THEOREM OnePrimaryPerDayHolds ==
  ASSUME NothingMissing, "check" \notin Disturbances
  PROVE  Spec => []OnePrimaryPerDay
<1> DEFINE Inv == AllPlausible /\ PeersInv
<1>1. Init => Inv
  BY DEF Init, AllPlausible, PeersInv, InVisitedOrder, OnePrimaryPerDay, Stored
<1>2. TypeOK /\ JobInv /\ RowsInv /\ Inv /\ [Next]_vars => RowsInv' /\ Inv'
  BY RowsInvariant, PlausibleInvariant, PeersInvariant
<1>3. Inv => OnePrimaryPerDay
  BY DEF PeersInv
<1> QED
  BY <1>1, <1>2, <1>3, TypeInit, JobInit, RowsInit, TypeInvariant, JobInvariant, PTL DEF Spec
-----------------------------------------------------------------------------
(* A day keeps an observation *)

Counts(q) == q \in primary \/ Prior(q)

\* The stored row of a ticker's day with the greatest conviction.
Best(b) == b \in Stored /\ \A p \in Stored : Peers(p, b) => Conviction[b.list] <= Conviction[p.list]

\* The best row counts, or is about to be stored again and will, or one that was
\* stored before it counts instead; that one is not decided again before the best.
KeptInv ==
  \A b \in Signals : Best(b) =>
    \/ Counts(b)
    \/ Waits(b)
    \/ /\ \E q \in Stored : Peers(q, b) /\ Counts(q)
       /\ \A q \in Stored : Peers(q, b) => ~Waits(q)

LEMMA BestExists ==
  ASSUME NEW s \in Stored
  PROVE  \E b \in Stored : Peers(b, s) /\ Best(b)
<1> DEFINE peers == {q \in Stored : Peers(q, s)}
           C == {Conviction[q.list] : q \in peers}
<1>1. C \in SUBSET Nat /\ C # {}
  BY ListsAssumption DEF ListsAssumption, Signals, Stored, Peers
<1>2. PICK c \in C : \A n \in C : c <= n
  BY <1>1, LeastNatural
<1>3. PICK b \in peers : c = Conviction[b.list]
  OBVIOUS
<1>4. \A q \in Stored : Peers(q, b) => q \in peers
  BY <1>3 DEF Peers
<1> QED
  BY <1>2, <1>3, <1>4 DEF Best

\* Steps that leave the rows and the results alone.
LEMMA KeptUntouched ==
  ASSUME KeptInv, UNCHANGED <<evaluated, primary, results>>
  PROVE  KeptInv'
<1>1. Stored' = Stored /\ \A s : Waits(s)' <=> Waits(s)
  BY DEF Stored, Waits
<1>2. \A q : (Counts(q)' <=> Counts(q)) /\ (Best(q)' <=> Best(q))
  BY <1>1 DEF Counts, Prior, Best, Peers
<1> QED
  BY <1>1, <1>2 DEF KeptInv, Peers

LEMMA ComputeKeepsKept ==
  ASSUME NothingMissing, TypeOK, JobInv, PeersInv, KeptInv, NEW d \in Days, ComputeOutcomes(d)
  PROVE  KeptInv'
<1>1. UNCHANGED <<listed, evaluated, primary>> /\ results = {}
  BY DEF ComputeOutcomes, rows
<1>2. Stored' = Stored /\ \A s : ~Waits(s)
  BY <1>1 DEF Stored, Waits
<1>3. \A q : (Counts(q)' <=> Counts(q)) /\ (Best(q)' <=> Best(q))
  BY <1>1, <1>2 DEF Counts, Prior, Best, Peers
<1> SUFFICES ASSUME NEW b \in Signals, Best(b), ~Counts(b), ~Waits(b)',
                    NEW q \in Stored, Peers(q, b), Waits(q)'
             PROVE  FALSE
  BY <1>2, <1>3 DEF KeptInv, Peers
<1>4. PICK r \in results' : r.signal = q
  BY DEF Waits
<1>5. b \in listed
  BY DEF Best, PeersInv
<1> QED
  BY <1>4, <1>5, PeersComputedTogether

LEMMA UpsertKeepsKept ==
  ASSUME "check" \notin Disturbances, TypeOK, JobInv, PeersInv, KeptInv,
         NEW r \in results, UpsertTradeOutcome(r)
  PROVE  KeptInv'
<1> DEFINE s == r.signal
<1>1. s \in Signals /\ s \in listed /\ r.days \in 1 .. Horizon /\ Waits(s)
  BY DEF TypeOK, JobInv, ResultsInv, Waits
<1>2. /\ evaluated' = [evaluated EXCEPT ![s] = r.days]
      /\ results' = results \ {r}
  BY DEF UpsertTradeOutcome
<1>3. Stored' = Stored \union {s}
  BY <1>1, <1>2 DEF Stored, TypeOK
<1>4. \A q : Waits(q)' <=> Waits(q) /\ q # s
  BY <1>2 DEF Waits, JobInv, ResultsInv
<1>5. \A q \in Signals : q.list \in Lists /\ Visited[q.list] \in Nat /\ Conviction[q.list] \in Nat
  BY ListsAssumption DEF ListsAssumption, Signals
<1>6. \A q : Waits(q) => Visited[s.list] <= Visited[q.list]
  BY DEF Waits, UpsertTradeOutcome, NextResult
<1>7. \A q : q # s /\ Counts(q) => Counts(q)'
  BY <1>3 DEF Counts, Prior, UpsertTradeOutcome
<1>8. Counts(s)' \/ CrossList(s)
  BY <1>3 DEF Counts, Prior, UpsertTradeOutcome, Verdicts
<1>9. \A p, q \in Signals : Peers(p, q) /\ p # q =>
         Visited[p.list] # Visited[q.list] /\ Conviction[p.list] # Conviction[q.list]
  BY <1>5, ListsAssumption DEF ListsAssumption, Signals, Peers
<1>10. Stored \subseteq Signals
  BY DEF Stored
<1> SUFFICES ASSUME NEW b \in Signals, Best(b)', ~Counts(b)', ~Waits(b)'
             PROVE  /\ \E q \in Stored' : Peers(q, b) /\ Counts(q)'
                    /\ \A q \in Stored' : Peers(q, b) => ~Waits(q)'
  BY DEF KeptInv, Peers
<1>11. CASE b = s
  <2>1. PICK best \in Stored : /\ Peers(best, s) /\ best.list # s.list
                               /\ \A p \in Stored : Peers(p, s) => Conviction[best.list] <= Conviction[p.list]
    BY <1>8, <1>11 DEF CrossList, Peers
  <2>2. Conviction[s.list] <= Conviction[best.list]
    BY <1>3, <1>11, <2>1 DEF Best, Peers
  <2>3. s \notin Stored
    BY <1>1, <1>5, <1>9, <1>10, <2>1, <2>2 DEF Peers
  <2>4. ASSUME NEW q \in Stored, Peers(q, s), Waits(q) PROVE FALSE
    BY <1>1, <1>5, <1>6, <1>9, <1>10, <2>3, <2>4 DEF PeersInv, InVisitedOrder
  <2>5. Best(best)
    BY <2>1 DEF Best, Peers
  <2>6. PICK q \in Stored : Peers(q, s) /\ Counts(q)
    BY <1>10, <2>1, <2>4, <2>5 DEF KeptInv, Peers
  <2> QED
    BY <1>3, <1>4, <1>7, <1>11, <2>3, <2>4, <2>6
<1>12. CASE b # s
  <2>1. b \in Stored /\ Best(b)
    BY <1>3, <1>12 DEF Best, Peers
  <2>2. PICK q \in Stored : Peers(q, b) /\ Counts(q)
    BY <1>4, <1>7, <1>12, <2>1 DEF KeptInv
  <2>3. \A p \in Stored : Peers(p, b) => ~Waits(p)
    BY <1>4, <1>7, <1>12, <2>1 DEF KeptInv
  <2>4. q # s
    BY <1>1, <2>2, <2>3
  <2> QED
    BY <1>3, <1>4, <1>7, <2>2, <2>3, <2>4
<1> QED
  BY <1>11, <1>12

LEMMA KeptInvariant ==
  ASSUME NothingMissing, Disturbances \intersect {"check", "stop"} = {},
         TypeOK, JobInv, AllPlausible, PeersInv, KeptInv, [Next]_vars
  PROVE  KeptInv'
<1>1. ASSUME NEW d \in Days, ComputeOutcomes(d) PROVE KeptInv'
  BY <1>1, ComputeKeepsKept
<1>2. ASSUME NEW r \in results PROVE ~Refuse(r)
  BY DEF Refuse, AllPlausible
<1>3. ASSUME NEW r \in results, UpsertTradeOutcome(r) PROVE KeptInv'
  BY <1>3, UpsertKeepsKept
<1>4. ~Stop /\ \A r \in results : ~UpsertFails(r)
  BY DEF Stop, UpsertFails
<1>5. CASE FlagDuplicates
  BY <1>5, KeptUntouched DEF FlagDuplicates, Leave
<1>6. CASE \/ NextDay \/ (\E d \in Days : RankAgain(d)) \/ (\E t \in Tickers : Ingest(t))
           \/ (\E date \in RunDates : RunTradeOutcomeJob(date))
           \/ RunNetReturnJob \/ Over \/ UNCHANGED vars
  BY <1>6, KeptUntouched
     DEF NextDay, RankAgain, Ingest, RunTradeOutcomeJob, RunNetReturnJob, Over, vars, rows, job
<1> QED
  BY <1>1, <1>2, <1>3, <1>4, <1>5, <1>6 DEF Next, JobStep

\* The lists never drop each other's rows of a ticker's day all together, in
\* whatever order they are stored and however often, under the hypothesis of the
\* theorem before and if no run is broken off: one that ends between two rows of a
\* day leaves both dropped until the date is computed again.
THEOREM DayKeepsObservationHolds ==
  ASSUME NothingMissing, Disturbances \intersect {"check", "stop"} = {}
  PROVE  Spec => []DayKeepsObservation
<1> DEFINE Inv == AllPlausible /\ PeersInv /\ KeptInv
<1>1. Init => Inv
  BY DEF Init, AllPlausible, PeersInv, InVisitedOrder, OnePrimaryPerDay, Stored, KeptInv, Best
<1>2. TypeOK /\ JobInv /\ RowsInv /\ Inv /\ [Next]_vars => RowsInv' /\ Inv'
  BY RowsInvariant, PlausibleInvariant, PeersInvariant, KeptInvariant
<1>3. JobInv /\ Inv => DayKeepsObservation
  <2> SUFFICES ASSUME JobInv, KeptInv, ~running, NEW s \in Stored
               PROVE  \E q \in Stored : Peers(q, s) /\ Counts(q)
    BY DEF DayKeepsObservation, Peers, Counts
  <2>1. \A q : ~Waits(q)
    BY DEF JobInv, PendingInv, Waits
  <2>2. PICK b \in Stored : Peers(b, s) /\ Best(b)
    BY BestExists
  <2>3. b \in Signals
    BY DEF Stored
  <2> QED
    BY <2>1, <2>2, <2>3 DEF KeptInv, Peers
<1> QED
  BY <1>1, <1>2, <1>3, TypeInit, JobInit, RowsInit, TypeInvariant, JobInvariant, PTL DEF Spec
=============================================================================
