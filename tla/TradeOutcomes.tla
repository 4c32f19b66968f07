---------------------------- MODULE TradeOutcomes ----------------------------
(***************************************************************************)
(* What became of the signals: every night the outcome job finds the       *)
(* signal dates that are not fully evaluated, reads the candles that have  *)
(* arrived since, and upserts one row per signal with its returns and its  *)
(* deduplication flags; the net-return job fills further columns.  A date  *)
(* is evaluated again night after night until every row of it has its      *)
(* full horizon, so a row is decided many times, each time against the     *)
(* rows that happen to be stored.                                          *)
(*                                                                         *)
(* Days are trading days; a ticker's candles are all those up to its       *)
(* latest one.  Returns are abstracted to the number of candles they rest  *)
(* on and to whether they are plausible.                                   *)
(*                                                                         *)
(* An operator introduced as "Mutant:" is a plausible wrong version of the *)
(* definition after it.                                                    *)
(***************************************************************************)
EXTENDS Integers

CONSTANTS
  Tickers,
  Visited,          \* Visited[l]: the place of list l in ORDER BY list_type
  Conviction,       \* Conviction[l]: its place in leaders > momentum > ep
  Horizon,          \* candles of a complete evaluation (20)
  PrimaryWindow,    \* PrimaryWindowDays (20)
  DuplicateWindow,  \* duplicateWindowDays (3)
  FirstNet,         \* candles that a net return needs (5)
  Lookback,         \* how far back the job looks for dates
  MaxDay,           \* bound of the model: the last day
  Disturbances      \* what may go wrong, see below

\* "fetch": the candles of a signal cannot be read; "check": a query of the
\* deduplication fails; "verdict": returns may be implausible; "mark": a flag
\* is not written; "snapshot": a net return cannot be computed; "stop": the job
\* aborts or the process dies; "background": candles arrive while the job runs;
\* "override": the run is repeated for an earlier date (--date).
AllDisturbances ==
  {"fetch", "check", "verdict", "mark", "snapshot", "stop", "background", "override"}

Lists == DOMAIN Visited

ASSUME ListsAssumption ==
  /\ Visited \in [Lists -> Nat] /\ Conviction \in [Lists -> Nat]
  /\ \A k, l \in Lists : Visited[k] = Visited[l] \/ Conviction[k] = Conviction[l] => k = l
ASSUME NumbersAssumption ==
  /\ Horizon \in Nat \ {0} /\ FirstNet \in 1 .. Horizon
  /\ {PrimaryWindow, DuplicateWindow, Lookback, MaxDay} \subseteq Nat
ASSUME DisturbancesAssumption == Disturbances \subseteq AllDisturbances

VARIABLES
  today,       \* the day
  listed,      \* daily_rank_lists: the signals published so far
  latest,      \* latest[t]: the newest day of t in candles_daily
  evaluated,   \* evaluated[s]: evaluated_days of s's row, 0 if it has none
  primary,     \* rows with is_primary_observation
  crossDup,    \* rows with cross_list_duplicate
  duplicate,   \* rows with is_duplicate_signal
  net,         \* net[s]: the candles on which s's net returns rest, 0 if NULL
  running,     \* the outcome job runs
  runDate,     \* the date it runs for
  pending,     \* the dates it has still to compute
  results      \* computed results of one date, still to be stored

rows == <<evaluated, primary, crossDup, duplicate, net>>
job  == <<running, runDate, pending, results>>
vars == <<today, listed, latest, rows, job>>

Days == 1 .. MaxDay
Signals == [day : Days, list : Lists, ticker : Tickers]

Init ==
  /\ today = 0 /\ listed = {}
  /\ latest = [t \in Tickers |-> 0]
  /\ evaluated = [s \in Signals |-> 0]
  /\ primary = {} /\ crossDup = {} /\ duplicate = {}
  /\ net = [s \in Signals |-> 0]
  /\ running = FALSE /\ runDate = 0 /\ pending = {} /\ results = {}

Lesser(m, n) == IF m < n THEN m ELSE n

\* In a run without the disturbance d, nothing but the whole set.
Part(d, S) == IF d \in Disturbances THEN SUBSET S ELSE {S}

-----------------------------------------------------------------------------
(* The day, and the steps before the job *)

\* The date of a run: today, or the one given with --date.
RunDates == IF "override" \in Disturbances THEN 1 .. today ELSE {today}

\* A new day with its published lists.
NextDay ==
  /\ ~running /\ today < MaxDay
  /\ today' = today + 1
  /\ \E new \in SUBSET {s \in Signals : s.day = today + 1} : listed' = listed \union new
  /\ UNCHANGED <<latest, rows, job>>

\* A rerun ranks further tickers of its date; no row of a list is ever deleted.
RankAgain(d) ==
  /\ ~running /\ d \in RunDates \ {today}
  /\ \E new \in SUBSET {s \in Signals \ listed : s.day = d} :
       /\ new # {}
       /\ listed' = listed \union new
  /\ UNCHANGED <<today, latest, rows, job>>

\* A ticker's candles up to today, with those missed before.
Ingest(t) ==
  /\ running => "background" \in Disturbances
  /\ latest[t] < today
  /\ latest' = [latest EXCEPT ![t] = today]
  /\ UNCHANGED <<today, listed, rows, job>>

-----------------------------------------------------------------------------
(* The outcome job *)

\* Mutant: complete dates are taken too.
PendingAlways(date) ==
  {d \in Days : date - Lookback <= d /\ d < date /\ \E s \in listed : s.day = d}

\* Mutant: only dates with a missing row.
PendingMissing(date) ==
  {d \in Days :
     /\ date - Lookback <= d /\ d < date
     /\ \E s \in listed : s.day = d /\ evaluated[s] = 0}

\* Mutant: looks back for less than the horizon.
PendingShort(date) ==
  {d \in Days :
     /\ date - Horizon < d /\ d < date
     /\ \E s \in listed : s.day = d /\ evaluated[s] < Horizon}

\* Dates before the run's, not too old, with a row missing or incomplete.
Pending(date) ==
  {d \in Days :
     /\ date - Lookback <= d /\ d < date
     /\ \E s \in listed : s.day = d /\ evaluated[s] < Horizon}

\* Without a pending date the job returns at once.
RunTradeOutcomeJob(date) ==
  /\ ~running /\ Pending(date) # {}
  /\ running' = TRUE /\ runDate' = date
  /\ pending' = Pending(date)
  /\ UNCHANGED <<today, listed, latest, rows, results>>

\* Mutant: not capped at the horizon.
TrackingUncapped(s, cutoff) ==
  LET last == Lesser(latest[s.ticker], cutoff)
  IN  IF last <= s.day THEN 0 ELSE last - s.day

\* The candles after the signal's day and not after the cutoff.
Tracking(s, cutoff) ==
  LET last == Lesser(latest[s.ticker], cutoff)
  IN  IF last <= s.day THEN 0 ELSE Lesser(Horizon, last - s.day)

\* The results of the signals whose candles were read.
Results(read, bad) ==
  {[signal |-> s, days |-> Tracking(s, runDate), plausible |-> s \notin bad] : s \in read}

\* Oldest date first.  A signal without a candle for its entry has no result.
ComputeOutcomes(d) ==
  LET evaluable == {s \in listed : s.day = d /\ Tracking(s, runDate) > 0}
  IN  /\ running /\ results = {}
      /\ d \in pending /\ \A e \in pending : d <= e
      /\ pending' = pending \ {d}
      /\ \E read \in Part("fetch", evaluable), bad \in SUBSET evaluable :
           /\ bad # {} => "verdict" \in Disturbances
           /\ results' = Results(read, bad)
      /\ UNCHANGED <<today, listed, latest, rows, running, runDate>>

Stored == {s \in Signals : evaluated[s] > 0}

\* GetPriorPrimaryObservation: any row of the list, primary or not, that is not
\* older than the PrimaryWindow + 1 candles before s.
Prior(s) ==
  \E p \in Stored : /\ p.ticker = s.ticker /\ p.list = s.list
                    /\ p.day < s.day /\ s.day - p.day <= PrimaryWindow + 1

\* Mutant: without the ORDER BY, a stored row finds itself.
CrossListUnordered(s) ==
  s \notin Stored /\ \E p \in Stored : p.ticker = s.ticker /\ p.day = s.day

\* Mutant: the query leaves out the rows of s's own list.
CrossListOthers(s) ==
  \E p \in Stored : p.ticker = s.ticker /\ p.day = s.day /\ p.list # s.list

\* The best of the stored rows of the ticker and day, s's own included, is of
\* another list.
CrossList(s) ==
  LET peers == {p \in Stored : p.ticker = s.ticker /\ p.day = s.day}
  IN  \E best \in peers : /\ best.list # s.list
                          /\ \A p \in peers : Conviction[best.list] <= Conviction[p.list]

\* What the two checks may tell of s: "primary", or why not.  A check that
\* fails is logged and the row stays primary.
Verdicts(s) ==
  (IF Prior(s) THEN {"repeated"} ELSE IF CrossList(s) THEN {"crossList"} ELSE {"primary"})
    \union (IF "check" \in Disturbances
            THEN {"primary"} \union (IF CrossList(s) THEN {"crossList"} ELSE {})
            ELSE {})

\* MarkCrossListDuplicate, an update of the row if there is one.
MarkCrossListDuplicate(s, verdict) ==
  IF verdict = "crossList" /\ s \in Stored
  THEN crossDup' = crossDup \union {s} /\ primary' = primary \ {s}
  ELSE UNCHANGED <<crossDup, primary>>

\* Results are stored list by list.
NextResult(r) ==
  /\ running /\ r \in results
  /\ \A q \in results : Visited[r.signal.list] <= Visited[q.signal.list]

\* Mutant: the row of the earlier evaluation is deleted.
RefuseDeletes(r) ==
  /\ NextResult(r) /\ ~r.plausible
  /\ evaluated' = [evaluated EXCEPT ![r.signal] = 0]
  /\ results' = results \ {r}
  /\ UNCHANGED <<today, listed, latest, primary, crossDup, duplicate, net,
                 running, runDate, pending>>

\* An implausible result is meant for trade_outcomes_quarantine.  The table has no
\* unique index for the statement's ON CONFLICT clause: it always fails, and the
\* error is logged.  The row of an earlier evaluation stays.
Refuse(r) ==
  /\ NextResult(r) /\ ~r.plausible
  /\ \E v \in Verdicts(r.signal) : MarkCrossListDuplicate(r.signal, v)
  /\ results' = results \ {r}
  /\ UNCHANGED <<today, listed, latest, evaluated, duplicate, net, running, runDate, pending>>

\* Mutant: the upsert's SET list lacks cross_list_duplicate.
UpsertKeepsCrossDup(r) ==
  LET s == r.signal
  IN  /\ NextResult(r) /\ r.plausible
      /\ evaluated' = [evaluated EXCEPT ![s] = r.days]
      /\ \E v \in Verdicts(s) :
           /\ primary' = IF v = "primary" THEN primary \union {s} ELSE primary \ {s}
           /\ crossDup' = IF v = "crossList" THEN crossDup \union {s} ELSE crossDup
      /\ duplicate' = duplicate \ {s}
      /\ results' = results \ {r}
      /\ UNCHANGED <<today, listed, latest, net, running, runDate, pending>>

\* The row is inserted or replaced, but for its net returns.  The statement
\* names no value for is_duplicate_signal, so EXCLUDED holds the column's
\* default and the flag is reset.
UpsertTradeOutcome(r) ==
  LET s == r.signal
  IN  /\ NextResult(r) /\ r.plausible
      /\ evaluated' = [evaluated EXCEPT ![s] = r.days]
      /\ \E v \in Verdicts(s) :
           /\ primary' = IF v = "primary" THEN primary \union {s} ELSE primary \ {s}
           /\ crossDup' = IF v = "crossList" THEN crossDup \union {s} ELSE crossDup \ {s}
      /\ duplicate' = duplicate \ {s}
      /\ results' = results \ {r}
      /\ UNCHANGED <<today, listed, latest, net, running, runDate, pending>>

Leave == running' = FALSE /\ pending' = {} /\ results' = {} /\ UNCHANGED runDate

\* An upsert that fails aborts the job, after the flag was written.
UpsertFails(r) ==
  /\ "stop" \in Disturbances
  /\ NextResult(r) /\ r.plausible
  /\ \E v \in Verdicts(r.signal) : MarkCrossListDuplicate(r.signal, v)
  /\ Leave
  /\ UNCHANGED <<today, listed, latest, evaluated, duplicate, net>>

\* FindDuplicateSignals: a row not yet flagged, DuplicateWindow candles or less
\* after a row of its ticker that is still open, of whatever list.
DuplicateSignals ==
  {s \in Stored \ duplicate :
     \E older \in Stored : /\ older.ticker = s.ticker /\ older.day < s.day
                           /\ s.day - older.day <= DuplicateWindow
                           /\ evaluated[older] < Horizon}

\* The last step of the job.  An update that fails is logged.
FlagDuplicates ==
  /\ running /\ pending = {} /\ results = {}
  /\ \E marked \in Part("mark", DuplicateSignals) : duplicate' = duplicate \union marked
  /\ Leave
  /\ UNCHANGED <<today, listed, latest, evaluated, primary, crossDup, net>>

\* Any other error, a cancellation or the end of the process.
Stop ==
  /\ "stop" \in Disturbances
  /\ running /\ Leave
  /\ UNCHANGED <<today, listed, latest, rows>>

-----------------------------------------------------------------------------
(* The net-return job *)

\* Mutant: rows are taken from their first candle on.
RunNetReturnJobEarly ==
  LET due == {s \in Stored : net[s] = 0}
  IN  /\ ~running /\ due # {}
      /\ \E done \in Part("snapshot", due) :
           net' = [s \in Signals |-> IF s \in done THEN FirstNet ELSE net[s]]
      /\ UNCHANGED <<today, listed, latest, evaluated, primary, crossDup, duplicate, job>>

\* Rows with a net return are skipped; each of the others gets the net returns
\* of the horizons it has reached.
RunNetReturnJob ==
  LET due == {s \in Signals : evaluated[s] >= FirstNet /\ net[s] = 0}
  IN  /\ ~running /\ due # {}
      /\ \E done \in Part("snapshot", due) :
           net' = [s \in Signals |-> IF s \in done THEN evaluated[s] ELSE net[s]]
      /\ UNCHANGED <<today, listed, latest, evaluated, primary, crossDup, duplicate, job>>

-----------------------------------------------------------------------------

JobStep ==
  \/ \E d \in Days : ComputeOutcomes(d)
  \/ \E r \in results : Refuse(r) \/ UpsertTradeOutcome(r) \/ UpsertFails(r)
  \/ FlagDuplicates

\* The model's last day.
Over == today = MaxDay /\ ~running /\ UNCHANGED vars

Next ==
  \/ NextDay
  \/ \E d \in Days : RankAgain(d)
  \/ \E t \in Tickers : Ingest(t)
  \/ \E date \in RunDates : RunTradeOutcomeJob(date)
  \/ JobStep
  \/ Stop
  \/ RunNetReturnJob
  \/ Over

\* The nightly run starts the job, and the job, a sequential loop over calls that
\* end, goes on.  Days pass and candles arrive although the model stops both
\* while the job runs: it is started a few times a day and runs for minutes.
Fairness ==
  /\ SF_vars(NextDay)
  /\ \A t \in Tickers : SF_vars(Ingest(t))
  /\ WF_vars(RunTradeOutcomeJob(today))
  /\ WF_vars(JobStep)

Spec == Init /\ [][Next]_vars /\ Fairness

-----------------------------------------------------------------------------
(* Properties *)

TypeOK ==
  /\ today \in 0 .. MaxDay
  /\ listed \subseteq Signals /\ latest \in [Tickers -> 0 .. MaxDay]
  /\ evaluated \in [Signals -> 0 .. Horizon] /\ net \in [Signals -> 0 .. Horizon]
  /\ primary \subseteq Signals /\ crossDup \subseteq Signals /\ duplicate \subseteq Signals
  /\ running \in BOOLEAN /\ runDate \in 0 .. MaxDay /\ pending \subseteq Days
  /\ results \subseteq [signal : Signals, days : 1 .. Horizon, plausible : BOOLEAN]

HasTwin(s) ==
  \E p \in Stored : p.ticker = s.ticker /\ p.day = s.day /\ p.list # s.list

\* No observation leaves the statistics without a reason that can be read from
\* the tables, whatever query fails and wherever the job is interrupted: a row
\* that is not primary is either flagged as the duplicate of another list's row,
\* or repeats a stored row of its list; and a flagged row is never primary.
DroppedForAReason ==
  /\ primary \intersect crossDup = {}
  /\ \A s \in Stored \ primary : IF s \in crossDup THEN HasTwin(s) ELSE Prior(s)

\* A date whose rows are all complete.
Settled(d) == \A s \in listed : s.day = d => evaluated[s] = Horizon

\* Once every row of a date is complete, no later run takes that back, not even
\* one for an earlier date or one that was interrupted, unless further signals
\* of the date are published.
SettledStays ==
  [][\A d \in Days :
       Settled(d) => Settled(d)' \/ \E s \in listed' \ listed : s.day = d]_vars

\* Only a run for an earlier date leaves a row with fewer candles than before.
NeverRegress ==
  [][\A s \in Signals : evaluated[s] <= evaluated'[s] \/ runDate < today]_vars

\* A row has net returns only for horizons it has gross returns for, although
\* the two jobs write different columns of it on different nights.
NetWithinGross == \A s \in Signals : net[s] = 0 \/ net[s] \in FirstNet .. evaluated[s]

\* With every query answered, at most one of a ticker's rows of a day is
\* primary, at every moment of every night, whatever list is stored first.
OnePrimaryPerDay ==
  \A s, q \in primary : s.ticker = q.ticker /\ s.day = q.day => s = q

\* Between two runs the rows of a ticker's day are not all dropped for each other:
\* one of them counts, or repeats an earlier row of its list.  The better list's row
\* is stored second and dropped for the first one; the next night drops the first
\* one before the second is taken back.
DayKeepsObservation ==
  ~running =>
    \A s \in Stored :
      \E q \in Stored : /\ q.ticker = s.ticker /\ q.day = s.day
                        /\ q \in primary \/ Prior(q)

\* A run that gets to its end has evaluated every signal it looks back to as
\* far as the candles go.
CompletedRunIsComplete ==
  [][FlagDuplicates =>
       \A s \in listed : s.day \in runDate - Lookback .. runDate - 1 =>
         evaluated[s] = Tracking(s, runDate)]_vars

\* Every signal is completely evaluated in the end, if days go on long enough.
EverySignalSettles ==
  \A d \in Days : d + Horizon <= MaxDay => <>[](today = MaxDay /\ Settled(d))
=============================================================================
