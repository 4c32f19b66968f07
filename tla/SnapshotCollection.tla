------------------------- MODULE SnapshotCollection -------------------------
(***************************************************************************)
(* How screener data enters the system: a caller (the nightly run) posts   *)
(* /run to tv-collector, which admits one collection at a time, runs the   *)
(* three screeners and posts one payload to the API with retries; the      *)
(* API's handler stores it in three tables, statement by statement; the    *)
(* caller then looks for today's rows.                                     *)
(*                                                                         *)
(* A caller triggers once and its name is also the name of the collection  *)
(* it starts.  Rows are abstracted to the screeners that returned some.    *)
(* A request the collector has given up on goes on in the API until its    *)
(* context is seen to be cancelled, which the model leaves open: each of   *)
(* its statements may succeed or fail.                                     *)
(*                                                                         *)
(* An operator introduced as "Mutant:" is a plausible wrong version of the *)
(* definition after it.                                                    *)
(***************************************************************************)
EXTENDS Integers, Sequences

CONSTANTS
  Callers,     \* clients that trigger a collection, one each
  MaxRetries,  \* MAX_RETRIES of the backend client
  Order,       \* the screeners, in the order in which the handler writes them
  Nobody       \* no caller

\* A handler's position: "none" no request yet, "store" before the snapshot,
\* "tickers" before the tickers, a screener before its rows; then its answer.
Answers == {"created", "failed"}

ASSUME CallersAssumption == Nobody \notin Callers
ASSUME RetriesAssumption == MaxRetries \in Nat \ {0}
ASSUME OrderAssumption ==
  /\ Order \in Seq({Order[i] : i \in DOMAIN Order}) /\ Order # <<>>
  /\ \A i \in DOMAIN Order : Order[i] \notin {"none", "store", "tickers"} \union Answers
  /\ \A i, j \in DOMAIN Order : Order[i] = Order[j] => i = j

VARIABLES
  runLock,   \* who holds _run_lock
  stage,     \* stage[c]: where c's collection is
  told,      \* told[c]: what TriggerCollection returned to c
  conflict,  \* conflict[c]: the collection that c was answered 409 for
  checked,   \* checked[c]: c has gone on to its snapshot check
  rows,      \* rows[c]: the screeners that returned rows
  fresh,     \* fresh[c]: those with a ticker that only this payload brings in
  attempt,   \* attempt[c]: the POST the backend client is at
  handler,   \* handler[c][n]: the API's request for attempt n of c
  stored,    \* collections whose payload market_snapshots has held for today
  known,     \* collections whose tickers have been upserted
  tvRows     \* tvRows[s]: the collection that last wrote rows of screener s

callerVars    == <<told, conflict, checked>>
collectorVars == <<runLock, stage, rows, fresh, attempt>>
tables        == <<stored, known, tvRows>>
vars == <<callerVars, collectorVars, handler, tables>>

Screeners == {Order[i] : i \in DOMAIN Order}

Attempts == 1 .. MaxRetries

Init ==
  /\ runLock = Nobody
  /\ stage = [c \in Callers |-> "idle"]
  /\ told = [c \in Callers |-> "none"]
  /\ conflict = [c \in Callers |-> Nobody]
  /\ checked = [c \in Callers |-> FALSE]
  /\ rows = [c \in Callers |-> {}]
  /\ fresh = [c \in Callers |-> {}]
  /\ attempt = [c \in Callers |-> 0]
  /\ handler = [c \in Callers |-> [n \in Attempts |-> "none"]]
  /\ stored = {} /\ known = {}
  /\ tvRows = [s \in Screeners |-> Nobody]

Running(c) == stage[c] \in {"collecting", "ready", "waiting"}

-----------------------------------------------------------------------------
(* The caller: TriggerCollection and the steps after it *)

\* Mutant: does not look at the lock.
TriggerUnlocked(c) ==
  /\ stage[c] = "idle" /\ told[c] = "none"
  /\ runLock' = c
  /\ stage' = [stage EXCEPT ![c] = "collecting"]
  /\ UNCHANGED <<callerVars, rows, fresh, attempt, handler, tables>>

\* POST /run: the lock is taken without blocking, or the answer is 409, which
\* the client takes for success.
Trigger(c) ==
  /\ stage[c] = "idle" /\ told[c] = "none"
  /\ IF runLock = Nobody
     THEN /\ runLock' = c
          /\ stage' = [stage EXCEPT ![c] = "collecting"]
          /\ UNCHANGED <<told, conflict>>
     ELSE /\ told' = [told EXCEPT ![c] = "ok"]
          /\ conflict' = [conflict EXCEPT ![c] = runLock]
          /\ UNCHANGED <<runLock, stage>>
  /\ UNCHANGED <<checked, rows, fresh, attempt, handler, tables>>

\* The client's ten minutes are over, its context is cancelled or the
\* connection is lost; the collector goes on.  (A caller that never reaches the
\* collector is as one that has not triggered.)
GiveUp(c) ==
  /\ told[c] = "none" /\ Running(c)
  /\ told' = [told EXCEPT ![c] = "error"]
  /\ UNCHANGED <<conflict, checked, collectorVars, handler, tables>>

\* The caller's next steps read today's rows: snapshot check, TV tickers.
CheckSnapshot(c) ==
  /\ told[c] = "ok" /\ ~checked[c]
  /\ checked' = [checked EXCEPT ![c] = TRUE]
  /\ UNCHANGED <<told, conflict, collectorVars, handler, tables>>

-----------------------------------------------------------------------------
(* The collector: run_daily_job under the lock *)

\* /run answers and releases the lock, on every path.
Answer(c, result) ==
  /\ runLock' = Nobody
  /\ stage' = [stage EXCEPT ![c] = "done"]
  /\ told' = IF told[c] = "none" THEN [told EXCEPT ![c] = result] ELSE told

\* The screeners, each isolated from the others' failures.  The CSV files that
\* are saved before the payload is sent are never read.
Screen(c) ==
  /\ stage[c] = "collecting"
  /\ rows' \in {[rows EXCEPT ![c] = R] : R \in SUBSET Screeners}
  /\ fresh' \in {[fresh EXCEPT ![c] = F] : F \in SUBSET rows'[c]}
  /\ stage' = [stage EXCEPT ![c] = "ready"]
  /\ UNCHANGED <<callerVars, runLock, attempt, handler, tables>>

\* Mutant: the lock is released on success only.
CollectionRaisesLocked(c) ==
  /\ stage[c] = "collecting"
  /\ stage' = [stage EXCEPT ![c] = "done"]
  /\ told' = IF told[c] = "none" THEN [told EXCEPT ![c] = "error"] ELSE told
  /\ UNCHANGED <<conflict, checked, runLock, rows, fresh, attempt, handler, tables>>

\* Anything else that raises: 500.
CollectionRaises(c) ==
  /\ stage[c] = "collecting"
  /\ Answer(c, "error")
  /\ UNCHANGED <<conflict, checked, rows, fresh, attempt, handler, tables>>

\* POST /api/v1/market-snapshots, or a connection that cannot be made.
Post(c) ==
  /\ stage[c] = "ready"
  /\ attempt' = [attempt EXCEPT ![c] = @ + 1]
  /\ stage' = [stage EXCEPT ![c] = "waiting"]
  /\ handler' \in {handler, [handler EXCEPT ![c][attempt[c] + 1] = "store"]}
  /\ UNCHANGED <<callerVars, runLock, rows, fresh, tables>>

Response(c) == handler[c][attempt[c]]

\* 201: the send returns and /run answers 200.
Delivered(c) ==
  /\ stage[c] = "waiting" /\ Response(c) = "created"
  /\ Answer(c, "ok")
  /\ UNCHANGED <<conflict, checked, rows, fresh, attempt, handler, tables>>

\* Mutant: the last attempt is retried too.
RetryOnceMore(c) ==
  /\ stage[c] = "waiting" /\ attempt[c] <= MaxRetries
  /\ stage' = [stage EXCEPT ![c] = "ready"]
  /\ UNCHANGED <<callerVars, runLock, rows, fresh, attempt, handler, tables>>

\* A transient error - no connection, 30 seconds without an answer, a closed
\* connection, a retryable status - is retried after a pause.  The answer may
\* have been lost on the way, so what it was does not matter.
Retry(c) ==
  /\ stage[c] = "waiting" /\ attempt[c] < MaxRetries
  /\ stage' = [stage EXCEPT ![c] = "ready"]
  /\ UNCHANGED <<callerVars, runLock, rows, fresh, attempt, handler, tables>>

\* The last attempt, a 4xx or any other exception ends in BackendClientError,
\* which run_daily_job logs: /run answers 200 all the same.
SendFails(c) ==
  /\ stage[c] = "waiting"
  /\ Answer(c, "ok")
  /\ UNCHANGED <<conflict, checked, rows, fresh, attempt, handler, tables>>

\* The service restarts: the lock and the collection are gone, and the caller's
\* connection with them.
Restart(c) ==
  /\ runLock = c
  /\ Answer(c, "error")
  /\ UNCHANGED <<conflict, checked, rows, fresh, attempt, handler, tables>>

-----------------------------------------------------------------------------
(* The API: postMarketSnapshot *)

\* The position after the one for the i-th screener's rows.
After(i) == IF i = Len(Order) THEN "created" ELSE Order[i + 1]

\* Mutant: a failed upsert is best-effort too.
StoreFailsTolerated(c, n) ==
  /\ handler[c][n] = "store"
  /\ handler' = [handler EXCEPT ![c][n] = "tickers"]
  /\ UNCHANGED <<callerVars, collectorVars, tables>>

\* The body is not accepted, or the snapshot's upsert fails: 400 or 500.
StoreFails(c, n) ==
  /\ handler[c][n] = "store"
  /\ handler' = [handler EXCEPT ![c][n] = "failed"]
  /\ UNCHANGED <<callerVars, collectorVars, tables>>

\* It replaces today's row.
Store(c, n) ==
  /\ handler[c][n] = "store"
  /\ handler' = [handler EXCEPT ![c][n] = "tickers"]
  /\ stored' = stored \union {c}
  /\ UNCHANGED <<callerVars, collectorVars, known, tvRows>>

\* A panic, which the middleware answers with 500, or a restart of the API:
\* what was written stays.
Abort(c, n) ==
  /\ handler[c][n] \in {"tickers"} \union Screeners
  /\ handler' = [handler EXCEPT ![c][n] = "failed"]
  /\ UNCHANGED <<callerVars, collectorVars, tables>>

\* The tickers of all three screeners, best-effort.
UpsertTickers(c, n) ==
  /\ handler[c][n] = "tickers"
  /\ handler' = [handler EXCEPT ![c][n] = Order[1]]
  /\ known' \in {known, known \union {c}}
  /\ UNCHANGED <<callerVars, collectorVars, stored, tvRows>>

\* One screener's rows, best-effort; the foreign key asks for their tickers.
InsertRows(c, n, i) ==
  /\ handler[c][n] = Order[i]
  /\ handler' = [handler EXCEPT ![c][n] = After(i)]
  /\ \/ /\ Order[i] \in rows[c]
        /\ Order[i] \in fresh[c] => c \in known
        /\ tvRows' = [tvRows EXCEPT ![Order[i]] = c]
     \/ UNCHANGED tvRows
  /\ UNCHANGED <<callerVars, collectorVars, stored, known>>

-----------------------------------------------------------------------------

Collect(c) ==
  \/ Screen(c)
  \/ CollectionRaises(c)
  \/ Post(c)
  \/ Delivered(c)
  \/ Retry(c)
  \/ SendFails(c)

Handle(c, n) ==
  \/ StoreFails(c, n)
  \/ Store(c, n)
  \/ Abort(c, n)
  \/ UpsertTickers(c, n)
  \/ \E i \in DOMAIN Order : InsertRows(c, n, i)

\* Every caller has its answer and every collection is over.
Settled ==
  /\ runLock = Nobody
  /\ \A c \in Callers : told[c] # "none" /\ (told[c] = "ok" => checked[c])
  /\ \A c \in Callers, n \in Attempts : handler[c][n] \in Answers \union {"none"}
  /\ UNCHANGED vars

Next ==
  \/ \E c \in Callers : \/ Trigger(c)
                        \/ GiveUp(c)
                        \/ CheckSnapshot(c)
                        \/ Collect(c)
                        \/ Restart(c)
                        \/ \E n \in Attempts : Handle(c, n)
  \/ Settled

\* The collector's thread goes on: every screener call and every POST has a
\* timeout.  Nothing is assumed of the API or of the callers.
Fairness == \A c \in Callers : WF_vars(Collect(c))

Spec == Init /\ [][Next]_vars /\ Fairness

-----------------------------------------------------------------------------
(* Properties *)

TypeOK ==
  /\ runLock \in Callers \union {Nobody}
  /\ stage \in [Callers -> {"idle", "collecting", "ready", "waiting", "done"}]
  /\ told \in [Callers -> {"none", "ok", "error"}]
  /\ conflict \in [Callers -> Callers \union {Nobody}]
  /\ checked \in [Callers -> BOOLEAN]
  /\ rows \in [Callers -> SUBSET Screeners]
  /\ fresh \in [Callers -> SUBSET Screeners]
  /\ attempt \in [Callers -> 0 .. MaxRetries]
  /\ handler \in [Callers -> [Attempts -> {"none", "store", "tickers"} \union Screeners \union Answers]]
  /\ stored \subseteq Callers /\ known \subseteq Callers
  /\ tvRows \in [Screeners -> Callers \union {Nobody}]

\* The lock is held exactly by the collection that runs: two nightly runs never
\* collect at once, and no way out of /run leaves the lock behind.
OneCollection == \A c \in Callers : Running(c) <=> runLock = c

\* The tables are written in the handler's order, whatever requests overlap,
\* fail or are repeated: no ticker and no row comes from a payload that
\* market_snapshots never held, and an answer of 201 means that it held it.
SnapshotFirst ==
  /\ known \subseteq stored
  /\ \A s \in Screeners : tvRows[s] = Nobody \/ tvRows[s] \in stored
  /\ \A c \in Callers, n \in Attempts : handler[c][n] = "created" => c \in stored

\* A caller that was told "ok" without a 409 finds its collection over.
OkMeansOver ==
  \A c \in Callers : told[c] = "ok" /\ conflict[c] = Nobody => stage[c] = "done"

\* What the Go client says of a 409: "the ongoing run will populate today's snapshot
\* data before Step 2 (fundamentals) needs it".  A caller that goes on to step 2
\* finds the collection it was answered 409 for at least over, successful or not.
ConflictIsSettled ==
  \A c \in Callers : checked[c] /\ conflict[c] # Nobody => stage[conflict[c]] = "done"

\* A collection ends: the service is free again for the next trigger, whatever
\* fails, hangs or restarts.
LockFreed == runLock # Nobody ~> runLock = Nobody
=============================================================================
