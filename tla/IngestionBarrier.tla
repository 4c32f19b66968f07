-------------------------- MODULE IngestionBarrier --------------------------
(***************************************************************************)
(* What an IngestionHandle promises, without queues, workers or channels:  *)
(* a set of jobs, some of them critical, is accounted for one by one; a    *)
(* gate opens with the last critical one, and the run finishes with the    *)
(* last one.  A cancellation lets a run finish early.  A caller that waits *)
(* at the gate learns whether a critical job failed.                       *)
(***************************************************************************)
CONSTANT Tickers

VARIABLES
  begun,      \* the jobs are known
  critical,   \* the jobs the gate waits for
  all,        \* every job
  accounted,  \* jobs whose outcome is known
  failures,   \* those that ended in an error
  cancelled,  \* the run has been cancelled
  gate,       \* the gate is open
  finished,   \* nothing will be accounted for any more
  caller      \* what the caller at the gate was told

vars == <<begun, critical, all, accounted, failures, cancelled, gate, finished, caller>>

Init ==
  /\ begun = FALSE
  /\ critical = {} /\ all = {}
  /\ accounted = {} /\ failures = {}
  /\ cancelled = FALSE
  /\ gate = FALSE /\ finished = FALSE
  /\ caller = "none"

\* The jobs become known; without any the run is over.
Begin ==
  /\ ~begun
  /\ begun' = TRUE
  /\ all' \in SUBSET Tickers
  /\ critical' \in SUBSET all'
  /\ gate' = (all' = {})
  /\ finished' = (all' = {})
  /\ UNCHANGED <<accounted, failures, cancelled, caller>>

Cancel ==
  /\ cancelled' = TRUE
  /\ UNCHANGED <<begun, critical, all, accounted, failures, gate, finished, caller>>

\* The gate opens in the very step that accounts for the last critical job.
Account(t) ==
  /\ begun /\ ~finished
  /\ t \in all \ accounted
  /\ accounted' = accounted \union {t}
  /\ failures' \in {failures, failures \union {t}}
  /\ gate' = (gate \/ (t \in critical /\ critical \subseteq accounted'))
  /\ UNCHANGED <<begun, critical, all, cancelled, finished, caller>>

\* With nothing critical to wait for the gate opens by itself.
OpenGate ==
  /\ begun /\ critical = {}
  /\ gate' = TRUE
  /\ UNCHANGED <<begun, critical, all, accounted, failures, cancelled, finished, caller>>

Finish ==
  /\ begun
  /\ cancelled \/ accounted = all
  /\ gate' = TRUE /\ finished' = TRUE
  /\ UNCHANGED <<begun, critical, all, accounted, failures, cancelled, caller>>

Answer ==
  /\ begun /\ caller = "none"
  /\ \/ /\ gate
        /\ caller' = IF critical \intersect failures = {} THEN "nil" ELSE "failure"
     \/ /\ cancelled
        /\ caller' = "ctxErr"
  /\ UNCHANGED <<begun, critical, all, accounted, failures, cancelled, gate, finished>>

Next ==
  \/ Begin
  \/ Cancel
  \/ \E t \in Tickers : Account(t)
  \/ OpenGate
  \/ Finish
  \/ Answer

Spec == Init /\ [][Next]_vars
=============================================================================
