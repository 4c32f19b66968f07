---------------------------- MODULE PromptMemory ----------------------------
(***************************************************************************)
(* prompt_memory: a recommendation is stored as pending and gets its       *)
(* verdict from the attributed row of its date and ticker.  Nothing but    *)
(* the tests calls StoreMemories; the verdicts are the last step of the    *)
(* nightly run.                                                            *)
(***************************************************************************)
EXTENDS PromptExperiments

CONSTANTS
  VerdictAfter,  \* days before a verdict (7 calendar days)
  GiveUpAfter    \* days after which a memory without outcome is given up (30)

ASSUME MemoryAssumption == {VerdictAfter, GiveUpAfter} \subseteq Nat

VARIABLE memory  \* prompt_memory: [status, ret, stop, target], by date and ticker

PendingMemory == [status |-> "pending", ret |-> "null", stop |-> "null", target |-> "null"]

\* A memory that is stored again loses its verdict.
UpsertMemory(date, embedded) == Upserted(memory, [k \in {date} \X embedded |-> PendingMemory])

\* Whether the parser called its reading a success is not asked.
StoreMemories(date) ==
  /\ run.pc = "idle" /\ GetEvaluationsByDate(date) # {}
  /\ \E embedded \in SUBSET DOMAIN evaluations[date].picks \ {{}} :
       memory' = UpsertMemory(date, embedded)
  /\ UNCHANGED <<today, candles, evaluations, outcomes, pto, run, results>>

GetPendingOutcomes == {k \in DOMAIN memory : memory[k].status = "pending"}

Flag(exit, hit) == IF exit.type = "none" THEN "null" ELSE IF hit THEN "yes" ELSE "no"

\* Mutant: a row without the five-day return will do.
MatchAnyAge(k) == {j \in GetByDateRange(k[1], k[1]) : j[2] = k[2]}

\* The row of the memory's date and ticker, if it has the five-day return.
Matched(k) == {j \in GetByDateRange(k[1], k[1]) : j[2] = k[2] /\ pto[j].days >= FiveDays}

\* What becomes of a memory that is old enough.
Verdict(k) ==
  IF Matched(k) # {}
  THEN LET row == pto[CHOOSE j \in Matched(k) : TRUE]
       IN  [status |-> "verified", ret |-> row.ret,
            stop |-> Flag(row.exit, row.exit.type = "stop"),
            target |-> Flag(row.exit, row.exit.type # "none" /\ row.exit.t1Hit)]
  ELSE IF today - k[1] > GiveUpAfter
       THEN [PendingMemory EXCEPT !.status = "insufficient_data"]
       ELSE memory[k]

UpdateOutcome(done) == Upserted(memory, [k \in done |-> Verdict(k)])

\* Each memory by itself; a lookup or an update that fails is logged.
UpdateOutcomes ==
  /\ run.pc = "memory"
  /\ \E done \in SUBSET {k \in GetPendingOutcomes : today - k[1] >= VerdictAfter} :
       memory' = UpdateOutcome(done)
  /\ run' = [run EXCEPT !.pc = "idle"]
  /\ UNCHANGED <<today, candles, evaluations, outcomes, pto, results>>
============================================================================
