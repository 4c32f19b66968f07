---------------------------- MODULE DailyReport ----------------------------
(***************************************************************************)
(* The nightly run from the ranking to the commercial report: the steps of *)
(* RankLists and ListEvaluation, and CommercialReportJob behind them, which *)
(* has the model rewrite the day's memos for the subscribers.              *)
(*                                                                         *)
(* The commands run-llm-list-evaluation and run-commercial-report start    *)
(* their step alone; here one process runs at a time.  A position size is  *)
(* [low, high] in tenths of a percent, or a [word], "half" or "full".      *)
(***************************************************************************)
EXTENDS ListEvaluation

CONSTANTS
  Reports,   \* bound: what the provider makes of the memos: [sizes of the cards, note]
  Diverging  \* the dates whose breadth_divergence_signal is 1, which no run sets

VARIABLES
  reports, \* commercial_reports: [regime, sizes, note], by date
  draft    \* the report at work

vars == <<rankVars, evaluations, call, reports, draft>>

NoDraft == [regime |-> "neutral", sizes |-> <<>>, note |-> <<>>, breadth |-> FALSE]

Init == RankInit /\ EvaluationInit /\ reports = <<>> /\ draft = NoDraft

LeaveReport == run' = Idle /\ draft' = NoDraft

-----------------------------------------------------------------------------

GetReport(date) == date \in DOMAIN reports
GetEvaluationsByDate(date) == {date} \cap DOMAIN evaluations

\* Mutant: without the check that there is an evaluation.
LoadNoMemos(regimeRead, breadthRead) ==
  /\ run.pc = "report" /\ ~GetReport(run.date)
  /\ draft' = [NoDraft EXCEPT !.regime = RegimeLabel(run.date, regimeRead)]
  /\ run' = [run EXCEPT !.pc = "transform"]
  /\ UNCHANGED <<day, rows, regime, sectors, ranks, renewed, runs, evaluations, call, reports>>

\* RunCommercialReportJob up to the call: a report that exists is not renewed.
LoadMemos(regimeRead, breadthRead) ==
  /\ run.pc = "report"
  /\ IF GetReport(run.date) \/ GetEvaluationsByDate(run.date) = {} THEN LeaveReport
     ELSE /\ draft' = [NoDraft EXCEPT !.regime = RegimeLabel(run.date, regimeRead),
                                      !.breadth = breadthRead /\ run.date \in Diverging]
          /\ run' = [run EXCEPT !.pc = "transform"]
  /\ UNCHANGED <<day, rows, regime, sectors, ranks, renewed, runs, evaluations, call, reports>>

\* applyPositionSizeReduction: 30 % off, rounded to tenths; a word is replaced.
ReduceSize(size) ==
  IF "word" \in DOMAIN size
  THEN [word |-> IF size.word = "half" THEN "third" ELSE "two-thirds"]
  ELSE [bound \in DOMAIN size |-> (7 * size[bound] + 5) \div 10]

\* Step 4b: smaller sizes and a warning before the risk note.
ApplyBreadthDivergence(report) ==
  [sizes |-> [i \in DOMAIN report.sizes |-> ReduceSize(report.sizes[i])],
   note  |-> <<"distribution">> \o report.note]

\* Step 4c.
ApplyRegimeWarning(report, level) ==
  IF level \in {"ep_only", "halt"} THEN [report EXCEPT !.note = <<level>> \o @] ELSE report

\* The commands pass this level, the nightly run never reads another (see MarketRegime).
GateLevel == "full"

\* Transform and parseCommercialResponse; there is no second attempt.
Transform(report) ==
  /\ run.pc = "transform"
  /\ LET adjusted == ApplyRegimeWarning(IF draft.breadth THEN ApplyBreadthDivergence(report) ELSE report,
                                        GateLevel)
     IN  draft' = [draft EXCEPT !.sizes = adjusted.sizes, !.note = adjusted.note]
  /\ run' = [run EXCEPT !.pc = "storeReport"]
  /\ UNCHANGED <<day, rows, regime, sectors, ranks, renewed, runs, evaluations, call, reports>>

\* ToModel: the trade of the day is not among the columns.
ReportRow == [regime |-> draft.regime, sizes |-> draft.sizes, note |-> draft.note]

UpsertCommercialReport ==
  /\ run.pc = "storeReport"
  /\ reports' = Put(reports, run.date, ReportRow)
  /\ LeaveReport
  /\ UNCHANGED <<day, rows, regime, sectors, ranks, renewed, runs, evaluations, call>>

\* A query, the call or the upsert fails, or the answer is no report with a headline.
ReportFails ==
  /\ run.pc \in {"report", "transform", "storeReport"}
  /\ LeaveReport
  /\ UNCHANGED <<day, rows, regime, sectors, ranks, renewed, runs, evaluations, call, reports>>

\* The command run-commercial-report --date.
RunCommercialReport(date) ==
  /\ Start(date, "report")
  /\ UNCHANGED <<day, rows, regime, sectors, ranks, renewed, evaluations, call, reports, draft>>

ReportSteps ==
  \/ \E regimeRead, breadthRead \in BOOLEAN : LoadMemos(regimeRead, breadthRead)
  \/ \E report \in Reports : Transform(report)
  \/ UpsertCommercialReport \/ ReportFails

-----------------------------------------------------------------------------

\* The end of the process, at any point: what it has stored stays.
Stop ==
  /\ Abort
  /\ call' = NoCall /\ draft' = NoDraft
  /\ UNCHANGED <<evaluations, reports>>

Next ==
  \/ /\ World \/ RankSteps \/ \E date \in Dates : StartRun(date)
     /\ UNCHANGED <<evaluations, call, reports, draft>>
  \/ /\ EvaluationSteps \/ \E date \in Dates : RunListEvaluation(date)
     /\ UNCHANGED <<reports, draft>>
  \/ ReportSteps
  \/ \E date \in Dates : RunCommercialReport(date)
  \/ Stop

Spec == Init /\ [][Next]_vars

-----------------------------------------------------------------------------
(* Properties.                                                             *)

Phases == {"idle", "regime", "sectors", "storeSectors", "rank", "storeList", "evaluate",
           "prompt", "generate", "storeEvaluation", "report", "transform", "storeReport"}

\* Every table is keyed by dates up to today, every call is within its attempts.
TypeOK ==
  /\ RankTypeOK /\ run.pc \in Phases
  /\ DOMAIN evaluations \subseteq Dates /\ DOMAIN reports \subseteq DOMAIN evaluations
  /\ call.attempts \in 0 .. 2

\* What has been published is final: an evaluation, which the outcomes of its tickers
\* are later attributed to, and the report its readers have seen, are never replaced
\* or removed, although a run may be repeated after the rows and ranks have changed.
PublishedIsFinal ==
  [][ /\ \A d \in DOMAIN evaluations : d \in DOMAIN evaluations' /\ evaluations'[d] = evaluations[d]
      /\ \A d \in DOMAIN reports : d \in DOMAIN reports' /\ reports'[d] = reports[d] ]_vars
=============================================================================
