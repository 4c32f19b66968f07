--------------------------- MODULE ListEvaluation ---------------------------
(***************************************************************************)
(* The model's evaluation of the ranked list: LLMListEvaluationJob and     *)
(* EvaluationService behind the ranking of RankLists.  Only the momentum   *)
(* list has rows, the job passes over its two other list types each time.  *)
(* The command run-llm-list-evaluation does the same for a date of its own.*)
(*                                                                         *)
(* The provider is called twice at most; its service replies with any of   *)
(* Replies.  No failure of the evaluation ends the run.                    *)
(***************************************************************************)
EXTENDS RankLists, PromptRenderer, LLMProviders, ResponseParser

CONSTANTS
  Replies,  \* bound: the replies of the provider's service (see LLMProviders)
  Reading,  \* what the parsers find in a text (an answer, see ResponseParser)
  Charted   \* the tickers with candles in the 35 days before any date

ASSUME EvaluationAssumption ==
  /\ \A reply \in Replies : ProviderGenerate(reply) \subseteq DOMAIN Reading
  /\ \A text \in DOMAIN Reading : Reading[text].selections \in Seq(Range(Reading[text].selections))
  /\ Charted \subseteq Tickers

VARIABLES
  evaluations, \* llm_list_evaluations, list momentum: [input, prompt, parsed], by date
  call         \* the evaluation at work: [tickers, shown, prompt, attempts, text]

NoCall == [tickers |-> <<>>, shown |-> <<>>, prompt |-> <<>>, attempts |-> 0, text |-> <<>>]

EvaluationInit == evaluations = <<>> /\ call = NoCall

LeaveEvaluation(pc) == run' = [run EXCEPT !.pc = pc] /\ call' = NoCall

-----------------------------------------------------------------------------

\* Mutant: the tickers of the list on any date.
GetRankListOfAnyDate(date) == SetToAllKPermutations({k[2] : k \in DOMAIN ranks}) \ {<<>>}

\* The rows of the list in the order of their ranks, equals in any order.
GetRankList(date) ==
  LET tickers == OfDate(ranks, date)
      Ordered(s) == \A i, j \in DOMAIN s :
                      i < j => s[i] # s[j] /\ ranks[<<date, s[i]>>].rank <= ranks[<<date, s[j]>>].rank
  IN  {s \in [1 .. Cardinality(tickers) -> tickers] : Ordered(s)}

\* Mutant: an evaluation that nothing was read from is made again.
GetParsedEvaluation(date) == date \in DOMAIN evaluations /\ evaluations[date].parsed.success

GetEvaluation(date) == date \in DOMAIN evaluations

\* evaluateOne up to the call: a list that is evaluated, or has no row, is passed over.
LoadList ==
  /\ run.pc = "evaluate"
  /\ \/ /\ GetEvaluation(run.date) \/ OfDate(ranks, run.date) = {}
        /\ LeaveEvaluation("report")
     \/ /\ ~GetEvaluation(run.date) /\ OfDate(ranks, run.date) # {}
        /\ \E tickers \in GetRankList(run.date) : call' = [call EXCEPT !.tickers = tickers]
        /\ run' = [run EXCEPT !.pc = "prompt"]
  /\ UNCHANGED <<day, rows, regime, sectors, ranks, renewed, runs, evaluations>>

\* buildSnapshotMap: the tickers with a row of the list's screener.
SnapshotMap(date) == FilterBySource(ListByDate(date), "momentum")

\* The rows of the ranked tickers, best first, and the candles that can be read.
RenderPrompt ==
  /\ run.pc = "prompt"
  /\ LET shown == Kept(call.tickers,
                       {i \in DOMAIN call.tickers : call.tickers[i] \in SnapshotMap(run.date)})
         snaps == [t \in SnapshotMap(run.date) |-> ListByDate(run.date)[<<"momentum", t>>]]
     IN  IF shown = <<>> THEN LeaveEvaluation("report")
         ELSE /\ \E withCandles \in SUBSET (Charted \cap Range(shown)) :
                   call' = [call EXCEPT !.shown = shown,
                                        !.prompt = RenderUserPrompt(snaps, withCandles, shown)]
              /\ run' = [run EXCEPT !.pc = "generate"]
  /\ UNCHANGED <<day, rows, regime, sectors, ranks, renewed, runs, evaluations>>

\* Provider.Generate.
Generate(reply) ==
  /\ run.pc = "generate"
  /\ \E text \in ProviderGenerate(reply) : call' = [call EXCEPT !.text = text, !.attempts = @ + 1]
  /\ run' = [run EXCEPT !.pc = "storeEvaluation"]
  /\ UNCHANGED <<day, rows, regime, sectors, ranks, renewed, runs, evaluations>>

\* Once more after an error.
GenerateFails(reply) ==
  /\ run.pc = "generate" /\ ProviderGenerate(reply) = {}
  /\ IF call.attempts = 0 THEN call' = [call EXCEPT !.attempts = 1] /\ run' = run
     ELSE LeaveEvaluation("report")
  /\ UNCHANGED <<day, rows, regime, sectors, ranks, renewed, runs, evaluations>>

\* ToModel: the tickers asked for, whether or not the prompt showed them.
ToModel(parsed) == [input |-> call.tickers, prompt |-> call.prompt, parsed |-> parsed]

\* An answer nothing is read from is stored as well.
UpsertEvaluation ==
  /\ run.pc = "storeEvaluation"
  /\ evaluations' = Put(evaluations, run.date,
       ToModel(ParseResponse(Reading[call.text], BuildTickerMapping(call.shown))))
  /\ LeaveEvaluation("report")
  /\ UNCHANGED <<day, rows, regime, sectors, ranks, renewed, runs>>

\* A query, the prompt's template or the upsert fails: the list is counted as failed.
EvaluationFails ==
  /\ run.pc \in {"evaluate", "prompt", "storeEvaluation"}
  /\ LeaveEvaluation("report")
  /\ UNCHANGED <<day, rows, regime, sectors, ranks, renewed, runs, evaluations>>

\* The command run-llm-list-evaluation --date.
RunListEvaluation(date) ==
  /\ Start(date, "evaluate")
  /\ UNCHANGED <<day, rows, regime, sectors, ranks, renewed, evaluations, call>>

EvaluationSteps ==
  \/ LoadList \/ RenderPrompt \/ UpsertEvaluation \/ EvaluationFails
  \/ \E reply \in Replies : Generate(reply) \/ GenerateFails(reply)

-----------------------------------------------------------------------------
(* Properties.                                                             *)

Recommended(evaluation) == {evaluation.parsed.tickers[i].ticker : i \in DOMAIN evaluation.parsed.tickers}

\* What the JSON contract recommends, an answer with identifiers instead of names, are
\* tickers the ranking placed on that date and the momentum screener delivered: the
\* identifiers are resolved over the rows of the prompt, whatever has been ranked since.
RecommendedWereRanked ==
  \A d \in DOMAIN evaluations :
    evaluations[d].parsed.parser = "json-v1" =>
      \A t \in Recommended(evaluations[d]) :
        <<d, t>> \in DOMAIN ranks /\ <<"momentum", t>> \in DOMAIN rows[d]
=============================================================================
