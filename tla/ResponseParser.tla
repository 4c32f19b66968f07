--------------------------- MODULE ResponseParser ---------------------------
(***************************************************************************)
(* What an evaluation makes of the model's answer: the JSON contract of    *)
(* momentum_parser.go, the older parser of response_parser.go it falls     *)
(* back to, and the identifiers of prompt_renderer.go that hide the        *)
(* tickers from the model.                                                 *)
(*                                                                         *)
(* The rows of the prompt are numbered, STOCK_A being row 1.  An answer is *)
(*   [json: "none" | "cut" | "invalid" | "block",                          *)
(*    selections: the entries of the block, [id, entry, stop, anchor],     *)
(*    blocks, table: the headed paragraphs and the last table of the text, *)
(*      sequences of [name, fields]].                                      *)
(* A name in the text is <<"STOCK", i>> for row i or <<word>>; the fields  *)
(* are the ones the regular expressions find, a record without the others. *)
(* Prices are naturals, 0 where the code has 0 or no value.                *)
(***************************************************************************)
EXTENDS Integers, SequencesExt

\* The elements of a sequence at some of its places, in their order.
Kept(seq, places) ==
  [n \in 1 .. Cardinality(places) |->
     seq[CHOOSE i \in places : Cardinality({j \in places : j < i}) = n - 1]]

\* buildTickerMapping: the ticker behind a row's identifier.
BuildTickerMapping(shown) == [i \in DOMAIN shown |-> shown[i]]

\* DeAnonymizeResponse: in the text only; an identifier of no row stays.
DeAnonymize(name, toReal) ==
  IF name[1] = "STOCK" /\ name[2] \in DOMAIN toReal THEN toReal[name[2]] ELSE name[1]

-----------------------------------------------------------------------------
(* The JSON contract.                                                      *)

\* extractJSONBlock: a fence that is never closed gives nothing.
ExtractJSONBlock(answer) == answer.json \in {"invalid", "block"}

\* What ParseMomentumResponse accepts: an identifier of the prompt, a positive
\* stop and entry, an anchor for the stop.
Acceptable(selection, toReal) ==
  /\ selection.id \in DOMAIN toReal
  /\ selection.stop > 0 /\ selection.entry > 0
  /\ selection.anchor

ParseMomentumResponse(answer, toReal) ==
  IF answer.json # "block" THEN <<>>
  ELSE LET accepted == Kept(answer.selections,
                            {i \in DOMAIN answer.selections : Acceptable(answer.selections[i], toReal)})
       IN  [i \in DOMAIN accepted |->
              [ticker |-> toReal[accepted[i].id], rank |-> accepted[i].rank,
               entry |-> accepted[i].entry, stop |-> accepted[i].stop]]

-----------------------------------------------------------------------------
(* The older parser.                                                       *)

\* parseTableRowTicker leaves out a row whose first cell is no name.
ParseSummaryTable(answer, toReal) ==
  LET named == SelectSeq(answer.table, LAMBDA r : r.name[1] # "")
  IN  [i \in DOMAIN named |-> [ticker |-> DeAnonymize(named[i].name, toReal),
                               rank |-> i, fields |-> named[i].fields]]

\* A header without a number is counted.
ParseDetailedBlocks(answer, toReal) ==
  [i \in DOMAIN answer.blocks |->
     [ticker |-> DeAnonymize(answer.blocks[i].name, toReal), rank |-> i,
      fields |-> answer.blocks[i].fields]]

\* The fields fillMissing takes over; the others stay what the block says.
Fillable == {"setup", "entry", "stop", "conviction"}

FillMissing(primary, fallback) ==
  LET missing == (DOMAIN fallback \cap Fillable) \ DOMAIN primary
  IN  [f \in DOMAIN primary \cup missing |-> IF f \in DOMAIN primary THEN primary[f] ELSE fallback[f]]

\* The blocks, completed from the last row of the table of their ticker, and the
\* tickers that are in the table only.
MergeParsed(blocks, table) ==
  LET rowsOf(t) == {i \in DOMAIN table : table[i].ticker = t}
      Completed(b) == IF rowsOf(b.ticker) = {} THEN b
                      ELSE [b EXCEPT !.fields = FillMissing(@, table[Max(rowsOf(b.ticker))].fields)]
      inBlocks == {blocks[i].ticker : i \in DOMAIN blocks}
  IN  [i \in DOMAIN blocks |-> Completed(blocks[i])]
        \o SelectSeq(table, LAMBDA r : r.ticker \notin inBlocks)

ParseEvaluationResponse(answer, toReal) ==
  LET Known(fields, f) == IF f \in DOMAIN fields THEN fields[f] ELSE 0
      merged == MergeParsed(ParseDetailedBlocks(answer, toReal), ParseSummaryTable(answer, toReal))
  IN  [i \in DOMAIN merged |->
         [ticker |-> merged[i].ticker, rank |-> merged[i].rank,
          entry |-> Known(merged[i].fields, "entry"), stop |-> Known(merged[i].fields, "stop")]]

-----------------------------------------------------------------------------

\* An evaluation without a ticker is no success, and is stored as well.
ParsedOutput(parser, tickers) == [parser |-> parser, success |-> tickers # <<>>, tickers |-> tickers]

MomentumResultToEvaluation(selections) == ParsedOutput("json-v1", selections)

\* Step 7 of EvaluateList: a block, even one that says nothing, rules out the text.
ParseResponse(answer, toReal) ==
  IF ExtractJSONBlock(answer) THEN MomentumResultToEvaluation(ParseMomentumResponse(answer, toReal))
  ELSE ParsedOutput("regex-v1", ParseEvaluationResponse(answer, toReal))
=============================================================================
