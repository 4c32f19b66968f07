--------------------------- MODULE MCDailyReport ---------------------------
(* Three tickers for a list of two: AAA and BBB are delivered, or CCC with *)
(* an AAA that is too thin to be ranked, in either order.  AAA and BBB may *)
(* be on market_leaders too, AAA is on the leadership table on day 4.      *)
EXTENDS DailyReport

Strong == [exchange |-> "NASDAQ", close |-> 40, volume |-> 2, high52w |-> 40, rsi |-> 70, perf3m |-> 40,
           perf6m |-> 60, change |-> 30, gap |-> 4, relvol |-> 30, sma50 |-> 30, sector |-> "XLK"]
Mid == [exchange |-> "NYSE", close |-> 20, volume |-> 1, high52w |-> 22, rsi |-> 62, perf3m |-> 20,
        perf6m |-> 15, change |-> 9, relvol |-> 15, sma50 |-> 19, sector |-> "XLE"]
Gapless == [exchange |-> "AMEX", close |-> 12, volume |-> 3, high52w |-> 12, rsi |-> 66, perf3m |-> 35]
Thin == [exchange |-> "NYSE", close |-> 4, volume |-> 9]
OverTheCounter == [exchange |-> "OTC", close |-> 50, volume |-> 9]
Of(entry, symbol) == [symbol |-> symbol] @@ entry

MCNames == <<"AAA", "BBB", "CCC">>
MCDeliveries == {
  [momentum |-> <<Of(Mid, "AAA"), Of(Strong, "BBB"), Of(OverTheCounter, "CCC")>>,
   market_leaders |-> <<Of(Mid, "AAA")>>],
  [momentum |-> <<Of(Mid, "CCC"), Of(Gapless, "CCC"), Of(Thin, "AAA")>>,
   market_leaders |-> <<Of(Strong, "BBB")>>]}
MCIndexCloses == [SPY |-> <<100, 101, 102, 103>>, XLK |-> <<50, 52, 55, 56>>, XLE |-> <<80, 79, 75, 74>>]
MCActiveWeights == {DefaultWeights}
MCLeaders == {<<4, "AAA">>}
MCNarrative == [t \in {"CCC"} |-> 500]

Selection(id, stop) == [id |-> id, rank |-> id, entry |-> 10, stop |-> stop, anchor |-> TRUE]
Silent == [json |-> "none", selections |-> <<>>, blocks |-> <<>>, table |-> <<>>]

\* An answer of a paragraph and a block of JSON; the paragraph alone is what a
\* text cut in the block's fence says.
MCReading ==
  <<>> :> Silent
  @@ <<"stocks", "json">> :> [Silent EXCEPT !.json = "block",
       !.selections = <<Selection(2, 9), Selection(3, 9), Selection(1, 0)>>]
  @@ <<"stocks">> :> [Silent EXCEPT !.json = "cut",
       !.blocks = <<[name |-> <<"STOCK", 1>>, fields |-> [entry |-> 10]]>>,
       !.table = <<[name |-> <<"STOCK", 1>>, fields |-> [entry |-> 11, stop |-> 9]],
                   [name |-> <<"RISK">>, fields |-> [stop |-> 8]]>>]
Delta(piece) == [type |-> "text_delta", text |-> <<piece>>]
Event(type) == [type |-> type, text |-> <<>>]
Reply(provider, body) == [provider |-> provider, status |-> 200, broken |-> FALSE, body |-> body]
Output(texts) == [type |-> "message", content |-> [i \in DOMAIN texts |-> [type |-> "output_text", text |-> texts[i]]]]
MCReplies == {
  Reply("anthropic", <<Event("message_start"), Delta("stocks"), Event("malformed"), Delta("json")>>),
  Reply("anthropic", <<Event("error"), Event("done"), Delta("stocks")>>),
  Reply("gemini", <<<<<<"stocks">>>>, <<<<"json">>>>>>),
  [Reply("gemini", <<<<<<"stocks">>>>>>) EXCEPT !.broken = TRUE],
  Reply("openai", <<Output(<<<<>>, <<"stocks", "json">>>>)>>)}
MCReports == {[sizes |-> <<[low |-> 50, high |-> 100], [word |-> "half"]>>, note |-> <<"note">>]}
============================================================================
