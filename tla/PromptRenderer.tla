--------------------------- MODULE PromptRenderer ---------------------------
(***************************************************************************)
(* The prompt of the momentum list: renderUserPrompt and the table and the *)
(* candle section it is made of.  The tickers shown are hidden behind the  *)
(* numbers of their rows.  A value without data ("[DATA MISSING]") is a    *)
(* field the row does not have.                                            *)
(*                                                                         *)
(* Left out: the regime and the sector scores in the header, and the       *)
(* sections of the narrative velocity and of the memories, whose tables    *)
(* nothing in the program fills.                                           *)
(***************************************************************************)
EXTENDS Integers, SequencesExt

CONSTANT HistoryShare  \* 30: the percentage of tickers that need candles

ASSUME PromptAssumption == HistoryShare \in 1 .. 100

\* The momentum table's columns; change, gap and volume are not among them.
Columns == {"sector", "close", "relvol", "rsi", "perf3m", "perf6m", "dist", "sma50"}

\* (price - SMA50) / SMA50 * 100
Extension(row) ==
  IF {"close", "sma50"} \subseteq DOMAIN row /\ row.sma50 # 0
  THEN [ext |-> ((row.close - row.sma50) * 100) \div row.sma50] ELSE <<>>

\* rows: the screener's row of a ticker.
BuildTickerTable(rows, shown) ==
  [i \in DOMAIN shown |->
     LET row == rows[shown[i]] IN Restrict(row, Columns \cap DOMAIN row) @@ Extension(row)]

\* replaceCandlePlaceholder: for each row of the table, whether it has candles.
ReplaceCandlePlaceholder(withCandles, shown) == [i \in DOMAIN shown |-> shown[i] \in withCandles]

\* No section when too few tickers have candles.
RenderUserPrompt(rows, withCandles, shown) ==
  [table   |-> BuildTickerTable(rows, shown),
   history |-> IF 100 * Cardinality(withCandles) >= HistoryShare * Len(shown) /\ withCandles # {}
               THEN ReplaceCandlePlaceholder(withCandles, shown) ELSE <<>>]
=============================================================================
