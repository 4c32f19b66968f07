------------------------- MODULE MCCandleIngestion -------------------------
(* CandleIngestion on two benchmarks and one ordinary ticker.              *)
EXTENDS CandleIngestion
CONSTANTS spy, qqq, aapl, w1, w2

\* The benchmarks end yesterday (0) or today (1), the stock today or nowhere.
MCStoredLatest ==
  {l \in [{spy, qqq, aapl} -> {NoCandle, 0, 1}] :
     l[spy] # NoCandle /\ l[qqq] # NoCandle /\ l[aapl] # 0}
=============================================================================
