-------------------------- MODULE MCMarketRegime --------------------------
(* Averages over two and three sessions.  A session is high, a crash by a  *)
(* quarter on a rising volume and a high VIX, a rally a fifth below the    *)
(* high, or none at all (a holiday).                                      *)
EXTENDS MarketRegime

Candle(close, volume) == [close |-> close, volume |-> volume]
Session(spy, qqq, iwm, vix, stock, volume) ==
  [SPY |-> Candle(spy, volume), QQQ |-> Candle(qqq, volume), IWM |-> Candle(iwm, volume),
   VIX |-> Candle(vix, 0), AAA |-> Candle(stock, volume), BBB |-> Candle(stock + 1, volume)]

High == Session(120, 130, 118, 12, 60, 5)
Crash == Session(90, 92, 80, 31, 40, 9)
Rally == Session(95, 104, 92, 14, 58, 4)

MCStocks == {"AAA", "BBB"}
MCBatches == {{"SPY", "QQQ", "IWM"}, {"VIX", "AAA", "BBB"}}
MCShapes == {High, Crash, Rally, <<>>}
MCFirstSessions == <<Rally, High, <<>>, High>>
MCWeekends == {3}
MCWeekBack == {2, 3}
============================================================================
