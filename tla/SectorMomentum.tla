--------------------------- MODULE SectorMomentum ---------------------------
(***************************************************************************)
(* The sector scores: BuildSectorScores of sector_momentum_service.go over *)
(* the closes of SPY and of the sector ETFs, oldest first.                 *)
(*                                                                         *)
(* Returns are in 1/10000.  A percentile rank k/(2(n-1)) is kept as the    *)
(* integer k, so that the ranks of ties, which are means, stay exact; the  *)
(* composite is in 1/(100 * 2(n-1)).                                       *)
(***************************************************************************)
EXTENDS MarketSignals

CONSTANTS Perf1MPeriod, Perf3MPeriod, \* 21 and 63 sessions
          HistoryDays, MinHistoryBars \* 250 candles are asked for, 200 needed

ASSUME SectorAssumption ==
  {Perf1MPeriod, Perf3MPeriod, HistoryDays, MinHistoryBars} \subseteq Nat \ {0}

\* The steps of the percentile scale for n values.
Steps(n) == 2 * (n - 1)

\* PercentileRanks: the mean of the places a value and its equals span.
PercentileRank(values, k) ==
  IF Cardinality(DOMAIN values) = 1 THEN 1
  ELSE Cardinality({j \in DOMAIN values : values[j] < values[k]})
         + Cardinality({j \in DOMAIN values : values[j] <= values[k]}) - 1

\* Full marks: 1 for a single value.
FullRank(n) == IF n = 1 THEN 1 ELSE Steps(n)

\* 0, 0.6 or 1, in tenths.
TrendScore(closes) ==
  LET above(period) == Last(closes) * period > SumLast(closes, period)
  IN  CASE above(ShortPeriod) /\ above(LongPeriod)  -> 10
        [] above(ShortPeriod) /\ ~above(LongPeriod) -> 6
        [] OTHER -> 0

\* models.SectorScoreLabel, of a composite out of full.
SectorScoreLabel(score, full) ==
  CASE 100 * score >= 80 * full -> "LEADING"
    [] 100 * score \in 60 * full .. 80 * full - 1 -> "STRONG"
    [] 100 * score \in 40 * full .. 60 * full - 1 -> "NEUTRAL"
    [] 100 * score \in 20 * full .. 40 * full - 1 -> "WEAK"
    [] OTHER -> "LAGGING"

EnoughHistory(histories) == \A t \in DOMAIN histories : Len(histories[t]) >= MinHistoryBars

\* histories: the closes of "SPY" and of the ETFs.
BuildSectorScores(histories) ==
  LET etfs == DOMAIN histories \ {"SPY"}
      perf1m == [e \in etfs |-> PerfReturn(histories[e], Perf1MPeriod)]
      perf3m == [e \in etfs |-> PerfReturn(histories[e], Perf3MPeriod)]
      rsVsSpy3m == [e \in etfs |-> perf3m[e] - PerfReturn(histories["SPY"], Perf3MPeriod)]
      full == FullRank(Cardinality(etfs))
      Score(e) == 40 * PercentileRank(rsVsSpy3m, e) + 25 * PercentileRank(perf3m, e)
                  + 15 * PercentileRank(perf1m, e) + 2 * TrendScore(histories[e]) * full
  IN  [e \in etfs |-> [score |-> Score(e), label |-> SectorScoreLabel(Score(e), 100 * full)]]
=============================================================================
