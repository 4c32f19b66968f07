--------------------------- MODULE MarketSignals ---------------------------
(***************************************************************************)
(* What BuildMarketInputs derives from candles: the indicator functions of *)
(* internal/indicators and the helpers of market_inputs_service.go, over   *)
(* sequences of candles in order of date.                                  *)
(*                                                                         *)
(* Values are integers in the unit of the column of market_inputs_daily    *)
(* they are stored in: 1/10000 for the distances, the drawdown and the     *)
(* ratios, 1/100 for the breadth.  The database rounds, and so does        *)
(* RoundDiv.  The boolean columns spy_above_50 and so on are left out: the *)
(* classifier does not read them.                                          *)
(***************************************************************************)
EXTENDS Integers, SequencesExt

CONSTANTS
  ShortPeriod,   \* 50 sessions
  LongPeriod,    \* 200 sessions, and the least history of an index (minBars)
  MinHistory,    \* MinHistoryDays: 250 sessions
  DistLookback,  \* distributionDaysLookback: 20 sessions
  VelocityLag    \* 5 sessions

ASSUME PeriodsAssumption ==
  /\ {ShortPeriod, LongPeriod, MinHistory, DistLookback, VelocityLag} \subseteq Nat \ {0}
  /\ ShortPeriod <= LongPeriod /\ LongPeriod <= MinHistory

\* n / d, to the nearest integer.
RoundDiv(n, d) == (2 * n + d) \div (2 * d)

Closes(candles) == [i \in DOMAIN candles |-> candles[i].close]

\* GetIndexHistory: the newest n candles, oldest first.
Newest(candles, n) == SubSeq(candles, Max({1, Len(candles) - n + 1}), Len(candles))

SumOf(values) == FoldLeft(LAMBDA a, b : a + b, 0, values)

\* ComputeSMA, times the period; 0 when the history is too short.
SumLast(values, period) ==
  IF Len(values) < period THEN 0 ELSE SumOf(Newest(values, period))

\* pctFromSMA(last, ComputeSMA(values, period))
PctFromSMA(values, period) ==
  LET sum == SumLast(values, period)
  IN  IF sum = 0 THEN 0 ELSE RoundDiv((Last(values) * period - sum) * 1000000, sum)

GoldenCross(values) ==
  SumLast(values, ShortPeriod) * LongPeriod > SumLast(values, LongPeriod) * ShortPeriod

\* trailingDrawdownPct
TrailingDrawdown(values) ==
  LET high == Max(Range(values))
  IN  RoundDiv((Last(values) - high) * 1000000, high)

\* perfReturn: the change over period sessions, in 1/10000.
PerfReturn(values, period) ==
  IF Len(values) <= period THEN 0
  ELSE RoundDiv((Last(values) - values[Len(values) - period]) * 10000,
                values[Len(values) - period])

\* CountDistributionDays: a lower close on a higher volume.
CountDistributionDays(candles, lookback) ==
  LET window == Newest(candles, lookback + 1)
  IN  Cardinality({i \in 2 .. Len(window) : /\ window[i].close < window[i - 1].close
                                            /\ window[i].volume > window[i - 1].volume})

\* The newest element of ComputeRelativeStrength, which pairs the two series
\* from their oldest candles on.
RelativeStrength(a, b) ==
  LET n == Min({Len(a), Len(b)})
  IN  IF n = 0 \/ b[n] = 0 THEN 0 ELSE RoundDiv(a[n] * 10000, b[n])

\* CalculateBreadth: stocks is a function from tickers to their candles.
CalculateBreadth(stocks, period) ==
  LET counted == {t \in DOMAIN stocks : Len(stocks[t]) >= period}
      above == {t \in counted : Last(Closes(stocks[t])) * period > SumLast(Closes(stocks[t]), period)}
  IN  IF counted = {} THEN 0 ELSE RoundDiv(Cardinality(above) * 10000, Cardinality(counted))

\* computeBreadthVelocity
BreadthVelocity(stocks) ==
  LET kept == {t \in DOMAIN stocks : Len(stocks[t]) > VelocityLag}
      truncated == [t \in kept |-> SubSeq(stocks[t], 1, Len(stocks[t]) - VelocityLag)]
  IN  IF kept = {} THEN 0
      ELSE CalculateBreadth(stocks, ShortPeriod) - CalculateBreadth(truncated, ShortPeriod)

\* The guard before any average: every index has its 200 candles.
TooFewBars(spy, qqq, iwm) == \E candles \in {spy, qqq, iwm} : Len(candles) < LongPeriod

\* Steps 2 to 5: what the three index histories give.
IndexSignals(spy, qqq, iwm) ==
  LET s == Closes(spy)  q == Closes(qqq)  i == Closes(iwm)
  IN  [spy50 |-> PctFromSMA(s, ShortPeriod), spy200 |-> PctFromSMA(s, LongPeriod),
       qqq50 |-> PctFromSMA(q, ShortPeriod), qqq200 |-> PctFromSMA(q, LongPeriod),
       spyCross |-> GoldenCross(s), qqqCross |-> GoldenCross(q),
       drawdown |-> TrailingDrawdown(s),
       distDays |-> CountDistributionDays(spy, DistLookback),
       qqqRs |-> RelativeStrength(q, s), iwmRs |-> RelativeStrength(i, s)]

\* Steps 6 and 7: breadth, VIX and $TICK.  A VIX without a second candle has a
\* rate of change of 0; a level or a $TICK of 0 stands for no data (NULL).
MarketWideSignals(stocks, vix, tick) ==
  [breadth50 |-> CalculateBreadth(stocks, ShortPeriod),
   breadth200 |-> CalculateBreadth(stocks, LongPeriod),
   velocity |-> BreadthVelocity(stocks),
   vixLevel |-> IF vix = <<>> THEN 0 ELSE Last(vix).close,
   vixRoc |-> PerfReturn(Closes(Newest(vix, 2)), 1),
   tickMin |-> IF tick = <<>> THEN 0 ELSE Last(tick).low]
=============================================================================
