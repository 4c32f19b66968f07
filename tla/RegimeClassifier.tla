-------------------------- MODULE RegimeClassifier --------------------------
(***************************************************************************)
(* regime.ClassifyRegime and the circuit breaker, as functions of a row of *)
(* market_inputs_daily and of the strength to smooth against.              *)
(*                                                                         *)
(* Points are counted in 1/40 point, so that a full score is 480.  A       *)
(* strength is an integer in 1/120000: a raw one is a multiple of 250, one *)
(* read back from NUMERIC(6,4) a multiple of 12, and the mean of two of    *)
(* them is an integer again.  Sums of binary fractions are exact here.     *)
(***************************************************************************)
EXTENDS Integers

\* One percentage point, in the unit of the distances and the drawdown.
Percent == 10000

\* A strength of 1: 480 times what 1/40 point is worth.
PointWorth == 250
FullStrength == 480 * PointWorth
NoHistory == -1
VelocityThreshold == -120 * PointWorth   \* a drop by a quarter of the range

Labels == {"strong_bull", "bull", "neutral", "correction", "bear"}

SmaDistanceScore(pct, points) ==
  IF pct > 5 * Percent THEN points ELSE IF pct >= 0 THEN points \div 2 ELSE 0

CrossScore(cross) == IF cross THEN 20 ELSE 0

DistributionScore(days) ==
  IF days <= 2 THEN 60 ELSE IF days <= 4 THEN 30 ELSE IF days <= 6 THEN 15 ELSE 0

BreadthScore(breadth, high, low) ==
  IF breadth >= high THEN 30 ELSE IF breadth >= low THEN 15 ELSE 0

RsScore(rs, least) == IF rs > least THEN 20 ELSE 0

\* ScoreVIX: neutral without data; a spike of more than a fifth costs a quarter point.
VIXBase(level) ==
  IF level < 15 THEN 40 ELSE IF level < 20 THEN 30
  ELSE IF level < 25 THEN 20 ELSE IF level < 30 THEN 10 ELSE 0

ScoreVIX(level, roc) ==
  IF level <= 0 THEN 20
  ELSE IF roc > 2000 /\ VIXBase(level) > 0 THEN VIXBase(level) - 10
  ELSE VIXBase(level)

ScoreTick(tickMin) ==
  IF tickMin = 0 THEN 10
  ELSE IF tickMin > -600 THEN 20 ELSE IF tickMin >= -900 THEN 10 ELSE 0

ScoreBreadthVelocity(v) ==
  IF v > 500 THEN 20 ELSE IF v > 100 THEN 14
  ELSE IF v >= -100 THEN 10 ELSE IF v > -500 THEN 4 ELSE 0

\* The sum over all categories.
Score(in) ==
  SmaDistanceScore(in.spy50, 60) + SmaDistanceScore(in.spy200, 60)
  + SmaDistanceScore(in.qqq50, 40) + SmaDistanceScore(in.qqq200, 40)
  + CrossScore(in.spyCross) + CrossScore(in.qqqCross)
  + DistributionScore(in.distDays)
  + BreadthScore(in.breadth50, 6000, 5000) + BreadthScore(in.breadth200, 5500, 4000)
  + RsScore(in.qqqRs, 10500) + RsScore(in.iwmRs, 9500)
  + ScoreVIX(in.vixLevel, in.vixRoc)
  + ScoreTick(in.tickMin)
  + ScoreBreadthVelocity(in.velocity)

RawBullStrength(in) == Score(in) * PointWorth

\* Mutant: the smoothing has no fast path for a crash.
SmoothedAlways(raw, prev) == IF prev < 0 THEN raw ELSE (raw + prev) \div 2

\* The EMA, bypassed when there is no history or the strength falls sharply.
Smoothed(raw, prev) ==
  IF prev < 0 \/ raw - prev < VelocityThreshold THEN raw ELSE (raw + prev) \div 2

LabelFromStrength(s) ==
  IF s >= 384 * PointWorth THEN "strong_bull" ELSE IF s >= 288 * PointWorth THEN "bull"
  ELSE IF s >= 192 * PointWorth THEN "neutral" ELSE IF s >= 96 * PointWorth THEN "correction" ELSE "bear"

RegimeRank == [strong_bull |-> 4, bull |-> 3, neutral |-> 2, correction |-> 1, bear |-> 0]

\* Mutant: the more bullish of the two.
MostBullish(a, b) == IF RegimeRank[a] >= RegimeRank[b] THEN a ELSE b

MostBearish(a, b) == IF RegimeRank[a] <= RegimeRank[b] THEN a ELSE b

\* The cap on the label in a drawdown from the 52-week high.
DrawdownCap(label, drawdown) ==
  IF drawdown < -30 * Percent THEN MostBearish(label, "bear")
  ELSE IF drawdown < -20 * Percent THEN MostBearish(label, "correction")
  ELSE label

\* A column of type NUMERIC(6,4) keeps four decimals of a strength.
Stored(s) == ((s + 6) \div 12) * 12

\* The row the job writes to market_regime_daily, but for its signal column.
ClassifyRegime(in, prev) ==
  LET raw == RawBullStrength(in)
      smoothed == Smoothed(raw, prev)
  IN  [label |-> DrawdownCap(LabelFromStrength(smoothed), in.drawdown),
       raw |-> Stored(raw), smoothed |-> Stored(smoothed)]

\* CircuitBreaker.Evaluate, on the label and the VIX level it has read.
GateLevel(label, vixLevel) ==
  IF label \in {"strong_bull", "bull", "neutral"} THEN "full"
  ELSE IF label = "correction" /\ vixLevel < 28 THEN "ep_only"
  ELSE "halt"
=============================================================================
