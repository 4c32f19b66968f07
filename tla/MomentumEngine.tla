--------------------------- MODULE MomentumEngine ---------------------------
(***************************************************************************)
(* The arithmetic of the momentum list: what MomentumEngine.Compute and    *)
(* the helpers of shared.go make of the rows a screener delivered.         *)
(*                                                                         *)
(* A row of tv_snapshots_daily is a record without the fields that are     *)
(* null: close and sma50 in dollars, volume (ten days' average) in         *)
(* millions of shares, dist, rsi, perf3m and perf6m in percent, change,    *)
(* gap and relvol in tenths, sector by its ETF.  A score is an integer,    *)
(* Whole for 1.0, and every division rounds down.                          *)
(***************************************************************************)
EXTENDS Integers, SequencesExt

CONSTANTS
  Whole,          \* the integer that stands for 1.0
  ActiveWeights,  \* the active rows of momentum_score_weights, in percent
  ListSize        \* topN: 10 tickers

ASSUME EngineAssumption ==
  /\ Whole \in Nat \ {0} /\ ListSize \in Nat \ {0}
  /\ ActiveWeights \subseteq [{"breakout", "relative", "volume", "confirmation", "trend"} -> 0 .. 100]

\* defaultMomentumWeights
DefaultWeights ==
  [breakout |-> 30, relative |-> 25, volume |-> 10, confirmation |-> 15, trend |-> 20]

\* Any of the rows that are active, LIMIT 1.  Migration 050 inserts one, equal to the
\* defaults, and nothing in the program changes the table.
GetActive == ActiveWeights

\* The weights an engine may be made with: the defaults when the query fails.
LoadMomentumWeights == GetActive \cup {DefaultWeights}

Clamp(v) == Max({0, Min({Whole, v})})                       \* normalizeZeroOne
NormalizeMinMax(v, low, high) == Clamp(((v - low) * Whole) \div (high - low))
Deref(row, field, fallback) == IF field \in DOMAIN row THEN row[field] ELSE fallback

AvgDollarVolume(row) ==
  IF {"volume", "close"} \subseteq DOMAIN row THEN row.volume * row.close ELSE 0

Eligible(row) == Deref(row, "close", 0) > 5 /\ AvgDollarVolume(row) >= 10

-----------------------------------------------------------------------------
(* The five components.                                                    *)

BreakoutStrength(row) == NormalizeMinMax(Deref(row, "dist", -100), -30, 0)

RelStrength(row) ==
  LET blended == 65 * Deref(row, "perf3m", 0) + 35 * Deref(row, "perf6m", 0)
  IN  CASE blended <= 0    -> NormalizeMinMax(blended, -2000, 0) \div 5
        [] blended \in 1 .. 3000 -> (Whole + 2 * NormalizeMinMax(blended, 0, 3000)) \div 5
        [] OTHER           -> (3 * Whole + 2 * NormalizeMinMax(blended, 3000, 10000)) \div 5

VolumeExpansion(row) == NormalizeMinMax(Deref(row, "relvol", 10), 5, 50)

\* Volume on a rising day counts, volume on a falling day does not (percent).
Direction(row) ==
  LET change == Deref(row, "change", 0)
  IN  CASE change > 20 /\ Deref(row, "gap", 0) > 0 -> 100
        [] change > 5 /\ ~(change > 20 /\ Deref(row, "gap", 0) > 0) -> 80
        [] change \in -5 .. 5   -> 50
        [] change \in -20 .. -6 -> 20
        [] OTHER                -> 0

VolumePriceConfirmation(row) == (VolumeExpansion(row) * Direction(row)) \div 100

RsiScore(rsi) ==
  CASE rsi \in 60 .. 85 -> 100 [] rsi > 85 -> 70 [] rsi \in 50 .. 59 -> 60
    [] rsi \in 40 .. 49 -> 30  [] OTHER -> 10

TrendConsistency(row) ==
  (RsiScore(Deref(row, "rsi", 50)) * Whole) \div 200
    + NormalizeMinMax(Deref(row, "dist", -50), -25, 0) \div 2

\* The signs that the breakout is over: hot, far above the average, far up.
Extended(row) ==
  LET price == Deref(row, "close", 0)
      sma50 == Deref(row, "sma50", 0)
  IN  {s \in {"rsi", "sma50", "perf3m"} :
         CASE s = "rsi"    -> Deref(row, "rsi", 50) > 75
           [] s = "sma50"  -> sma50 > 0 /\ price > 0 /\ 100 * (price - sma50) > 15 * sma50
           [] s = "perf3m" -> Deref(row, "perf3m", 0) > 25}

ExtensionPenalty(row) ==
  IF Deref(row, "dist", -50) < -5 THEN 100
  ELSE CASE Cardinality(Extended(row)) = 3 -> 55 [] Cardinality(Extended(row)) = 2 -> 75
         [] Cardinality(Extended(row)) = 1 -> 90 [] OTHER -> 100

-----------------------------------------------------------------------------
(* The multipliers of the day, in percent.                                 *)

RegimeMultiplier(label) ==
  CASE label = "strong_bull" -> 115 [] label = "bull" -> 105 [] label = "correction" -> 85
    [] label = "bear" -> 70         [] OTHER -> 100   \* neutral, and no row for the date

SectorMultiplier(label) ==
  CASE label = "LEADING" -> 110 [] label = "STRONG" -> 105 [] label = "WEAK" -> 95
    [] label = "LAGGING" -> 85  [] OTHER -> 100

\* lookupSectorLabel: NEUTRAL for a sector without an ETF or without a row.
LookupSectorLabel(row, labels) ==
  IF "sector" \in DOMAIN row /\ row.sector \in DOMAIN labels
  THEN labels[row.sector] ELSE "NEUTRAL"

ScaleScore(raw, regimeMult, sectorMult) ==
  Min({Whole, (raw * regimeMult * sectorMult) \div 10000})

\* 0 without a row of narrative_velocity_daily.
LoadNarrativeScore(narrative, ticker) == Clamp(Deref(narrative, ticker, 0))

\* velocity: the narrative score of the ticker.
RawScore(row, weights, velocity, onLeaders) ==
  LET breakout == (BreakoutStrength(row) * (10 * Whole + velocity)) \div (10 * Whole)
      weighted == (weights.breakout * breakout
                   + weights.relative * RelStrength(row)
                   + weights.volume * VolumeExpansion(row)
                   + weights.confirmation * VolumePriceConfirmation(row)
                   + weights.trend * TrendConsistency(row)) \div 100
      penalised == (weighted * ExtensionPenalty(row)) \div 100
  IN  Clamp(IF onLeaders THEN (penalised * 105) \div 100 ELSE penalised)

-----------------------------------------------------------------------------
(* The list.  rows: the screeners' rows of the date, as a function from    *)
(* <<screener, ticker>>.                                                   *)

FilterBySource(rows, source) == {k[2] : k \in {k \in DOMAIN rows : k[1] = source}}

Candidates(rows, weights, regimeLabel, labels, narrative) ==
  LET leaders == FilterBySource(rows, "market_leaders")
      Score(t) == LET row == rows[<<"momentum", t>>]
                  IN  ScaleScore(RawScore(row, weights, LoadNarrativeScore(narrative, t), t \in leaders),
                                 RegimeMultiplier(regimeLabel),
                                 SectorMultiplier(LookupSectorLabel(row, labels)))
  IN  {[ticker |-> t, score |-> Score(t)] :
         t \in {t \in FilterBySource(rows, "momentum") : Eligible(rows[<<"momentum", t>>])}}

\* sortDescending: by score, then by the ticker's name, whose order is TickerRank.
Before(a, b, TickerRank) ==
  a.score > b.score \/ (a.score = b.score /\ TickerRank[a.ticker] < TickerRank[b.ticker])

\* Mutant: the comparison the wrong way round.
SortAscending(candidates, TickerRank) ==
  [i \in 1 .. Cardinality(candidates) |->
     CHOOSE c \in candidates :
       Cardinality({d \in candidates : Before(c, d, TickerRank)}) = i - 1]

SortDescending(candidates, TickerRank) ==
  [i \in 1 .. Cardinality(candidates) |->
     CHOOSE c \in candidates :
       Cardinality({d \in candidates : Before(d, c, TickerRank)}) = i - 1]

TopN(ranked) == SubSeq(ranked, 1, Min({ListSize, Len(ranked)}))

\* MomentumEngine.Compute
Compute(rows, weights, regimeLabel, labels, narrative, TickerRank) ==
  TopN(SortDescending(Candidates(rows, weights, regimeLabel, labels, narrative), TickerRank))

\* applyLeadershipBoost: after the order is made, and past the cap.
ApplyLeadershipBoost(ranked, leaders) ==
  [i \in DOMAIN ranked |->
     IF ranked[i].ticker \in leaders
     THEN [ranked[i] EXCEPT !.score = (@ * 105) \div 100] ELSE ranked[i]]
=============================================================================
