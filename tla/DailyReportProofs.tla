------------------------- MODULE DailyReportProofs -------------------------
(***************************************************************************)
(* What holds of the chain from the screeners to the report for any        *)
(* tickers, ETFs, days, payloads, replies and numbers of runs.             *)
(*                                                                         *)
(* The first half is about the operators a state is made with: every score *)
(* is a number from 0 to Whole whatever fields a row lacks, sortDescending *)
(* gives each row exactly one place (a row's key is a number, and the      *)
(* numbers of a finite set have every place once, see OrderLemmas), and    *)
(* what the JSON contract recommends is among what the prompt showed.  The *)
(* second half is the invariant, part by part: what a run carries between  *)
(* its steps agrees with what is stored, whatever the world does meanwhile.*)
(***************************************************************************)
EXTENDS DailyReport, OrderLemmas

\* A row as the screeners' entries leave it: what it gives, but for the sector, is a number.
RowOK(row) == \A f \in DOMAIN row \ {"sector"} : row[f] \in Int

-----------------------------------------------------------------------------
(* The arithmetic of a score *)

\* The greater and the smaller of two numbers.
LEMMA Extremes ==
  ASSUME NEW a \in Int, NEW b \in Int
  PROVE  /\ Max({a, b}) = IF a <= b THEN b ELSE a
         /\ Min({a, b}) = IF a <= b THEN a ELSE b
<1>1. CASE a <= b
  <2>1. Max({a, b}) = b
    BY <1>1 DEF Max
  <2>2. Min({a, b}) = a
    BY <1>1 DEF Min
  <2> QED
    BY <1>1, <2>1, <2>2
<1>2. CASE ~(a <= b)
  <2>1. Max({a, b}) = a
    BY <1>2 DEF Max
  <2>2. Min({a, b}) = b
    BY <1>2 DEF Min
  <2> QED
    BY <1>2, <2>1, <2>2
<1> QED
  BY <1>1, <1>2

\* normalizeZeroOne stays between 0 and Whole.
LEMMA ClampType ==
  ASSUME NEW v \in Int
  PROVE  Clamp(v) \in 0 .. Whole
<1>1. Whole \in Int /\ Whole >= 0
  BY EngineAssumption DEF EngineAssumption
<1> DEFINE low == Min({Whole, v})
<1>2. low = IF Whole <= v THEN Whole ELSE v
  BY <1>1, Extremes
<1>3. low \in Int /\ low <= Whole
  BY <1>1, <1>2
<1> HIDE DEF low
<1>4. Max({0, low}) = IF 0 <= low THEN low ELSE 0
  BY <1>3, Extremes
<1>5. Max({0, low}) \in 0 .. Whole
  BY <1>1, <1>3, <1>4
<1> QED
  BY <1>5 DEF Clamp, low

\* So does normalizeMinMax, for any value.
LEMMA NormalizeType ==
  ASSUME NEW v \in Int, NEW low \in Int, NEW high \in Int, low < high
  PROVE  NormalizeMinMax(v, low, high) \in 0 .. Whole
<1>1. Whole \in Int
  BY EngineAssumption DEF EngineAssumption
<1>2. (v - low) * Whole \in Int /\ high - low \in Int /\ high - low > 0
  BY <1>1
<1>3. ((v - low) * Whole) \div (high - low) \in Int
  BY <1>2
<1> QED
  BY <1>3, ClampType DEF NormalizeMinMax

\* A field that is null counts as its default.
LEMMA DerefType ==
  ASSUME NEW row, RowOK(row), NEW field, field # "sector", NEW fallback \in Int
  PROVE  Deref(row, field, fallback) \in Int
BY DEF RowOK, Deref

\* Each of the five components of a score is a number.
LEMMA ComponentTypes ==
  ASSUME NEW row, RowOK(row)
  PROVE  /\ BreakoutStrength(row) \in Nat /\ RelStrength(row) \in Nat
         /\ VolumeExpansion(row) \in Nat /\ VolumePriceConfirmation(row) \in Nat
         /\ TrendConsistency(row) \in Nat /\ ExtensionPenalty(row) \in Nat
<1>0. Whole \in Nat
  BY EngineAssumption DEF EngineAssumption
<1>1. BreakoutStrength(row) \in Nat
  <2>1. Deref(row, "dist", -100) \in Int
    BY DerefType
  <2>2. NormalizeMinMax(Deref(row, "dist", -100), -30, 0) \in 0 .. Whole
    BY <2>1, NormalizeType
  <2> QED
    BY <2>2 DEF BreakoutStrength
<1>2. RelStrength(row) \in Nat
  <2> DEFINE blended == 65 * Deref(row, "perf3m", 0) + 35 * Deref(row, "perf6m", 0)
  <2>1. Deref(row, "perf3m", 0) \in Int /\ Deref(row, "perf6m", 0) \in Int
    BY DerefType
  <2>2. blended \in Int
    BY <2>1
  <2> HIDE DEF blended
  <2>3. /\ NormalizeMinMax(blended, -2000, 0) \in Nat /\ NormalizeMinMax(blended, 0, 3000) \in Nat
        /\ NormalizeMinMax(blended, 3000, 10000) \in Nat
    BY <2>2, NormalizeType
  <2>4. /\ NormalizeMinMax(blended, -2000, 0) \div 5 \in Nat
        /\ (Whole + 2 * NormalizeMinMax(blended, 0, 3000)) \div 5 \in Nat
        /\ (3 * Whole + 2 * NormalizeMinMax(blended, 3000, 10000)) \div 5 \in Nat
    BY <1>0, <2>3
  <2>5. RelStrength(row) = CASE blended <= 0    -> NormalizeMinMax(blended, -2000, 0) \div 5
        [] blended \in 1 .. 3000 -> (Whole + 2 * NormalizeMinMax(blended, 0, 3000)) \div 5
        [] OTHER           -> (3 * Whole + 2 * NormalizeMinMax(blended, 3000, 10000)) \div 5
    BY DEF RelStrength, blended
  <2>6. CASE blended <= 0
    <3>1. ~(blended >= 1)
      BY <2>2, <2>6
    <3> QED
      BY <2>4, <2>5, <2>6, <3>1
  <2>7. CASE ~(blended <= 0)
    BY <2>4, <2>5, <2>7
  <2> QED
    BY <2>6, <2>7
<1>3. VolumeExpansion(row) \in Nat
  <2>1. Deref(row, "relvol", 10) \in Int
    BY DerefType
  <2>2. NormalizeMinMax(Deref(row, "relvol", 10), 5, 50) \in 0 .. Whole
    BY <2>1, NormalizeType
  <2> QED
    BY <2>2 DEF VolumeExpansion
<1>4. VolumePriceConfirmation(row) \in Nat
  <2>1. Direction(row) \in Nat
    <3> DEFINE change == Deref(row, "change", 0)
               gap == Deref(row, "gap", 0)
    <3>1. change \in Int /\ gap \in Int
      BY DerefType
    <3>2. Direction(row) = CASE change > 20 /\ gap > 0 -> 100
             [] change > 5 /\ ~(change > 20 /\ gap > 0) -> 80
             [] change \in -5 .. 5   -> 50
             [] change \in -20 .. -6 -> 20
             [] OTHER                -> 0
      BY DEF Direction
    <3> HIDE DEF change, gap
    <3> QED
      BY <3>1, <3>2
  <2>2. VolumeExpansion(row) * Direction(row) \in Nat
    BY <1>3, <2>1
  <2> QED
    BY <2>2 DEF VolumePriceConfirmation
<1>5. TrendConsistency(row) \in Nat
  <2>1. Deref(row, "rsi", 50) \in Int
    BY DerefType
  <2>2. \A rsi \in Int : RsiScore(rsi) \in Nat
    BY DEF RsiScore
  <2>3. RsiScore(Deref(row, "rsi", 50)) * Whole \in Nat
    BY <1>0, <2>1, <2>2
  <2>4. NormalizeMinMax(Deref(row, "dist", -50), -25, 0) \in Nat
    <3>1. Deref(row, "dist", -50) \in Int
      BY DerefType
    <3>2. NormalizeMinMax(Deref(row, "dist", -50), -25, 0) \in 0 .. Whole
      BY <3>1, NormalizeType
    <3> QED
      BY <3>2
  <2> QED
    BY <2>3, <2>4 DEF TrendConsistency
<1>6. ExtensionPenalty(row) \in Nat
  BY DEF ExtensionPenalty
<1> QED
  BY <1>1, <1>2, <1>3, <1>4, <1>5, <1>6

\* A raw score lies between 0 and Whole.
LEMMA RawScoreType ==
  ASSUME NEW row, RowOK(row), NEW weights \in LoadMomentumWeights, NEW velocity \in Nat,
         NEW onLeaders \in BOOLEAN
  PROVE  RawScore(row, weights, velocity, onLeaders) \in 0 .. Whole
<1>0. Whole \in Nat \ {0}
  BY EngineAssumption DEF EngineAssumption
<1>1. /\ weights.breakout \in Nat /\ weights.relative \in Nat /\ weights.volume \in Nat
      /\ weights.confirmation \in Nat /\ weights.trend \in Nat
  BY EngineAssumption DEF LoadMomentumWeights, GetActive, DefaultWeights, EngineAssumption
<1> DEFINE breakout == (BreakoutStrength(row) * (10 * Whole + velocity)) \div (10 * Whole)
           weighted == (weights.breakout * breakout
                         + weights.relative * RelStrength(row)
                         + weights.volume * VolumeExpansion(row)
                         + weights.confirmation * VolumePriceConfirmation(row)
                         + weights.trend * TrendConsistency(row)) \div 100
           penalised == (weighted * ExtensionPenalty(row)) \div 100
<1>2. breakout \in Nat
  <2>1. BreakoutStrength(row) * (10 * Whole + velocity) \in Nat /\ 10 * Whole \in Nat \ {0}
    BY <1>0, ComponentTypes
  <2> QED
    BY <2>1
<1>3. weighted \in Nat
  <2> HIDE DEF breakout
  <2>1. /\ weights.breakout * breakout \in Nat /\ weights.relative * RelStrength(row) \in Nat
        /\ weights.volume * VolumeExpansion(row) \in Nat
        /\ weights.confirmation * VolumePriceConfirmation(row) \in Nat
        /\ weights.trend * TrendConsistency(row) \in Nat
    BY <1>1, <1>2, ComponentTypes
  <2> QED
    BY <2>1
<1>4. penalised \in Nat
  <2> HIDE DEF weighted
  <2>1. weighted * ExtensionPenalty(row) \in Nat
    BY <1>3, ComponentTypes
  <2> QED
    BY <2>1
<1>5. RawScore(row, weights, velocity, onLeaders)
        = Clamp(IF onLeaders THEN (penalised * 105) \div 100 ELSE penalised)
  BY DEF RawScore
<1> HIDE DEF penalised
<1> QED
  BY <1>4, <1>5, ClampType

\* A scaled score is a number.
LEMMA ScaleType ==
  ASSUME NEW raw \in Nat, NEW regimeLabel, NEW sectorLabel
  PROVE  ScaleScore(raw, RegimeMultiplier(regimeLabel), SectorMultiplier(sectorLabel)) \in 0 .. Whole
<1>0. Whole \in Nat
  BY EngineAssumption DEF EngineAssumption
<1>1. RegimeMultiplier(regimeLabel) \in Nat
  BY DEF RegimeMultiplier
<1>2. SectorMultiplier(sectorLabel) \in Nat
  BY DEF SectorMultiplier
<1> DEFINE scaled == (raw * RegimeMultiplier(regimeLabel) * SectorMultiplier(sectorLabel)) \div 10000
<1>3. raw * RegimeMultiplier(regimeLabel) \in Nat
  BY <1>1
<1>4. raw * RegimeMultiplier(regimeLabel) * SectorMultiplier(sectorLabel) \in Nat
  BY <1>2, <1>3
<1>5. scaled \in Nat
  BY <1>4
<1> HIDE DEF scaled
<1>6. Min({Whole, scaled}) = IF Whole <= scaled THEN Whole ELSE scaled
  BY <1>0, <1>5, Extremes
<1>7. Min({Whole, scaled}) \in 0 .. Whole
  BY <1>0, <1>5, <1>6
<1> QED
  BY <1>7 DEF ScaleScore, scaled

-----------------------------------------------------------------------------
(* The names *)

\* Every ticker has its place in the alphabet.
LEMMA NamesRanked ==
  /\ Len(Names) \in Nat /\ DOMAIN Names = 1 .. Len(Names) /\ IsFiniteSet(Tickers)
  /\ \A t \in Tickers : TickerRank[t] \in 1 .. Len(Names) /\ Names[TickerRank[t]] = t
<1>1. Names \in Seq(Tickers)
  BY RankAssumption DEF RankAssumption
<1>2. Len(Names) \in Nat /\ DOMAIN Names = 1 .. Len(Names)
  BY <1>1
<1>3. IsFiniteSet(Tickers)
  <2>1. IsFiniteSet(1 .. Len(Names))
    BY <1>2, FS_Interval
  <2>2. Tickers = {Names[i] : i \in 1 .. Len(Names)}
    BY <1>2 DEF Tickers, Range
  <2> DEFINE named == [i \in 1 .. Len(Names) |-> Names[i]]
  <2>3. named \in Surjection(1 .. Len(Names), Tickers)
    BY <2>2 DEF Surjection
  <2> QED
    BY <2>1, <2>3, FS_Surjection
<1>4. ASSUME NEW t \in Tickers PROVE TickerRank[t] \in 1 .. Len(Names) /\ Names[TickerRank[t]] = t
  <2>1. \E i \in DOMAIN Names : Names[i] = t
    BY DEF Tickers, Range
  <2>2. TickerRank[t] = CHOOSE i \in DOMAIN Names : Names[i] = t
    BY DEF TickerRank
  <2> QED
    BY <1>2, <2>1, <2>2
<1> QED
  BY <1>2, <1>3, <1>4

-----------------------------------------------------------------------------
(* The order of the list *)

\* A set of scored tickers, a row each.
Scored(C) == /\ C \subseteq [ticker : Tickers, score : 0 .. Whole]
             /\ \A c, d \in C : c.ticker = d.ticker => c = d

\* The place of a row in the order, as a number.
Key(c) == (Whole - c.score) * (Len(Names) + 1) + TickerRank[c.ticker]
Keys(C) == {Key(c) : c \in C}
LastKey == Whole * (Len(Names) + 1) + Len(Names)

\* Of two pairs the one with the smaller first number comes first.
LEMMA Lexicographic ==
  ASSUME NEW a \in Nat, NEW b \in Nat, NEW n \in Nat, NEW r \in 1 .. n, NEW s \in 1 .. n, a < b
  PROVE  a * (n + 1) + r < b * (n + 1) + s
<1>1. PICK k \in Nat : b = a + 1 + k
  <2>1. b - a - 1 \in Nat /\ b = a + 1 + (b - a - 1)
    OBVIOUS
  <2> QED
    BY <2>1
<1>2. b * (n + 1) = a * (n + 1) + (n + 1) + k * (n + 1)
  BY <1>1
<1>3. k * (n + 1) \in Nat /\ a * (n + 1) \in Nat
  BY <1>1
<1> QED
  BY <1>2, <1>3

\* Keys are ordered like the rows, and tell tickers apart.
LEMMA KeyOrder ==
  ASSUME NEW c \in [ticker : Tickers, score : 0 .. Whole], NEW d \in [ticker : Tickers, score : 0 .. Whole]
  PROVE  /\ Key(c) \in 0 .. LastKey
         /\ Before(c, d, TickerRank) <=> Key(c) < Key(d)
         /\ Key(c) = Key(d) => c.ticker = d.ticker
<1>1. /\ Whole \in Nat /\ Len(Names) \in Nat
      /\ TickerRank[c.ticker] \in 1 .. Len(Names) /\ TickerRank[d.ticker] \in 1 .. Len(Names)
      /\ TickerRank[c.ticker] = TickerRank[d.ticker] => c.ticker = d.ticker
  BY EngineAssumption, NamesRanked DEF EngineAssumption
<1> DEFINE low == Whole - c.score
           high == Whole - d.score
<1>2. /\ low \in Nat /\ high \in Nat /\ low <= Whole
      /\ c.score > d.score <=> low < high
      /\ c.score = d.score <=> low = high
  BY <1>1
<1>3. Key(c) = low * (Len(Names) + 1) + TickerRank[c.ticker]
  BY DEF Key
<1>4. Key(d) = high * (Len(Names) + 1) + TickerRank[d.ticker]
  BY DEF Key
<1> HIDE DEF low, high
<1>5. low * (Len(Names) + 1) <= Whole * (Len(Names) + 1)
  <2>1. PICK k \in Nat : Whole = low + k
    BY <1>1, <1>2, Whole - low \in Nat
  <2>2. Whole * (Len(Names) + 1) = low * (Len(Names) + 1) + k * (Len(Names) + 1)
    BY <1>1, <1>2, <2>1
  <2>3. k * (Len(Names) + 1) \in Nat /\ low * (Len(Names) + 1) \in Nat
    BY <1>1, <1>2, <2>1
  <2> QED
    BY <2>2, <2>3
<1>6. low * (Len(Names) + 1) \in Nat /\ high * (Len(Names) + 1) \in Nat /\ Whole * (Len(Names) + 1) \in Nat
  BY <1>1, <1>2
<1>7. Key(c) \in 0 .. LastKey
  BY <1>1, <1>5, <1>3, <1>6 DEF LastKey
<1>8. low < high => Key(c) < Key(d)
  BY <1>1, <1>2, <1>3, <1>4, Lexicographic
<1>9. high < low => Key(d) < Key(c)
  BY <1>1, <1>2, <1>3, <1>4, Lexicographic
<1>10. Key(c) \in Int /\ Key(d) \in Int
  BY <1>1, <1>3, <1>4, <1>6
<1>11. Before(c, d, TickerRank) <=> low < high \/ (low = high /\ TickerRank[c.ticker] < TickerRank[d.ticker])
  BY <1>2 DEF Before
<1>12. low = high => (Key(c) < Key(d) <=> TickerRank[c.ticker] < TickerRank[d.ticker])
  BY <1>1, <1>3, <1>4, <1>6
<1>13. low = high => (Key(c) = Key(d) => TickerRank[c.ticker] = TickerRank[d.ticker])
  BY <1>1, <1>3, <1>4, <1>6
<1>14. low < high \/ high < low \/ low = high
  BY <1>2
<1> QED
  BY <1>1, <1>2, <1>7, <1>8, <1>9, <1>10, <1>11, <1>12, <1>13, <1>14

\* Rows and their keys correspond one to one.
LEMMA KeysBijective ==
  ASSUME NEW C, C \subseteq [ticker : Tickers, score : 0 .. Whole], IsFiniteSet(C),
         \A c, d \in C : c.ticker = d.ticker => c = d
  PROVE  Cardinality(Keys(C)) = Cardinality(C)
<1> DEFINE f == [c \in C |-> Key(c)]
<1>1. f \in Surjection(C, Keys(C))
  BY DEF Surjection, Keys
<1>2. f \in Injection(C, Keys(C))
  BY <1>1, KeyOrder DEF Surjection, Injection, IsInjective
<1>3. f \in Bijection(C, Keys(C))
  BY <1>1, <1>2 DEF Bijection
<1>4. ExistsBijection(C, Keys(C))
  BY <1>3 DEF ExistsBijection
<1> QED
  BY <1>4, FS_Bijection

\* There are no more rows than tickers.
LEMMA ScoredFinite ==
  ASSUME NEW C, Scored(C)
  PROVE  IsFiniteSet(C)
<1> DEFINE f == [c \in C |-> c.ticker]
<1>1. f \in Injection(C, Tickers)
  BY DEF Scored, Injection, IsInjective
<1> QED
  BY <1>1, NamesRanked, FS_Injection

\* The rows before one of the list correspond to the keys before its own.
LEMMA PlaceIsRank ==
  ASSUME NEW C, Scored(C), NEW c \in C
  PROVE  Cardinality({d \in C : Before(d, c, TickerRank)}) = Rank(Keys(C), Key(c))
<1> DEFINE A == {d \in C : Before(d, c, TickerRank)}
<1>1. IsFiniteSet(A)
  BY ScoredFinite, FS_Subset
<1>2. Keys(A) = Earlier(Keys(C), Key(c))
  <2>1. \A d \in C : d \in A <=> Key(d) < Key(c)
    BY KeyOrder DEF Scored
  <2> HIDE DEF A
  <2>2. A \subseteq C
    BY DEF A
  <2> QED
    BY <2>1, <2>2 DEF Earlier, Keys
<1>3. A \subseteq C
  OBVIOUS
<1> HIDE DEF A
<1>4. Cardinality(Keys(A)) = Cardinality(A)
  BY <1>1, <1>3, KeysBijective DEF Scored
<1> QED
  BY <1>2, <1>4 DEF Rank, A

\* sortDescending gives every row its place: all are rows, no ticker comes twice, and no
\* score is below the score of a later row.
LEMMA SortDescends ==
  ASSUME NEW C, Scored(C)
  PROVE  LET list == SortDescending(C, TickerRank) IN
         /\ Cardinality(C) \in Nat /\ DOMAIN list = 1 .. Cardinality(C)
         /\ \A i \in DOMAIN list : list[i] \in C
         /\ \A i, j \in DOMAIN list : i < j => /\ list[i].ticker # list[j].ticker
                                               /\ list[j].score <= list[i].score
<1> DEFINE list == SortDescending(C, TickerRank)
           n == Cardinality(C)
<1>0. /\ n \in Nat /\ n = Cardinality(Keys(C)) /\ C \subseteq [ticker : Tickers, score : 0 .. Whole]
  BY ScoredFinite, FS_CardinalityType, KeysBijective DEF Scored
<1>1. /\ Keys(C) \in SUBSET Nat /\ LastKey \in Nat /\ \A k \in Keys(C) : k <= LastKey
  <2>1. \A c \in C : Key(c) \in 0 .. LastKey
    BY <1>0, KeyOrder
  <2>2. Whole \in Nat /\ Len(Names) \in Nat
    BY EngineAssumption, NamesRanked DEF EngineAssumption
  <2>3. Whole * (Len(Names) + 1) \in Nat
    BY <2>2
  <2>4. LastKey \in Nat
    BY <2>2, <2>3 DEF LastKey
  <2> QED
    BY <2>1, <2>4 DEF Keys
<1>2. DOMAIN list = 1 .. n
  BY DEF SortDescending
<1>3. ASSUME NEW i \in 1 .. n PROVE list[i] \in C /\ Rank(Keys(C), Key(list[i])) = i - 1
  <2>1. i - 1 \in Nat /\ i - 1 < Cardinality(Keys(C))
    BY <1>0
  <2>2. PICK k \in Keys(C) : Rank(Keys(C), k) = i - 1
    BY <1>1, <2>1, RankTaken
  <2>3. PICK c \in C : k = Key(c)
    BY DEF Keys
  <2>4. Cardinality({d \in C : Before(d, c, TickerRank)}) = i - 1
    BY <2>2, <2>3, PlaceIsRank
  <2>5. list[i] = CHOOSE e \in C : Cardinality({d \in C : Before(d, e, TickerRank)}) = i - 1
    BY DEF SortDescending
  <2>6. list[i] \in C /\ Cardinality({d \in C : Before(d, list[i], TickerRank)}) = i - 1
    <3> HIDE DEF list
    <3> QED
      BY <2>4, <2>5
  <2> HIDE DEF list
  <2> QED
    BY <2>6, PlaceIsRank
<1>4. ASSUME NEW i \in 1 .. n, NEW j \in 1 .. n, i < j
      PROVE  list[i].ticker # list[j].ticker /\ list[j].score <= list[i].score
  <2> HIDE DEF list
  <2>1. /\ list[i] \in C /\ list[j] \in C /\ i - 1 < j - 1
        /\ Rank(Keys(C), Key(list[i])) = i - 1 /\ Rank(Keys(C), Key(list[j])) = j - 1
    BY <1>0, <1>3, <1>4
  <2>2. Key(list[i]) \in Keys(C) /\ Key(list[j]) \in Keys(C)
    BY <2>1 DEF Keys
  <2>3. list[i] # list[j]
    BY <2>1
  <2>4. list[i].ticker # list[j].ticker
    BY <2>1, <2>3 DEF Scored
  <2>5. ~(list[j].score > list[i].score)
    <3>1. SUFFICES ASSUME list[j].score > list[i].score PROVE FALSE
      OBVIOUS
    <3>2. Before(list[j], list[i], TickerRank)
      BY <3>1 DEF Before
    <3>3. Key(list[j]) < Key(list[i])
      BY <1>0, <2>1, <3>2, KeyOrder
    <3>4. Key(list[j]) \in Nat /\ Key(list[i]) \in Nat
      BY <1>1, <2>2
    <3>5. Rank(Keys(C), Key(list[j])) < Rank(Keys(C), Key(list[i]))
      BY <1>1, <2>2, <3>3, <3>4, RankGrows
    <3> QED
      BY <1>0, <2>1, <3>5
  <2>6. list[i].score \in Int /\ list[j].score \in Int
    BY <1>0, <2>1, EngineAssumption DEF EngineAssumption
  <2> QED
    BY <2>4, <2>5, <2>6
<1> HIDE DEF list
<1> QED
  BY <1>0, <1>2, <1>3, <1>4 DEF list

-----------------------------------------------------------------------------
(* The list of a date *)

\* The rows of a date are of the screeners and of known tickers, and numbers.
TableOK(table) == /\ DOMAIN table \subseteq Range(Sources) \X Tickers
                  /\ \A k \in DOMAIN table : RowOK(table[k])

\* FilterBySource gives the tickers of the keys.
LEMMA OfSource ==
  ASSUME NEW table, TableOK(table), NEW source
  PROVE  \A t : t \in FilterBySource(table, source) <=> <<source, t>> \in DOMAIN table
<1>1. \A k \in DOMAIN table : k = <<k[1], k[2]>>
  BY DEF TableOK
<1>2. \A t : <<source, t>>[1] = source /\ <<source, t>>[2] = t
  OBVIOUS
<1>3. ASSUME NEW t, t \in FilterBySource(table, source) PROVE <<source, t>> \in DOMAIN table
  <2>1. PICK k \in DOMAIN table : k[1] = source /\ k[2] = t
    BY <1>3 DEF FilterBySource
  <2> QED
    BY <1>1, <2>1
<1>4. ASSUME NEW t, <<source, t>> \in DOMAIN table PROVE t \in FilterBySource(table, source)
  BY <1>2, <1>4 DEF FilterBySource
<1> QED
  BY <1>3, <1>4

\* The candidates are such a set, of tickers the momentum screener delivered.
LEMMA CandidatesScored ==
  ASSUME NEW table, TableOK(table), NEW weights \in LoadMomentumWeights, NEW label, NEW labels
  PROVE  /\ Scored(Candidates(table, weights, label, labels, Narrative))
         /\ \A c \in Candidates(table, weights, label, labels, Narrative) :
              c.ticker \in FilterBySource(table, "momentum")
<1> DEFINE C == Candidates(table, weights, label, labels, Narrative)
           Score(t) == ScaleScore(RawScore(table[<<"momentum", t>>], weights, LoadNarrativeScore(Narrative, t),
                                           t \in FilterBySource(table, "market_leaders")),
                                  RegimeMultiplier(label),
                                  SectorMultiplier(LookupSectorLabel(table[<<"momentum", t>>], labels)))
           Named == {t \in FilterBySource(table, "momentum") : Eligible(table[<<"momentum", t>>])}
<1>1. C = {[ticker |-> t, score |-> Score(t)] : t \in Named}
  BY DEF Candidates
<1>2. ASSUME NEW t \in Named PROVE t \in Tickers /\ Score(t) \in 0 .. Whole
  <2>1. <<"momentum", t>> \in DOMAIN table
    BY OfSource
  <2>2. t \in Tickers /\ RowOK(table[<<"momentum", t>>])
    BY <2>1 DEF TableOK
  <2>3. LoadNarrativeScore(Narrative, t) \in Nat
    <3>1. Deref(Narrative, t, 0) \in Int
      BY RankAssumption DEF Deref, RankAssumption
    <3> QED
      BY <3>1, ClampType DEF LoadNarrativeScore
  <2> DEFINE raw == RawScore(table[<<"momentum", t>>], weights, LoadNarrativeScore(Narrative, t),
                             t \in FilterBySource(table, "market_leaders"))
  <2>4. (t \in FilterBySource(table, "market_leaders")) \in BOOLEAN
    OBVIOUS
  <2>5. raw \in 0 .. Whole
    BY <2>2, <2>3, <2>4, RawScoreType
  <2>6. raw \in Nat
    BY <2>5
  <2> HIDE DEF raw
  <2>7. Score(t) \in 0 .. Whole
    BY <2>6, ScaleType DEF raw
  <2> QED
    BY <2>2, <2>7
<1> HIDE DEF Score
<1>3. C \subseteq [ticker : Tickers, score : 0 .. Whole]
  <2> HIDE DEF C, Named
  <2> QED
    BY <1>1, <1>2
<1>4. ASSUME NEW c \in C, NEW d \in C, c.ticker = d.ticker PROVE c = d
  <2>1. PICK t \in Named : c = [ticker |-> t, score |-> Score(t)]
    BY <1>1
  <2>2. PICK u \in Named : d = [ticker |-> u, score |-> Score(u)]
    BY <1>1
  <2>3. t = u
    BY <1>4, <2>1, <2>2
  <2> QED
    BY <2>1, <2>2, <2>3
<1>5. ASSUME NEW c \in C PROVE c.ticker \in FilterBySource(table, "momentum")
  <2>1. PICK t \in Named : c = [ticker |-> t, score |-> Score(t)]
    BY <1>1
  <2>2. c.ticker = t
    BY <2>1
  <2> QED
    BY <2>2
<1> QED
  BY <1>3, <1>4, <1>5 DEF Scored

\* A list to be stored: no ticker twice, and no score above an earlier one by more than
\* the boost.
Sorted(list) ==
  /\ Len(list) \in Nat /\ DOMAIN list = 1 .. Len(list)
  /\ \A i \in DOMAIN list : list[i].ticker \in Tickers
  /\ \A i, j \in DOMAIN list : i < j => /\ list[i].ticker # list[j].ticker
                                        /\ list[j].score * 100 <= list[i].score * 105

\* What the engine computes, before the boost.
LEMMA Computed ==
  ASSUME NEW table, TableOK(table), NEW weights \in LoadMomentumWeights, NEW label, NEW labels
  PROVE  LET ranked == Compute(table, weights, label, labels, Narrative, TickerRank) IN
         /\ Len(ranked) \in Nat /\ DOMAIN ranked = 1 .. Len(ranked) /\ (ranked # <<>> => Len(ranked) >= 1)
         /\ \A i \in DOMAIN ranked : ranked[i] \in [ticker : Tickers, score : 0 .. Whole]
         /\ \A i, j \in DOMAIN ranked : i < j => /\ ranked[i].ticker # ranked[j].ticker
                                                 /\ ranked[j].score <= ranked[i].score
<1> DEFINE C == Candidates(table, weights, label, labels, Narrative)
           list == SortDescending(C, TickerRank)
           ranked == Compute(table, weights, label, labels, Narrative, TickerRank)
<1>1. Scored(C)
  BY CandidatesScored
<1> HIDE DEF C
<1>2. /\ Cardinality(C) \in Nat /\ DOMAIN list = 1 .. Cardinality(C)
      /\ \A i \in DOMAIN list : list[i] \in C
      /\ \A i, j \in DOMAIN list : i < j => /\ list[i].ticker # list[j].ticker
                                            /\ list[j].score <= list[i].score
  BY <1>1, SortDescends
<1>3. ranked = TopN(list)
  BY DEF Compute, C
<1> HIDE DEF list, ranked
<1>4. list \in Seq(C) /\ Len(list) = Cardinality(C)
  <2>1. list \in [1 .. Cardinality(C) -> C]
    <3> DEFINE At(i) == CHOOSE c \in C : Cardinality({d \in C : Before(d, c, TickerRank)}) = i - 1
    <3>1. list = [i \in 1 .. Cardinality(C) |-> At(i)]
      BY DEF list, SortDescending
    <3> HIDE DEF At
    <3> QED
      BY <1>2, <3>1
  <2> QED
    BY <1>2, <2>1
<1> DEFINE n == Min({ListSize, Len(list)})
<1>5. n \in 0 .. Len(list)
  <2>1. ListSize \in Nat /\ Len(list) \in Nat /\ ListSize \in Int /\ Len(list) \in Int
    BY <1>2, <1>4, EngineAssumption DEF EngineAssumption
  <2>2. n = IF ListSize <= Len(list) THEN ListSize ELSE Len(list)
    BY <2>1, Extremes
  <2> QED
    BY <2>1, <2>2
<1>6. ranked = SubSeq(list, 1, n)
  BY <1>3 DEF TopN
<1> HIDE DEF n
<1>7. /\ ranked \in Seq(C) /\ Len(ranked) = n /\ n \in Nat
      /\ \A i \in 1 .. n : ranked[i] = list[i]
  BY <1>2, <1>4, <1>5, <1>6
<1>8. DOMAIN ranked = 1 .. n /\ \A i \in 1 .. n : i \in DOMAIN list
  BY <1>2, <1>4, <1>5, <1>7
<1>9. ranked # <<>> => n >= 1
  BY <1>7
<1>10. \A i \in DOMAIN ranked : ranked[i] \in [ticker : Tickers, score : 0 .. Whole]
  BY <1>1, <1>2, <1>7, <1>8 DEF Scored
<1> QED
  BY <1>2, <1>7, <1>8, <1>9, <1>10 DEF ranked

\* The boost leaves the list sorted up to its 5 %.
LEMMA BoostedSorted ==
  ASSUME NEW table, TableOK(table), NEW weights \in LoadMomentumWeights, NEW label, NEW labels, NEW leaders
  PROVE  LET ranked == Compute(table, weights, label, labels, Narrative, TickerRank)
         IN  /\ Sorted(ApplyLeadershipBoost(ranked, leaders))
             /\ ranked # <<>> => Len(ApplyLeadershipBoost(ranked, leaders)) >= 1
<1> DEFINE ranked == Compute(table, weights, label, labels, Narrative, TickerRank)
           list == ApplyLeadershipBoost(ranked, leaders)
<1>1. /\ Len(ranked) \in Nat /\ DOMAIN ranked = 1 .. Len(ranked) /\ (ranked # <<>> => Len(ranked) >= 1)
      /\ \A i \in DOMAIN ranked : ranked[i] \in [ticker : Tickers, score : 0 .. Whole]
      /\ \A i, j \in DOMAIN ranked : i < j => /\ ranked[i].ticker # ranked[j].ticker
                                              /\ ranked[j].score <= ranked[i].score
  BY Computed
<1> HIDE DEF ranked
<1>2. list = [i \in 1 .. Len(ranked) |-> IF ranked[i].ticker \in leaders
                                         THEN [ranked[i] EXCEPT !.score = (@ * 105) \div 100] ELSE ranked[i]]
  BY <1>1 DEF ApplyLeadershipBoost
<1>3. DOMAIN list = 1 .. Len(ranked)
  BY <1>2
<1>4. ASSUME NEW i \in 1 .. Len(ranked)
      PROVE  /\ list[i].ticker = ranked[i].ticker /\ list[i].ticker \in Tickers
             /\ ranked[i].score \in Nat /\ list[i].score \in Nat
             /\ ranked[i].score <= list[i].score /\ list[i].score * 100 <= ranked[i].score * 105
  <2>0. ranked[i] \in [ticker : Tickers, score : 0 .. Whole] /\ Whole \in Nat
    BY <1>1, EngineAssumption DEF EngineAssumption
  <2>1. CASE ranked[i].ticker \in leaders
    <3>1. list[i] = [ranked[i] EXCEPT !.score = (@ * 105) \div 100]
      BY <1>2, <2>1
    <3>2. list[i].ticker = ranked[i].ticker /\ list[i].score = (ranked[i].score * 105) \div 100
      BY <2>0, <3>1
    <3>3. ranked[i].score \in Nat /\ ranked[i].ticker \in Tickers
      BY <2>0
    <3> HIDE DEF list
    <3> QED
      BY <3>2, <3>3
  <2>2. CASE ranked[i].ticker \notin leaders
    <3>1. list[i] = ranked[i]
      BY <1>2, <2>2
    <3> HIDE DEF list
    <3> QED
      BY <2>0, <3>1
  <2> QED
    BY <2>1, <2>2
<1>5. Len(list) = Len(ranked)
  BY <1>1, <1>2
<1> HIDE DEF list
<1>6. ASSUME NEW i \in DOMAIN list, NEW j \in DOMAIN list, i < j
      PROVE  list[i].ticker # list[j].ticker /\ list[j].score * 100 <= list[i].score * 105
  <2>1. i \in 1 .. Len(ranked) /\ j \in 1 .. Len(ranked)
    BY <1>3
  <2>2. ranked[i].ticker # ranked[j].ticker /\ ranked[j].score <= ranked[i].score
    BY <1>1, <1>6, <2>1
  <2>3. list[i].ticker # list[j].ticker
    BY <1>4, <2>1, <2>2
  <2>4. list[j].score * 100 <= ranked[j].score * 105 /\ ranked[i].score <= list[i].score
    BY <1>4, <2>1
  <2>5. /\ list[i].score \in Nat /\ list[j].score \in Nat
        /\ ranked[i].score \in Nat /\ ranked[j].score \in Nat
    BY <1>4, <2>1
  <2>6. list[j].score * 100 <= list[i].score * 105
    BY <2>2, <2>4, <2>5
  <2> QED
    BY <2>3, <2>6
<1>7. Sorted(list)
  BY <1>1, <1>3, <1>4, <1>5, <1>6 DEF Sorted
<1> QED
  BY <1>1, <1>5, <1>7 DEF list, ranked

-----------------------------------------------------------------------------
(* What the API stores *)

\* The row of an entry is a row of numbers, the distance from the high included.
LEMMA SnapshotRowOK ==
  ASSUME NEW entry, \A f \in DOMAIN entry \ {"symbol", "exchange", "sector"} : entry[f] \in Int
  PROVE  RowOK(SnapshotRow(entry))
<1> DEFINE derived == IF {"close", "high52w"} \subseteq DOMAIN entry /\ entry.high52w > 0 THEN {"dist"} ELSE {}
           row == SnapshotRow(entry)
<1>1. row = [f \in (Copied \cap DOMAIN entry) \cup derived |->
               IF f = "dist" THEN Distance52wHigh(entry) ELSE entry[f]]
  BY DEF SnapshotRow
<1>2. ASSUME NEW f \in (Copied \cap DOMAIN entry) \cup derived, f # "sector"
      PROVE  (IF f = "dist" THEN Distance52wHigh(entry) ELSE entry[f]) \in Int
  <2>1. "dist" \notin Copied
    BY DEF Copied
  <2>2. CASE f = "dist"
    <3>1. /\ "close" \in DOMAIN entry /\ "high52w" \in DOMAIN entry /\ entry.high52w > 0
      BY <2>1, <2>2
    <3>2. entry.close \in Int /\ entry.high52w \in Int
      BY <3>1
    <3>3. 100 * entry.close \in Int
      BY <3>2
    <3>4. (100 * entry.close) \div entry.high52w \in Int
      BY <3>1, <3>2, <3>3
    <3> QED
      BY <2>2, <3>4 DEF Distance52wHigh
  <2>3. CASE f # "dist"
    <3>1. f \in Copied /\ f \in DOMAIN entry
      BY <2>3
    <3>2. f \notin {"symbol", "exchange", "sector"}
      BY <1>2, <3>1 DEF Copied
    <3> QED
      BY <2>3, <3>1, <3>2
  <2> QED
    BY <2>2, <2>3
<1> HIDE DEF row, derived
<1> QED
  BY <1>1, <1>2 DEF RowOK, row

\* So are the rows of a payload: the last entry of a ticker is one of its entries.
LEMMA ExtractedOK ==
  ASSUME NEW payload, PayloadOK(payload), NEW s \in DOMAIN payload
  PROVE  \A t \in DOMAIN ExtractTVSnapshots(payload[s]) : RowOK(ExtractTVSnapshots(payload[s])[t])
<1> DEFINE entries == payload[s]
           accepted == {i \in DOMAIN entries :
                          /\ {"exchange", "symbol"} \subseteq DOMAIN entries[i]
                          /\ entries[i].exchange \in MajorExchanges}
           Of(t) == {i \in accepted : entries[i].symbol = t}
           snaps == ExtractTVSnapshots(entries)
<1>1. snaps = [t \in {entries[i].symbol : i \in accepted} |-> SnapshotRow(entries[Max(Of(t))])]
  BY DEF ExtractTVSnapshots
<1>2. /\ Len(entries) \in Nat /\ DOMAIN entries = 1 .. Len(entries)
  BY DEF PayloadOK
<1>3. \A i \in DOMAIN entries :
        \A f \in DOMAIN entries[i] \ {"symbol", "exchange", "sector"} : entries[i][f] \in Int
  BY DEF PayloadOK, Range
<1> HIDE DEF snaps, entries
<1>4. ASSUME NEW i \in accepted PROVE Max(Of(entries[i].symbol)) \in DOMAIN entries
  <2> DEFINE S == Of(entries[i].symbol)
  <2>1. S \in SUBSET Nat /\ S # {} /\ \A n \in S : n <= Len(entries)
    BY <1>2
  <2>2. S \subseteq DOMAIN entries
    OBVIOUS
  <2> HIDE DEF S
  <2>3. PICK last \in S : \A m \in S : m <= last
    BY <1>2, <2>1, GreatestNatural
  <2>4. \A m \in S : last >= m
    BY <2>1, <2>3
  <2>5. Max(S) \in S
    BY <2>3, <2>4 DEF Max
  <2> QED
    BY <2>2, <2>5 DEF S
<1>5. ASSUME NEW i \in accepted PROVE RowOK(SnapshotRow(entries[Max(Of(entries[i].symbol))]))
  <2> DEFINE last == Max(Of(entries[i].symbol))
  <2>1. last \in DOMAIN entries
    BY <1>4
  <2> HIDE DEF last
  <2>2. \A f \in DOMAIN entries[last] \ {"symbol", "exchange", "sector"} : entries[last][f] \in Int
    BY <1>3, <2>1
  <2> QED
    BY <2>2, SnapshotRowOK DEF last
<1> HIDE DEF accepted, Of
<1>6. ASSUME NEW t \in DOMAIN snaps PROVE RowOK(snaps[t])
  <2>1. PICK i \in accepted : t = entries[i].symbol
    BY <1>1
  <2>2. snaps[t] = SnapshotRow(entries[Max(Of(entries[i].symbol))])
    BY <1>1, <2>1
  <2> QED
    BY <1>5, <2>2
<1> QED
  BY <1>6 DEF snaps, entries

\* An upsert keeps every row's key, and rows are what rows should be.
LEMMA InsertBatchOK ==
  ASSUME NEW table, TableOK(table), NEW payload \in Deliveries
  PROVE  LET after == InsertBatch(table, [s \in DOMAIN payload |-> ExtractTVSnapshots(payload[s])])
         IN  TableOK(after) /\ DOMAIN table \subseteq DOMAIN after
<1> DEFINE snaps == [s \in DOMAIN payload |-> ExtractTVSnapshots(payload[s])]
           delivered == {k \in (DOMAIN snaps) \X Tickers : k[2] \in DOMAIN snaps[k[1]]}
           after == InsertBatch(table, snaps)
<1>1. DOMAIN payload \subseteq Range(Sources) /\ PayloadOK(payload)
  BY RankAssumption DEF RankAssumption
<1>2. after = [k \in DOMAIN table \cup delivered |-> IF k \in delivered THEN snaps[k[1]][k[2]] ELSE table[k]]
  BY DEF InsertBatch
<1>3. DOMAIN snaps = DOMAIN payload /\ \A s \in DOMAIN payload : snaps[s] = ExtractTVSnapshots(payload[s])
  OBVIOUS
<1> HIDE DEF snaps
<1>4. ASSUME NEW k \in delivered PROVE k \in Range(Sources) \X Tickers /\ RowOK(snaps[k[1]][k[2]])
  <2>1. k[1] \in DOMAIN payload /\ k[2] \in DOMAIN snaps[k[1]] /\ k \in (DOMAIN payload) \X Tickers
    BY <1>3
  <2>2. RowOK(snaps[k[1]][k[2]])
    BY <1>1, <1>3, <2>1, ExtractedOK
  <2> QED
    BY <1>1, <2>1, <2>2
<1> HIDE DEF delivered, after
<1>5. DOMAIN after = DOMAIN table \cup delivered
  BY <1>2
<1>6. ASSUME NEW k \in DOMAIN after PROVE RowOK(after[k])
  <2>1. CASE k \in delivered
    BY <1>2, <1>4, <1>5, <2>1
  <2>2. CASE k \notin delivered
    BY <1>2, <1>5, <2>2 DEF TableOK
  <2> QED
    BY <2>1, <2>2
<1>7. DOMAIN after \subseteq Range(Sources) \X Tickers
  BY <1>4, <1>5 DEF TableOK
<1> QED
  BY <1>5, <1>6, <1>7 DEF TableOK, after, snaps

-----------------------------------------------------------------------------
(* What a prompt shows and an answer recommends *)

\* The elements of a sequence at some of its places are among its elements.
LEMMA KeptElements ==
  ASSUME NEW seq, Len(seq) \in Nat, DOMAIN seq = 1 .. Len(seq), NEW places \in SUBSET DOMAIN seq
  PROVE  /\ DOMAIN Kept(seq, places) = 1 .. Cardinality(places)
         /\ \A i \in DOMAIN Kept(seq, places) : \E p \in places : Kept(seq, places)[i] = seq[p]
<1> DEFINE At(i) == CHOOSE p \in places : Cardinality({j \in places : j < p}) = i - 1
<1>1. Kept(seq, places) = [i \in 1 .. Cardinality(places) |-> seq[At(i)]]
  BY DEF Kept
<1>2. places \in SUBSET Nat /\ \A p \in places : p <= Len(seq)
  OBVIOUS
<1>3. Cardinality(places) \in Nat
  BY <1>2, FS_BoundedSetOfNaturals, FS_CardinalityType
<1>4. ASSUME NEW i \in 1 .. Cardinality(places) PROVE At(i) \in places
  <2>1. i - 1 \in Nat /\ i - 1 < Cardinality(places)
    BY <1>3
  <2>2. PICK p \in places : Rank(places, p) = i - 1
    BY <1>2, <2>1, RankTaken
  <2>3. Cardinality({j \in places : j < p}) = i - 1
    BY <2>2 DEF Rank, Earlier
  <2> QED
    BY <2>3
<1> HIDE DEF At
<1> QED
  BY <1>1, <1>4

\* What the JSON contract recommends has a row of the prompt.
LEMMA RecommendedWereShown ==
  ASSUME NEW answer, answer.selections \in Seq(Range(answer.selections)), NEW shown, NEW evaluation,
         evaluation.parsed = ParseResponse(answer, BuildTickerMapping(shown)),
         evaluation.parsed.parser = "json-v1"
  PROVE  Recommended(evaluation) \subseteq Range(shown)
<1> DEFINE toReal == BuildTickerMapping(shown)
           places == {i \in DOMAIN answer.selections : Acceptable(answer.selections[i], toReal)}
           accepted == Kept(answer.selections, places)
           tickers == ParseMomentumResponse(answer, toReal)
<1>1. DOMAIN toReal = DOMAIN shown /\ \A i \in DOMAIN shown : toReal[i] = shown[i]
  BY DEF BuildTickerMapping
<1>2. ParseResponse(answer, toReal).parser = "json-v1" => ParseResponse(answer, toReal).tickers = tickers
  BY DEF ParseResponse, MomentumResultToEvaluation, ParsedOutput
<1>3. tickers = IF answer.json # "block" THEN <<>>
                ELSE [i \in DOMAIN accepted |->
                        [ticker |-> toReal[accepted[i].id], rank |-> accepted[i].rank,
                         entry |-> accepted[i].entry, stop |-> accepted[i].stop]]
  BY DEF ParseMomentumResponse
<1>4. evaluation.parsed.tickers = tickers
  BY <1>2
<1>5. ASSUME NEW i \in DOMAIN accepted PROVE accepted[i].id \in DOMAIN toReal
  <2>1. places \in SUBSET DOMAIN answer.selections /\ \A p \in places : Acceptable(answer.selections[p], toReal)
    OBVIOUS
  <2> HIDE DEF places
  <2>2. Len(answer.selections) \in Nat /\ DOMAIN answer.selections = 1 .. Len(answer.selections)
    OBVIOUS
  <2> DEFINE kept == Kept(answer.selections, places)
  <2>3. \A j \in DOMAIN kept : \E p \in places : kept[j] = answer.selections[p]
    BY <2>1, <2>2, KeptElements
  <2>4. PICK p \in places : accepted[i] = answer.selections[p]
    BY <2>3
  <2> QED
    BY <2>1, <2>4 DEF Acceptable
<1> HIDE DEF toReal, accepted, tickers
<1>6. ASSUME NEW i \in DOMAIN tickers PROVE tickers[i].ticker \in Range(shown)
  <2>1. CASE answer.json # "block"
    BY <1>3, <2>1
  <2>2. CASE answer.json = "block"
    <3>1. i \in DOMAIN accepted /\ tickers[i].ticker = toReal[accepted[i].id]
      BY <1>3, <2>2
    <3> QED
      BY <1>1, <1>5, <3>1 DEF Range
  <2> QED
    BY <2>1, <2>2
<1> QED
  BY <1>4, <1>6 DEF Recommended

-----------------------------------------------------------------------------
(* The invariant *)

\* The dates are those of the model, and the rows of a date are numbers of known tickers.
WorldOK == /\ day \in Dates /\ DOMAIN rows = Dates
           /\ \A d \in Dates : TableOK(rows[d])

TablesOK ==
  /\ DOMAIN regime \subseteq Dates /\ Range(regime) \subseteq Regimes
  /\ DOMAIN sectors \subseteq Dates \X ETFs
  /\ DOMAIN ranks \subseteq Dates \X Tickers
  /\ renewed \in [Dates -> [etfs : SUBSET ETFs, tickers : SUBSET Tickers]]
  /\ DOMAIN evaluations \subseteq Dates /\ DOMAIN reports \subseteq DOMAIN evaluations

Fields == {"pc", "date", "scores", "list", "at"}

RunOK == /\ DOMAIN run = Fields /\ run.pc \in Phases /\ run.date \in Dates /\ run.date <= day
         /\ run.pc = "storeSectors" => DOMAIN run.scores \subseteq ETFs
         /\ run.pc \in {"transform", "storeReport"} => run.date \in DOMAIN evaluations

\* The list being stored is sorted, and what the run has stored of it is all it has
\* renewed for its date.
Storing ==
  /\ Sorted(run.list) /\ run.at \in 1 .. Len(run.list)
  /\ renewed[run.date].tickers = {run.list[k].ticker : k \in 1 .. run.at - 1}
  /\ \A k \in 1 .. run.at - 1 :
       /\ <<run.date, run.list[k].ticker>> \in DOMAIN ranks
       /\ ranks[<<run.date, run.list[k].ticker>>] = [rank |-> k, score |-> run.list[k].score]

ListOK ==
  /\ run.pc \in {"regime", "sectors", "storeSectors", "rank"} => renewed[run.date].tickers = {}
  /\ run.pc = "storeList" => Storing
  /\ \A d \in Dates : \A t \in renewed[d].tickers : <<d, t>> \in DOMAIN ranks
  /\ RanksFollowScores

\* What a call is about has been ranked, and what its prompt shows is in the rows.
Ranked(d, t) == <<d, t>> \in DOMAIN ranks
Delivered(d, t) == <<"momentum", t>> \in DOMAIN rows[d]

CallOK ==
  /\ DOMAIN call = {"tickers", "shown", "prompt", "attempts", "text"}
  /\ run.pc \notin {"prompt", "generate", "storeEvaluation"} => call = NoCall
  /\ run.pc = "prompt" => /\ call.attempts = 0
                          /\ Len(call.tickers) \in Nat /\ DOMAIN call.tickers = 1 .. Len(call.tickers)
                          /\ \A t \in Range(call.tickers) : Ranked(run.date, t)
  /\ run.pc = "generate" => call.attempts \in 0 .. 1
  /\ run.pc = "storeEvaluation" => call.attempts \in 0 .. 2 /\ call.text \in DOMAIN Reading
  /\ run.pc \in {"generate", "storeEvaluation"} =>
       \A t \in Range(call.shown) : Ranked(run.date, t) /\ Delivered(run.date, t)

\* From its check on, a run that is about to publish still finds nothing published
\* for its date.
NotYetPublished ==
  /\ run.pc \in {"prompt", "generate", "storeEvaluation"} => run.date \notin DOMAIN evaluations
  /\ run.pc \in {"transform", "storeReport"} => run.date \notin DOMAIN reports

\* The ETFs whose score is not waiting any more have a row, and a renewed one.
Crossed == /\ ETFs \ DOMAIN run.scores \subseteq renewed[run.date].etfs
           /\ ETFs \ DOMAIN run.scores \subseteq OfDate(sectors, run.date)

WholeSectors == /\ run.pc = "storeSectors" => Crossed
                /\ RankingReadsWholeSectors

Inv == /\ WorldOK /\ TablesOK /\ RunOK
       /\ ListOK /\ CallOK /\ RecommendedWereRanked
       /\ NotYetPublished /\ WholeSectors

\* The invariant is stronger than the type invariant.
LEMMA TypesFollow == Inv => TypeOK
<1> SUFFICES ASSUME Inv PROVE TypeOK
  OBVIOUS
<1>1. RankTypeOK
  BY DEF Inv, WorldOK, TablesOK, RunOK, RankTypeOK
<1>2. call.attempts \in 0 .. 2
  <2>1. NoCall.attempts = 0
    BY DEF NoCall
  <2> QED
    BY <2>1 DEF Inv, CallOK
<1> QED
  BY <1>1, <1>2 DEF Inv, TablesOK, RunOK, TypeOK

-----------------------------------------------------------------------------
(* The types *)

\* The run that is over.
LEMMA IdleFields == /\ DOMAIN Idle = Fields /\ Idle.pc = "idle" /\ Idle.date \in Dates
                    /\ \A d \in Dates : FirstDay <= d /\ d \in Nat
  BY RankAssumption DEF Idle, Fields, Dates, RankAssumption

\* A run that moves on without a table being changed.
LEMMA RunMoves ==
  ASSUME RunOK, DOMAIN run' = DOMAIN run, run'.date = run.date, day' = day,
         DOMAIN evaluations \subseteq DOMAIN evaluations',
         run'.pc \in Phases,
         run'.pc = "storeSectors" => DOMAIN run'.scores \subseteq ETFs,
         run'.pc \in {"transform", "storeReport"} => run.date \in DOMAIN evaluations
  PROVE  RunOK'
BY DEF RunOK

\* A run that starts or ends.
LEMMA RunStarts ==
  ASSUME WorldOK, day' = day, NEW date \in Dates, date <= day,
         NEW pc \in {"idle", "regime", "evaluate", "report"}, run' = [Idle EXCEPT !.pc = pc, !.date = date]
  PROVE  RunOK'
<1>1. DOMAIN run' = Fields /\ run'.pc = pc /\ run'.date = date
  BY IdleFields DEF Fields
<1>2. pc \in Phases
  BY DEF Phases
<1> QED
  BY <1>1, <1>2 DEF RunOK

\* A run that ends.
LEMMA RunEnds ==
  ASSUME WorldOK, day' = day, run' = Idle
  PROVE  RunOK'
<1>1. FirstDay <= day
  BY IdleFields DEF WorldOK
<1>2. run'.date <= day' /\ run'.pc = "idle" /\ "idle" \in Phases
  BY <1>1 DEF Idle, Phases
<1> QED
  BY <1>2, IdleFields DEF RunOK

\* The day only goes up, and no row of a screener is lost.
LEMMA WorldKept ==
  ASSUME Inv, [Next]_vars
  PROVE  WorldOK' /\ day <= day' /\ \A d \in Dates : DOMAIN rows[d] \subseteq DOMAIN rows'[d]
<1>0. WorldOK /\ day \in Nat
  BY IdleFields DEF Inv, WorldOK
<1>1. CASE NextDay
  <2>1. day' = day + 1 /\ day < MaxDay /\ rows' = rows
    BY <1>1 DEF NextDay
  <2>2. day' \in Dates
    BY <1>0, <2>1, RankAssumption DEF WorldOK, Dates, RankAssumption
  <2> QED
    BY <1>0, <2>1, <2>2 DEF WorldOK
<1>2. CASE \E payload \in Deliveries : PostSnapshot(payload)
  <2>1. PICK payload \in Deliveries : PostSnapshot(payload)
    BY <1>2
  <2> DEFINE after == InsertBatch(rows[day], [s \in DOMAIN payload |-> ExtractTVSnapshots(payload[s])])
  <2>2. rows' = [rows EXCEPT ![day] = after] /\ day' = day
    BY <2>1 DEF PostSnapshot
  <2>3. TableOK(after) /\ DOMAIN rows[day] \subseteq DOMAIN after
    BY <1>0, InsertBatchOK DEF WorldOK
  <2> HIDE DEF after
  <2> QED
    BY <1>0, <2>2, <2>3 DEF WorldOK
<1>3. CASE UNCHANGED <<day, rows>>
  BY <1>0, <1>3 DEF WorldOK
<1>4. NextDay \/ (\E payload \in Deliveries : PostSnapshot(payload)) \/ UNCHANGED <<day, rows>>
  BY DEF Next, vars, rankVars, World, RankSteps, EvaluationSteps, ReportSteps, Stop, Abort,
         StartRun, Start, RunListEvaluation, RunCommercialReport, ClassifyRegime, ComputeSectors,
         UpsertSectorScore, ComputeList, UpsertRankList, LoadList, RenderPrompt, UpsertEvaluation,
         EvaluationFails, Generate, GenerateFails, LoadMemos, Transform, UpsertCommercialReport, ReportFails
<1> QED
  BY <1>1, <1>2, <1>3, <1>4

\* What each step may change.
LEMMA Frame ==
  ASSUME [Next]_vars
  PROVE  /\ regime' = regime \/ \E label \in Regimes : ClassifyRegime(label)
         /\ sectors' = sectors \/ \E etf \in ETFs : UpsertSectorScore(etf)
         /\ ranks' = ranks \/ UpsertRankList
         /\ \/ renewed' = renewed
            \/ \E date \in Dates : StartRun(date)
            \/ \E etf \in ETFs : UpsertSectorScore(etf)
            \/ UpsertRankList
         /\ evaluations' = evaluations \/ UpsertEvaluation
         /\ reports' = reports \/ UpsertCommercialReport
<1> USE DEF Next, vars, rankVars, World, RankSteps, EvaluationSteps, ReportSteps, Stop, Abort
<1>1. regime' = regime \/ \E label \in Regimes : ClassifyRegime(label)
  BY DEF NextDay, PostSnapshot, StartRun, RunListEvaluation, RunCommercialReport, ComputeSectors,
         UpsertSectorScore, ComputeList, UpsertRankList, LoadList, RenderPrompt, UpsertEvaluation,
         EvaluationFails, Generate, GenerateFails, LoadMemos, Transform, UpsertCommercialReport, ReportFails
<1>2. sectors' = sectors \/ \E etf \in ETFs : UpsertSectorScore(etf)
  BY DEF NextDay, PostSnapshot, StartRun, RunListEvaluation, RunCommercialReport,
         ClassifyRegime, ComputeSectors,
         ComputeList, UpsertRankList, LoadList, RenderPrompt, UpsertEvaluation,
         EvaluationFails, Generate, GenerateFails, LoadMemos, Transform, UpsertCommercialReport, ReportFails
<1>3. ranks' = ranks \/ UpsertRankList
  BY DEF NextDay, PostSnapshot, StartRun, RunListEvaluation, RunCommercialReport,
         ClassifyRegime, ComputeSectors,
         UpsertSectorScore, ComputeList, LoadList, RenderPrompt, UpsertEvaluation,
         EvaluationFails, Generate, GenerateFails, LoadMemos, Transform, UpsertCommercialReport, ReportFails
<1>4. \/ renewed' = renewed
      \/ \E date \in Dates : StartRun(date)
      \/ \E etf \in ETFs : UpsertSectorScore(etf)
      \/ UpsertRankList
  BY DEF NextDay, PostSnapshot, RunListEvaluation, RunCommercialReport, ClassifyRegime,
         ComputeSectors,
         ComputeList, LoadList, RenderPrompt, UpsertEvaluation,
         EvaluationFails, Generate, GenerateFails, LoadMemos, Transform, UpsertCommercialReport, ReportFails
<1>5. evaluations' = evaluations \/ UpsertEvaluation
  BY DEF RunListEvaluation, RunCommercialReport, LoadList, RenderPrompt,
         EvaluationFails, Generate, GenerateFails, LoadMemos, Transform, UpsertCommercialReport, ReportFails
<1>6. reports' = reports \/ UpsertCommercialReport
  BY DEF RunListEvaluation, RunCommercialReport, LoadMemos, Transform, ReportFails
<1> QED
  BY <1>1, <1>2, <1>3, <1>4, <1>5, <1>6

\* The tables stay keyed as they are, and nothing ranked or evaluated is removed.
LEMMA TablesKept ==
  ASSUME Inv, [Next]_vars
  PROVE  TablesOK' /\ DOMAIN evaluations \subseteq DOMAIN evaluations' /\ DOMAIN ranks \subseteq DOMAIN ranks'
<1>0. /\ TablesOK /\ RunOK /\ run.date \in Dates
      /\ \A d \in Dates : /\ renewed[d].etfs \subseteq ETFs /\ renewed[d].tickers \subseteq Tickers
                          /\ DOMAIN renewed[d] = {"etfs", "tickers"}
  BY DEF Inv, TablesOK, RunOK
<1>1. DOMAIN regime' \subseteq Dates /\ Range(regime') \subseteq Regimes
  <2>1. CASE regime' = regime
    BY <1>0, <2>1 DEF TablesOK
  <2>2. CASE \E label \in Regimes : ClassifyRegime(label)
    <3>1. PICK label \in Regimes : regime' = Put(regime, run.date, label)
      BY <2>2 DEF ClassifyRegime
    <3>2. DOMAIN regime' = DOMAIN regime \cup {run.date}
      BY <3>1 DEF Put
    <3>3. \A d \in DOMAIN regime' : regime'[d] \in Regimes
      BY <1>0, <3>1, <3>2 DEF Put, TablesOK, Range
    <3> QED
      BY <1>0, <3>2, <3>3 DEF TablesOK, Range
  <2> QED
    BY <2>1, <2>2, Frame
<1>2. DOMAIN sectors' \subseteq Dates \X ETFs
  <2>1. CASE sectors' = sectors
    BY <1>0, <2>1 DEF TablesOK
  <2>2. CASE \E etf \in ETFs : UpsertSectorScore(etf)
    <3>1. PICK etf \in ETFs : DOMAIN sectors' = DOMAIN sectors \cup {<<run.date, etf>>}
      BY <2>2 DEF Put, UpsertSectorScore, StoreSectorScore
    <3> QED
      BY <1>0, <3>1 DEF TablesOK
  <2> QED
    BY <2>1, <2>2, Frame
<1>3. ASSUME UpsertRankList
      PROVE  /\ run.list[run.at].ticker \in Tickers
             /\ DOMAIN ranks' = DOMAIN ranks \cup {<<run.date, run.list[run.at].ticker>>}
  <2>1. Storing
    BY <1>3 DEF Inv, ListOK, UpsertRankList
  <2> QED
    BY <1>3, <2>1 DEF Put, Storing, Sorted, UpsertRankList, StoreRank
<1>4. DOMAIN ranks' \subseteq Dates \X Tickers /\ DOMAIN ranks \subseteq DOMAIN ranks'
  <2>1. CASE ranks' = ranks
    BY <1>0, <2>1 DEF TablesOK
  <2>2. CASE UpsertRankList
    BY <1>0, <1>3, <2>2 DEF TablesOK
  <2> QED
    BY <2>1, <2>2, Frame
<1>5. renewed' \in [Dates -> [etfs : SUBSET ETFs, tickers : SUBSET Tickers]]
  <2>1. CASE renewed' = renewed
    BY <1>0, <2>1 DEF TablesOK
  <2>2. CASE \E date \in Dates : StartRun(date)
    BY <1>0, <2>2 DEF StartRun, NoneRenewed, TablesOK
  <2>3. CASE \E etf \in ETFs : UpsertSectorScore(etf)
    BY <1>0, <2>3 DEF UpsertSectorScore, StoreSectorScore, TablesOK
  <2>4. CASE UpsertRankList
    <3>1. renewed' = [renewed EXCEPT ![run.date].tickers = @ \cup {run.list[run.at].ticker}]
      BY <2>4 DEF UpsertRankList, StoreRank
    <3> QED
      BY <1>0, <1>3, <2>4, <3>1 DEF TablesOK
  <2> QED
    BY <2>1, <2>2, <2>3, <2>4, Frame
<1>6. DOMAIN evaluations' \subseteq Dates /\ DOMAIN evaluations \subseteq DOMAIN evaluations'
  BY <1>0, Frame DEF Put, TablesOK, UpsertEvaluation
<1>7. DOMAIN reports' \subseteq DOMAIN evaluations'
  <2>1. CASE reports' = reports
    BY <1>0, <1>6, <2>1 DEF TablesOK
  <2>2. CASE UpsertCommercialReport
    BY <1>0, <1>6, <2>2 DEF Put, UpsertCommercialReport, TablesOK, RunOK
  <2> QED
    BY <2>1, <2>2, Frame
<1> QED
  BY <1>1, <1>2, <1>4, <1>5, <1>6, <1>7 DEF TablesOK

\* A run stays on its way, for a date that has begun.
LEMMA RunKept ==
  ASSUME Inv, [Next]_vars
  PROVE  RunOK'
<1>0. /\ WorldOK /\ RunOK /\ DOMAIN run = Fields /\ day <= day' /\ day' \in Nat /\ day \in Nat
      /\ DOMAIN evaluations \subseteq DOMAIN evaluations'
  BY WorldKept, TablesKept, IdleFields DEF Inv, RunOK, WorldOK
<1>1. CASE run' = run
  <2>1. run.date \in Nat
    BY <1>0, IdleFields DEF RunOK
  <2> QED
    BY <1>0, <1>1, <2>1 DEF RunOK
<1>2. CASE run' = Idle /\ day' = day
  BY <1>0, <1>2, RunEnds
<1>3. CASE \E date \in Dates, pc \in {"regime", "evaluate", "report"} : Start(date, pc) /\ day' = day
  BY <1>0, <1>3, RunStarts DEF Start
<1>4. CASE RankSteps /\ UNCHANGED <<evaluations, call, reports, draft>>
  <2>1. CASE \E label \in Regimes : ClassifyRegime(label)
    BY <1>0, <2>1, RunMoves DEF ClassifyRegime, Fields, Phases
  <2>2. CASE ComputeSectors
    <3>1. DOMAIN BuildSectorScores(Histories) \subseteq ETFs
      BY DEF BuildSectorScores, Histories, ETFs
    <3> QED
      BY <1>0, <2>2, <3>1, RunMoves DEF ComputeSectors, Fields, Phases
  <2>3. CASE \E etf \in ETFs : UpsertSectorScore(etf)
    <3>1. PICK etf \in ETFs : UpsertSectorScore(etf)
      BY <2>3
    <3>2. /\ DOMAIN run' = DOMAIN run /\ run'.date = run.date /\ day' = day
          /\ run.pc = "storeSectors" /\ run'.pc \in {"storeSectors", "rank"}
          /\ run'.scores = Restrict(run.scores, DOMAIN run.scores \ {etf})
      BY <1>0, <3>1 DEF UpsertSectorScore, Fields
    <3>3. DOMAIN run'.scores \subseteq DOMAIN run.scores
      BY <3>2 DEF Restrict
    <3> QED
      BY <1>0, <3>2, <3>3, RunMoves DEF Phases, RunOK
  <2>4. CASE \E regimeRead, scoresRead \in BOOLEAN, weights \in LoadMomentumWeights :
               ComputeList(regimeRead, scoresRead, weights)
    <3>1. /\ DOMAIN run' = DOMAIN run /\ run'.date = run.date /\ day' = day
          /\ run'.pc \in {"evaluate", "storeList"}
      BY <1>0, <2>4 DEF ComputeList, Fields
    <3> QED
      BY <1>0, <3>1, RunMoves DEF Phases
  <2>5. CASE UpsertRankList
    <3>1. /\ DOMAIN run' = DOMAIN run /\ run'.date = run.date /\ day' = day
          /\ run'.pc \in {"evaluate", "storeList"}
      BY <1>0, <2>5 DEF UpsertRankList, Fields
    <3> QED
      BY <1>0, <3>1, RunMoves DEF Phases
  <2> QED
    BY <1>4, <2>1, <2>2, <2>3, <2>4, <2>5 DEF RankSteps
<1>5. CASE EvaluationSteps
  <2>1. /\ DOMAIN run' = DOMAIN run /\ run'.date = run.date /\ day' = day
        /\ run'.pc \in {"report", "prompt", "generate", "storeEvaluation"}
    BY <1>0, <1>5
       DEF EvaluationSteps, LoadList, RenderPrompt, UpsertEvaluation, EvaluationFails, Generate,
                      GenerateFails, LeaveEvaluation, Fields
  <2> QED
    BY <1>0, <2>1, RunMoves DEF Phases
<1>6. CASE \/ \E regimeRead, breadthRead \in BOOLEAN : LoadMemos(regimeRead, breadthRead)
           \/ \E report \in Reports : Transform(report)
  <2>1. CASE run' = Idle /\ day' = day
    BY <1>0, <2>1, RunEnds
  <2>2. CASE ~(run' = Idle /\ day' = day)
    <3>1. /\ DOMAIN run' = DOMAIN run /\ run'.date = run.date /\ day' = day
          /\ run'.pc \in {"transform", "storeReport"} /\ run.date \in DOMAIN evaluations
      BY <1>0, <1>6, <2>2 DEF LoadMemos, Transform, LeaveReport, GetEvaluationsByDate, Fields, RunOK
    <3> QED
      BY <1>0, <3>1, RunMoves DEF Phases
  <2> QED
    BY <2>1, <2>2
<1>7. \/ run' = run \/ (run' = Idle /\ day' = day)
      \/ \E date \in Dates, pc \in {"regime", "evaluate", "report"} : Start(date, pc) /\ day' = day
      \/ RankSteps /\ UNCHANGED <<evaluations, call, reports, draft>>
      \/ EvaluationSteps
      \/ \E regimeRead, breadthRead \in BOOLEAN : LoadMemos(regimeRead, breadthRead)
      \/ \E report \in Reports : Transform(report)
  BY DEF Next, vars, rankVars, World, ReportSteps, NextDay, PostSnapshot, StartRun,
         RunListEvaluation,
         RunCommercialReport, UpsertCommercialReport, ReportFails, LeaveReport, Stop, Abort
<1> QED
  BY <1>1, <1>2, <1>3, <1>4, <1>5, <1>6, <1>7

-----------------------------------------------------------------------------
(* The order of the ranks *)

Early == {"regime", "sectors", "storeSectors", "rank"}

\* A step that stores no rank, and does not begin to store a list.
LEMMA ListMoves ==
  ASSUME ListOK, TablesOK, TablesOK', RunOK, ranks' = ranks,
         \A d \in Dates : renewed'[d].tickers = renewed[d].tickers,
         \/ run' = run
         \/ run'.pc \notin Early \cup {"storeList"}
         \/ run.pc \in Early /\ run'.pc \in Early /\ run'.date = run.date
  PROVE  ListOK'
<1>1. run'.pc \in Early => renewed'[run'.date].tickers = {}
  BY DEF ListOK, RunOK, Early
<1>2. run'.pc = "storeList" => Storing'
  BY DEF ListOK, Storing, RunOK, Early
<1>3. \A d \in Dates : \A t \in renewed'[d].tickers : <<d, t>> \in DOMAIN ranks'
  BY DEF ListOK
<1>4. RanksFollowScores'
  BY DEF ListOK, RanksFollowScores
<1> QED
  BY <1>1, <1>2, <1>3, <1>4 DEF ListOK, Early

\* A list that is to be stored.
LEMMA ListComputed ==
  ASSUME Inv, [Next]_vars, NEW regimeRead, NEW scoresRead, NEW weights \in LoadMomentumWeights,
         ComputeList(regimeRead, scoresRead, weights)
  PROVE  ListOK'
<1> DEFINE labels == IF scoresRead THEN SectorLabels(run.date) ELSE <<>>
           label == RegimeLabel(run.date, regimeRead)
           ranked == Compute(ListByDate(run.date), weights, label, labels, Narrative, TickerRank)
           list == ApplyLeadershipBoost(ranked, GetLeadersForDate(run.date))
<1>1. /\ ListOK /\ DOMAIN run = Fields /\ run.date \in Dates /\ run.pc = "rank"
      /\ UNCHANGED <<ranks, renewed>>
      /\ run' = [run EXCEPT !.list = list, !.at = 1, !.pc = IF ranked = <<>> THEN "evaluate" ELSE "storeList"]
  BY DEF Inv, RunOK, ComputeList
<1>2. TableOK(ListByDate(run.date))
  BY <1>1 DEF Inv, WorldOK, ListByDate
<1>3. Sorted(list) /\ (ranked # <<>> => Len(list) >= 1)
  <2> HIDE DEF label, labels
  <2> QED
    BY <1>2, BoostedSorted
<1> HIDE DEF list, ranked
<1>4. /\ run'.list = list /\ run'.at = 1 /\ run'.date = run.date
      /\ run'.pc = IF ranked = <<>> THEN "evaluate" ELSE "storeList"
  BY <1>1 DEF Fields
<1>5. run'.pc = "storeList" => Storing'
  <2>1. SUFFICES ASSUME run'.pc = "storeList" PROVE Storing'
    OBVIOUS
  <2>2. Len(list) \in Nat /\ Len(list) >= 1
    BY <1>3, <1>4, <2>1 DEF Sorted
  <2>3. renewed'[run'.date].tickers = {} /\ 1 .. run'.at - 1 = {}
    BY <1>1, <1>4 DEF ListOK
  <2>4. Sorted(run'.list) /\ run'.at \in 1 .. Len(run'.list)
    BY <1>3, <1>4, <2>2
  <2> QED
    BY <2>3, <2>4 DEF Storing
<1>6. run'.pc \notin Early
  BY <1>4 DEF Early
<1> QED
  BY <1>1, <1>5, <1>6 DEF ListOK, RanksFollowScores, Early

\* The next rank of the list is stored.
LEMMA RankStored ==
  ASSUME Inv, [Next]_vars, UpsertRankList
  PROVE  ListOK'
<1> DEFINE list == run.list
           at == run.at
           date == run.date
           ticker == list[at].ticker
           row == [rank |-> at, score |-> list[at].score]
<1>0. /\ ListOK /\ TablesOK /\ DOMAIN run = Fields /\ date \in Dates /\ Storing
      /\ Len(list) \in Nat /\ DOMAIN list = 1 .. Len(list) /\ at \in 1 .. Len(list) /\ at \in Nat
  BY DEF Inv, RunOK, ListOK, Storing, Sorted, UpsertRankList
<1>1. /\ ranks' = Put(ranks, <<date, ticker>>, row)
      /\ renewed' = [renewed EXCEPT ![date].tickers = @ \cup {ticker}]
  BY DEF UpsertRankList, StoreRank
<1>2. /\ run'.date = date
      /\ \/ at < Len(list) /\ run'.pc = "storeList" /\ run'.list = list /\ run'.at = at + 1
         \/ run'.pc = "evaluate"
  BY <1>0 DEF UpsertRankList, Fields
<1>3. /\ renewed'[date].tickers = renewed[date].tickers \cup {ticker}
      /\ \A d \in Dates : d # date => renewed'[d].tickers = renewed[d].tickers
  BY <1>0, <1>1 DEF TablesOK
<1>4. renewed[date].tickers = {list[k].ticker : k \in 1 .. at - 1}
  BY <1>0 DEF Storing
<1>5. /\ \A k \in 1 .. at - 1 : /\ <<date, list[k].ticker>> \in DOMAIN ranks
                                /\ ranks[<<date, list[k].ticker>>] = [rank |-> k, score |-> list[k].score]
      /\ \A i, j \in 1 .. Len(list) : i < j => /\ list[i].ticker # list[j].ticker
                                               /\ list[j].score * 100 <= list[i].score * 105
  BY <1>0 DEF Storing, Sorted
<1> HIDE DEF list, at, date
<1>6. \A k \in 1 .. at : k \in Nat /\ k \in 1 .. Len(list) /\ (k = at \/ (k \in 1 .. at - 1 /\ k < at))
  BY <1>0
<1>7. renewed'[date].tickers = {list[k].ticker : k \in 1 .. at}
  <2>1. \A k \in 1 .. at - 1 : k \in 1 .. at
    BY <1>0
  <2>2. at \in 1 .. at
    BY <1>0
  <2> QED
    BY <1>3, <1>4, <1>6, <2>1, <2>2
<1>8. ASSUME NEW k \in 1 .. at
      PROVE  /\ <<date, list[k].ticker>> \in DOMAIN ranks'
             /\ ranks'[<<date, list[k].ticker>>] = [rank |-> k, score |-> list[k].score]
  <2>1. CASE k = at
    BY <1>1, <2>1 DEF Put
  <2>2. CASE k # at
    <3>1. k \in 1 .. at - 1 /\ k < at /\ k \in 1 .. Len(list)
      BY <1>6, <2>2
    <3>2. list[k].ticker # ticker
      BY <1>0, <1>5, <3>1
    <3>3. /\ <<date, list[k].ticker>> \in DOMAIN ranks
          /\ ranks[<<date, list[k].ticker>>] = [rank |-> k, score |-> list[k].score]
      BY <1>5, <3>1
    <3> QED
      BY <1>1, <3>2, <3>3 DEF Put
  <2> QED
    BY <2>1, <2>2
<1>9. \A d \in Dates : d # date =>
        \A t \in renewed[d].tickers : <<d, t>> \in DOMAIN ranks' /\ ranks'[<<d, t>>] = ranks[<<d, t>>]
  BY <1>0, <1>1 DEF ListOK, Put
<1>10. \A d \in Dates : \A t \in renewed'[d].tickers : <<d, t>> \in DOMAIN ranks'
  <2> SUFFICES ASSUME NEW d \in Dates, NEW t \in renewed'[d].tickers PROVE <<d, t>> \in DOMAIN ranks'
    OBVIOUS
  <2>1. CASE d # date
    BY <1>3, <1>9, <2>1
  <2>2. CASE d = date
    BY <1>7, <1>8, <2>2
  <2> QED
    BY <2>1, <2>2
<1>11. RanksFollowScores'
  <2> SUFFICES ASSUME NEW d \in Dates, NEW a \in renewed'[d].tickers, NEW b \in renewed'[d].tickers,
                      ranks'[<<d, a>>].rank < ranks'[<<d, b>>].rank
               PROVE  ranks'[<<d, b>>].score * 100 <= ranks'[<<d, a>>].score * 105
    BY DEF RanksFollowScores
  <2>1. CASE d # date
    <3>1. /\ a \in renewed[d].tickers /\ b \in renewed[d].tickers
          /\ ranks'[<<d, a>>] = ranks[<<d, a>>] /\ ranks'[<<d, b>>] = ranks[<<d, b>>]
      BY <1>3, <1>9, <2>1
    <3> QED
      BY <1>0, <3>1 DEF ListOK, RanksFollowScores
  <2>2. CASE d = date
    <3>1. PICK i \in 1 .. at : a = list[i].ticker
      BY <1>7, <2>2
    <3>2. PICK j \in 1 .. at : b = list[j].ticker
      BY <1>7, <2>2
    <3>3. /\ ranks'[<<d, a>>] = [rank |-> i, score |-> list[i].score]
          /\ ranks'[<<d, b>>] = [rank |-> j, score |-> list[j].score]
      BY <1>8, <2>2, <3>1, <3>2
    <3>4. i < j /\ i \in 1 .. Len(list) /\ j \in 1 .. Len(list)
      BY <1>6, <3>3
    <3> QED
      BY <1>5, <3>3, <3>4
  <2> QED
    BY <2>1, <2>2
<1>12. run'.pc = "storeList" => Storing'
  <2> SUFFICES ASSUME run'.pc = "storeList" PROVE Storing'
    OBVIOUS
  <2>1. run'.list = list /\ run'.at = at + 1 /\ run'.date = date /\ at < Len(list)
    BY <1>2
  <2>2. at + 1 \in 1 .. Len(list) /\ 1 .. (at + 1) - 1 = 1 .. at
    BY <1>0, <2>1
  <2>3. Sorted(list)
    BY <1>0 DEF Storing, list
  <2>4. /\ Sorted(run'.list) /\ run'.at \in 1 .. Len(run'.list)
        /\ 1 .. run'.at - 1 = 1 .. at
    BY <2>1, <2>2, <2>3
  <2>5. renewed'[run'.date].tickers = {run'.list[k].ticker : k \in 1 .. run'.at - 1}
    BY <1>7, <2>1, <2>4
  <2>6. \A k \in 1 .. run'.at - 1 :
          /\ <<run'.date, run'.list[k].ticker>> \in DOMAIN ranks'
          /\ ranks'[<<run'.date, run'.list[k].ticker>>] = [rank |-> k, score |-> run'.list[k].score]
    BY <1>8, <2>1, <2>4
  <2> QED
    BY <2>4, <2>5, <2>6 DEF Storing
<1>13. run'.pc \notin Early
  BY <1>2 DEF Early
<1> QED
  BY <1>10, <1>11, <1>12, <1>13 DEF ListOK, Early

\* No step disturbs the order of the ranks.
LEMMA ListKept ==
  ASSUME Inv, [Next]_vars
  PROVE  ListOK'
<1>0. /\ ListOK /\ TablesOK /\ TablesOK' /\ RunOK /\ DOMAIN run = Fields
      /\ \A d \in Dates : DOMAIN renewed[d] = {"etfs", "tickers"}
  BY TablesKept DEF Inv, RunOK, TablesOK
<1>1. CASE \E date \in Dates : StartRun(date)
  <2>1. PICK date \in Dates : StartRun(date)
    BY <1>1
  <2>2. /\ run'.pc = "regime" /\ run'.date = date /\ ranks' = ranks
        /\ renewed' = [renewed EXCEPT ![date] = NoneRenewed]
    BY <2>1, IdleFields DEF StartRun, Start, Fields
  <2>3. /\ renewed'[date].tickers = {}
        /\ \A d \in Dates : d # date => renewed'[d] = renewed[d]
    BY <1>0, <2>2 DEF NoneRenewed, TablesOK
  <2>4. \A d \in Dates : renewed'[d].tickers \subseteq renewed[d].tickers
    BY <2>3
  <2> QED
    BY <1>0, <2>2, <2>3, <2>4 DEF ListOK, RanksFollowScores
<1>2. CASE \E regimeRead, scoresRead \in BOOLEAN, weights \in LoadMomentumWeights :
             ComputeList(regimeRead, scoresRead, weights)
  BY <1>2, ListComputed
<1>3. CASE UpsertRankList
  BY <1>3, RankStored
<1>4. CASE \E etf \in ETFs : UpsertSectorScore(etf)
  <2>1. PICK etf \in ETFs : UpsertSectorScore(etf)
    BY <1>4
  <2>2. /\ run.pc \in Early /\ run'.pc \in Early /\ run'.date = run.date /\ ranks' = ranks
        /\ renewed' = [renewed EXCEPT ![run.date].etfs = @ \cup {etf}]
    BY <1>0, <2>1 DEF UpsertSectorScore, StoreSectorScore, Fields, Early
  <2>3. \A d \in Dates : renewed'[d].tickers = renewed[d].tickers
    BY <1>0, <2>2 DEF TablesOK
  <2> QED
    BY <1>0, <2>2, <2>3, ListMoves
<1>5. CASE ComputeSectors \/ \E label \in Regimes : ClassifyRegime(label)
  <2>1. /\ run.pc \in Early /\ run'.pc \in Early /\ run'.date = run.date
        /\ ranks' = ranks /\ renewed' = renewed
    BY <1>0, <1>5 DEF ComputeSectors, ClassifyRegime, Fields, Early
  <2> QED
    BY <1>0, <2>1, ListMoves
<1>6. CASE run' = run /\ UNCHANGED <<ranks, renewed>>
  BY <1>0, <1>6, ListMoves
<1>7. CASE run' = Idle /\ UNCHANGED <<ranks, renewed>>
  <2>1. run'.pc \notin Early \cup {"storeList"}
    BY <1>7, IdleFields DEF Early
  <2> QED
    BY <1>0, <1>7, <2>1, ListMoves
<1>8. CASE EvaluationSteps
  <2>1. run'.pc \notin Early \cup {"storeList"} /\ UNCHANGED <<ranks, renewed>>
    BY <1>0, <1>8
       DEF EvaluationSteps, LoadList, RenderPrompt, UpsertEvaluation, EvaluationFails, Generate,
                      GenerateFails, LeaveEvaluation, Fields, Early
  <2> QED
    BY <1>0, <2>1, ListMoves
<1>9. CASE \/ \E regimeRead, breadthRead \in BOOLEAN : LoadMemos(regimeRead, breadthRead)
           \/ \E report \in Reports : Transform(report)
           \/ \E date \in Dates : RunListEvaluation(date) \/ RunCommercialReport(date)
  <2>1. run'.pc \notin Early \cup {"storeList"} /\ UNCHANGED <<ranks, renewed>>
    BY <1>0, <1>9, IdleFields
       DEF LoadMemos, Transform, LeaveReport, RunListEvaluation, RunCommercialReport, Start,
                      Fields, Early
  <2> QED
    BY <1>0, <2>1, ListMoves
<1>10. \/ run' = run /\ UNCHANGED <<ranks, renewed>>
       \/ run' = Idle /\ UNCHANGED <<ranks, renewed>>
       \/ \E date \in Dates : StartRun(date)
       \/ \E date \in Dates : RunListEvaluation(date) \/ RunCommercialReport(date)
       \/ RankSteps \/ EvaluationSteps
       \/ \E regimeRead, breadthRead \in BOOLEAN : LoadMemos(regimeRead, breadthRead)
       \/ \E report \in Reports : Transform(report)
  BY DEF Next, vars, rankVars, World, ReportSteps, NextDay, PostSnapshot,
         UpsertCommercialReport, ReportFails, LeaveReport, Stop, Abort
<1> QED
  BY <1>1, <1>2, <1>3, <1>4, <1>5, <1>6, <1>7, <1>8, <1>9, <1>10 DEF RankSteps

-----------------------------------------------------------------------------
(* The evaluation *)

Calling == {"prompt", "generate", "storeEvaluation"}

\* There is nothing to say of a call that is over.
LEMMA NoCallOK ==
  ASSUME call' = NoCall, run'.pc \notin Calling
  PROVE  CallOK'
BY DEF CallOK, NoCall, Calling

\* What a call is about stays ranked and delivered until it is stored.
LEMMA CallKept ==
  ASSUME Inv, [Next]_vars
  PROVE  CallOK'
<1>0. /\ CallOK /\ RunOK /\ WorldOK /\ DOMAIN run = Fields /\ run.date \in Dates
      /\ DOMAIN ranks \subseteq DOMAIN ranks'
      /\ \A d \in Dates : DOMAIN rows[d] \subseteq DOMAIN rows'[d]
  BY TablesKept, WorldKept DEF Inv, RunOK
<1>1. CASE run' = run /\ call' = call
  BY <1>0, <1>1 DEF CallOK, Ranked, Delivered
<1>2. CASE run.pc \notin Calling /\ run'.pc \notin Calling /\ call' = call
  <2>1. call = NoCall
    BY <1>0, <1>2 DEF CallOK, Calling
  <2> QED
    BY <1>2, <2>1, NoCallOK
<1>3. CASE call' = NoCall /\ run'.pc \notin Calling
  BY <1>3, NoCallOK
<1>4. CASE LoadList /\ run'.pc \in Calling
  <2>1. PICK tickers \in GetRankList(run.date) : call' = [call EXCEPT !.tickers = tickers]
    BY <1>0, <1>4 DEF LoadList, LeaveEvaluation, Fields, Calling
  <2>2. run.pc = "evaluate" /\ run' = [run EXCEPT !.pc = "prompt"] /\ UNCHANGED <<ranks, rows>>
    BY <1>0, <1>4 DEF LoadList, LeaveEvaluation, Fields, Calling
  <2>3. call = NoCall
    BY <1>0, <2>2 DEF CallOK
  <2> DEFINE names == OfDate(ranks, run.date)
  <2>4. tickers \in [1 .. Cardinality(names) -> names] /\ Cardinality(names) \in Nat
    <3>1. tickers \in [1 .. Cardinality(names) -> names]
      BY DEF GetRankList
    <3>2. names \subseteq Tickers
      BY DEF OfDate, Inv, TablesOK
    <3>3. Cardinality(names) \in Nat
      BY <3>2, NamesRanked, FS_Subset, FS_CardinalityType
    <3> QED
      BY <3>1, <3>3
  <2>5. \A t \in names : <<run.date, t>> \in DOMAIN ranks
    <3>1. \A k \in DOMAIN ranks : k = <<k[1], k[2]>>
      BY DEF Inv, TablesOK
    <3> QED
      BY <3>1 DEF OfDate
  <2> HIDE DEF names
  <2>6. /\ Len(tickers) \in Nat /\ DOMAIN tickers = 1 .. Len(tickers)
        /\ \A t \in Range(tickers) : <<run.date, t>> \in DOMAIN ranks
    <3>1. DOMAIN tickers = 1 .. Len(tickers) /\ Len(tickers) \in Nat
      BY <2>4
    <3> QED
      BY <2>4, <2>5, <3>1 DEF Range
  <2>7. call'.tickers = tickers /\ call'.attempts = 0 /\ DOMAIN call' = DOMAIN NoCall
    BY <2>1, <2>3 DEF NoCall
  <2>8. run'.pc = "prompt" /\ run'.date = run.date
    BY <1>0, <2>2 DEF Fields
  <2> QED
    BY <2>2, <2>6, <2>7, <2>8 DEF CallOK, NoCall, Ranked
<1>5. CASE RenderPrompt /\ run'.pc \in Calling
  <2> DEFINE places == {i \in DOMAIN call.tickers : call.tickers[i] \in SnapshotMap(run.date)}
             shown == Kept(call.tickers, places)
  <2>1. /\ run.pc = "prompt" /\ run' = [run EXCEPT !.pc = "generate"] /\ UNCHANGED <<ranks, rows>>
        /\ \E prompt : call' = [call EXCEPT !.shown = shown, !.prompt = prompt]
    BY <1>0, <1>5 DEF RenderPrompt, LeaveEvaluation, Fields, Calling
  <2>2. /\ call.attempts = 0 /\ Len(call.tickers) \in Nat /\ DOMAIN call.tickers = 1 .. Len(call.tickers)
        /\ \A t \in Range(call.tickers) : Ranked(run.date, t)
    BY <1>0, <2>1 DEF CallOK
  <2>3. \A i \in places : Ranked(run.date, call.tickers[i]) /\ Delivered(run.date, call.tickers[i])
    <3>1. TableOK(rows[run.date])
      BY <1>0 DEF WorldOK
    <3>2. \A t \in SnapshotMap(run.date) : Delivered(run.date, t)
      BY <3>1, OfSource DEF SnapshotMap, ListByDate, Delivered
    <3> QED
      BY <2>2, <3>2 DEF Range
  <2>4. places \in SUBSET DOMAIN call.tickers
    OBVIOUS
  <2> HIDE DEF places
  <2>5. \A i \in DOMAIN shown : \E p \in places : shown[i] = call.tickers[p]
    BY <2>2, <2>4, KeptElements
  <2> HIDE DEF shown
  <2>6. \A t \in Range(shown) : Ranked(run.date, t) /\ Delivered(run.date, t)
    BY <2>3, <2>5 DEF Range
  <2>7. call'.shown = shown /\ call'.attempts = 0 /\ DOMAIN call' = DOMAIN call
    BY <1>0, <2>1, <2>2 DEF CallOK
  <2>8. run'.pc = "generate" /\ run'.date = run.date
    BY <1>0, <2>1 DEF Fields
  <2> QED
    BY <1>0, <2>1, <2>6, <2>7, <2>8 DEF CallOK, Ranked, Delivered
<1>6. CASE \E reply \in Replies : Generate(reply)
  <2>1. PICK reply \in Replies : Generate(reply)
    BY <1>6
  <2>2. PICK text \in ProviderGenerate(reply) : call' = [call EXCEPT !.text = text, !.attempts = @ + 1]
    BY <2>1 DEF Generate
  <2>3. text \in DOMAIN Reading
    BY EvaluationAssumption DEF EvaluationAssumption
  <2>4. run.pc = "generate" /\ run' = [run EXCEPT !.pc = "storeEvaluation"] /\ UNCHANGED <<ranks, rows>>
    BY <2>1 DEF Generate
  <2>5. run'.pc = "storeEvaluation" /\ run'.date = run.date
    BY <1>0, <2>4 DEF Fields
  <2>6. /\ call'.text = text /\ call'.attempts = call.attempts + 1 /\ call'.shown = call.shown
        /\ DOMAIN call' = DOMAIN call
    BY <1>0, <2>2 DEF CallOK
  <2>7. call'.attempts \in 0 .. 2
    BY <1>0, <2>4, <2>6 DEF CallOK
  <2> QED
    BY <1>0, <2>3, <2>4, <2>5, <2>6, <2>7 DEF CallOK, Ranked, Delivered
<1>7. CASE (\E reply \in Replies : GenerateFails(reply)) /\ run'.pc \in Calling
  <2>1. run.pc = "generate" /\ run' = run /\ call' = [call EXCEPT !.attempts = 1] /\ UNCHANGED <<ranks, rows>>
    BY <1>0, <1>7 DEF GenerateFails, LeaveEvaluation, Fields, Calling
  <2>2. call'.shown = call.shown /\ call'.attempts = 1 /\ DOMAIN call' = DOMAIN call
    BY <1>0, <2>1 DEF CallOK
  <2> QED
    BY <1>0, <2>1, <2>2 DEF CallOK, Ranked, Delivered
<1>8. CASE /\ RankSteps \/ (\E date \in Dates : StartRun(date) \/ RunListEvaluation(date))
           /\ call' = call
  <2>1. run.pc \notin Calling /\ run'.pc \notin Calling
    BY <1>0, <1>8, IdleFields
       DEF RankSteps, ClassifyRegime, ComputeSectors, UpsertSectorScore, ComputeList,
           UpsertRankList,
           StartRun, RunListEvaluation, Start, Fields, Calling
  <2> QED
    BY <1>2, <1>8, <2>1
<1>9. CASE ReportSteps \/ \E date \in Dates : RunCommercialReport(date)
  <2>1. run.pc \notin Calling /\ run'.pc \notin Calling /\ call' = call
    BY <1>0, <1>9, IdleFields
       DEF ReportSteps, LoadMemos, Transform, UpsertCommercialReport, ReportFails, LeaveReport,
           RunCommercialReport, Start, Fields, Calling
  <2> QED
    BY <1>2, <2>1
<1>10. CASE EvaluationSteps
  <2>1. \/ call' = NoCall /\ run'.pc \notin Calling
        \/ LoadList /\ run'.pc \in Calling
        \/ RenderPrompt /\ run'.pc \in Calling
        \/ \E reply \in Replies : Generate(reply)
        \/ (\E reply \in Replies : GenerateFails(reply)) /\ run'.pc \in Calling
    BY <1>0, <1>10 DEF EvaluationSteps, LoadList, RenderPrompt, UpsertEvaluation, EvaluationFails,
                       GenerateFails, LeaveEvaluation, Fields, Calling
  <2> QED
    BY <1>3, <1>4, <1>5, <1>6, <1>7, <2>1
<1>11. CASE Stop
  BY <1>3, <1>11, IdleFields DEF Stop, Abort, Calling
<1>12. CASE (World /\ call' = call) \/ UNCHANGED vars
  BY <1>1, <1>12 DEF World, NextDay, PostSnapshot, vars, rankVars
<1> QED
  BY <1>8, <1>9, <1>10, <1>11, <1>12 DEF Next, RunListEvaluation

\* What an evaluation recommends was ranked and delivered when it was stored.
LEMMA RecommendationsKept ==
  ASSUME Inv, [Next]_vars
  PROVE  RecommendedWereRanked'
<1>0. /\ RunOK /\ DOMAIN ranks \subseteq DOMAIN ranks'
      /\ \A d \in Dates : DOMAIN rows[d] \subseteq DOMAIN rows'[d]
      /\ DOMAIN evaluations \subseteq Dates
  BY TablesKept, WorldKept DEF Inv, TablesOK
<1>1. CASE evaluations' = evaluations
  BY <1>0, <1>1 DEF Inv, RecommendedWereRanked
<1>2. CASE UpsertEvaluation
  <2> DEFINE answer == Reading[call.text]
             evaluation == ToModel(ParseResponse(answer, BuildTickerMapping(call.shown)))
  <2>1. /\ run.pc = "storeEvaluation" /\ UNCHANGED <<ranks, rows>>
        /\ evaluations' = Put(evaluations, run.date, evaluation)
    BY <1>2 DEF UpsertEvaluation
  <2>2. /\ call.text \in DOMAIN Reading
        /\ \A t \in Range(call.shown) : Ranked(run.date, t) /\ Delivered(run.date, t)
    BY <2>1 DEF Inv, CallOK
  <2>3. answer.selections \in Seq(Range(answer.selections))
    BY <2>2, EvaluationAssumption DEF EvaluationAssumption
  <2>4. evaluation.parsed = ParseResponse(answer, BuildTickerMapping(call.shown))
    BY DEF ToModel
  <2> HIDE DEF evaluation, answer
  <2>5. evaluation.parsed.parser = "json-v1" =>
          \A t \in Recommended(evaluation) : Ranked(run.date, t) /\ Delivered(run.date, t)
    BY <2>2, <2>3, <2>4, RecommendedWereShown
  <2>6. ASSUME NEW d \in DOMAIN evaluations', evaluations'[d].parsed.parser = "json-v1",
               NEW t \in Recommended(evaluations'[d])
        PROVE  <<d, t>> \in DOMAIN ranks /\ <<"momentum", t>> \in DOMAIN rows[d]
    <3>1. CASE d = run.date
      <4>1. evaluations'[d] = evaluation
        BY <2>1, <3>1 DEF Put
      <4> QED
        BY <2>5, <2>6, <3>1, <4>1 DEF Ranked, Delivered
    <3>2. CASE d # run.date
      <4>1. d \in DOMAIN evaluations /\ evaluations'[d] = evaluations[d]
        BY <2>1, <3>2 DEF Put
      <4> QED
        BY <2>6, <4>1 DEF Inv, RecommendedWereRanked
    <3> QED
      BY <3>1, <3>2
  <2> QED
    BY <2>1, <2>6 DEF RecommendedWereRanked
<1> QED
  BY <1>1, <1>2, Frame

-----------------------------------------------------------------------------
(* What is published, and what a ranking reads *)

\* An upsert adds its own key and leaves the other rows alone.
LEMMA PutKeeps ==
  ASSUME NEW table, NEW key, NEW row, key \notin DOMAIN table
  PROVE  \A d \in DOMAIN table : d \in DOMAIN Put(table, key, row) /\ Put(table, key, row)[d] = table[d]
  BY DEF Put

\* The rows of a date after an upsert for it.
LEMMA OfDatePut ==
  ASSUME NEW table, NEW date, NEW name, NEW row
  PROVE  /\ OfDate(table, date) \subseteq OfDate(Put(table, <<date, name>>, row), date)
         /\ name \in OfDate(Put(table, <<date, name>>, row), date)
<1> DEFINE after == Put(table, <<date, name>>, row)
<1>1. DOMAIN after = DOMAIN table \cup {<<date, name>>}
  BY DEF Put
<1> HIDE DEF after
<1>2. \A key \in DOMAIN after : key[1] = date => key[2] \in OfDate(after, date)
  BY DEF OfDate
<1>3. <<date, name>>[1] = date /\ <<date, name>>[2] = name
  OBVIOUS
<1>4. name \in OfDate(after, date)
  BY <1>1, <1>2, <1>3
<1>5. OfDate(table, date) \subseteq OfDate(after, date)
  BY <1>1 DEF OfDate
<1> QED
  BY <1>4, <1>5 DEF after

\* Every ETF gets a score.
LEMMA AllScored == ETFs \subseteq DOMAIN BuildSectorScores(Histories)
<1>1. DOMAIN Histories = DOMAIN IndexCloses
  BY DEF Histories
<1> QED
  BY <1>1 DEF BuildSectorScores, ETFs

\* A step replaces and removes nothing that is published.
KeepsPublished ==
  /\ \A d \in DOMAIN evaluations : d \in DOMAIN evaluations' /\ evaluations'[d] = evaluations[d]
  /\ \A d \in DOMAIN reports : d \in DOMAIN reports' /\ reports'[d] = reports[d]

\* A step that stores nothing and moves the run on, or ends it.
LEMMA MoveOn ==
  ASSUME NotYetPublished, WholeSectors, UNCHANGED <<sectors, renewed, evaluations, reports>>,
         \/ run'.pc \in {"idle", "regime", "sectors", "evaluate", "report"}
         \/ /\ run'.date = run.date
            /\ run'.pc \in {"generate", "storeEvaluation"}
                 => run.pc \in {"prompt", "generate", "storeEvaluation"}
            /\ run'.pc = "storeReport" => run.pc = "transform"
            /\ run'.pc = "storeList" => run.pc \in {"rank", "storeList"}
            /\ run'.pc = "prompt" => run.date \notin DOMAIN evaluations
            /\ run'.pc = "transform" => run.date \notin DOMAIN reports
            /\ run'.pc \notin {"storeSectors", "rank"}
  PROVE  NotYetPublished' /\ WholeSectors' /\ KeepsPublished
<1>1. KeepsPublished
  BY DEF KeepsPublished
<1>2. NotYetPublished'
  BY DEF NotYetPublished
<1>3. WholeSectors'
  BY DEF WholeSectors, RankingReadsWholeSectors, OfDate
<1> QED
  BY <1>1, <1>2, <1>3

\* No step publishes twice, or ranks with half the sectors.
LEMMA PublishedKept ==
  ASSUME Inv, [Next]_vars
  PROVE  NotYetPublished' /\ WholeSectors' /\ KeepsPublished
<1>0. /\ NotYetPublished /\ WholeSectors /\ run.date \in Dates /\ DOMAIN renewed = Dates
      /\ \A d \in Dates : DOMAIN renewed[d] = {"etfs", "tickers"}
      /\ DOMAIN run = {"pc", "date", "scores", "list", "at"}
      /\ DOMAIN Idle = {"pc", "date", "scores", "list", "at"} /\ Idle.pc = "idle"
  BY IdleFields DEF Inv, RunOK, TablesOK, Fields
<1>1. CASE World /\ UNCHANGED <<evaluations, call, reports, draft>>
  BY <1>0, <1>1 DEF World, NextDay, PostSnapshot, NotYetPublished, WholeSectors, Crossed,
              RankingReadsWholeSectors, KeepsPublished
<1>2. CASE (\E date \in Dates : StartRun(date)) /\ UNCHANGED <<evaluations, call, reports, draft>>
  <2>1. PICK date \in Dates : StartRun(date)
    BY <1>2
  <2>2. /\ DOMAIN run' = DOMAIN run /\ run'.pc = "regime" /\ run'.date = date
        /\ DOMAIN renewed' = DOMAIN renewed
    BY <2>1, <1>0 DEF StartRun, Start
  <2> QED
    BY <1>2, <2>2 DEF NotYetPublished, WholeSectors, RankingReadsWholeSectors, KeepsPublished
<1>3. CASE RankSteps /\ UNCHANGED <<evaluations, call, reports, draft>>
  <2>0. KeepsPublished
    BY <1>3 DEF KeepsPublished
  <2>1. CASE \E label \in Regimes : ClassifyRegime(label)
    <3>1. /\ DOMAIN run' = DOMAIN run /\ run'.pc = "sectors" /\ run'.date = run.date
          /\ UNCHANGED <<sectors, renewed>>
      BY <2>1, <1>0 DEF ClassifyRegime
    <3> QED
      BY <1>3, <1>0, <3>1, MoveOn
  <2>2. CASE ComputeSectors
    <3>1. /\ DOMAIN run' = DOMAIN run /\ run'.pc = "storeSectors" /\ run'.date = run.date
          /\ run'.scores = BuildSectorScores(Histories)
          /\ UNCHANGED <<sectors, renewed>>
      BY <2>2, <1>0 DEF ComputeSectors
    <3>2. Crossed'
      BY <3>1, AllScored DEF Crossed
    <3> QED
      BY <2>0, <3>1, <3>2 DEF NotYetPublished, WholeSectors, RankingReadsWholeSectors
  <2>3. CASE \E etf \in ETFs : UpsertSectorScore(etf)
    <3>1. PICK etf \in ETFs : UpsertSectorScore(etf)
      BY <2>3
    <3>2. /\ DOMAIN run' = DOMAIN run /\ run'.date = run.date
          /\ run.pc = "storeSectors" /\ etf \in DOMAIN run.scores
          /\ run'.scores = Restrict(run.scores, DOMAIN run.scores \ {etf})
          /\ run'.pc = IF DOMAIN run.scores = {etf} THEN "rank" ELSE "storeSectors"
      BY <3>1, <1>0 DEF UpsertSectorScore
    <3>3. DOMAIN run'.scores = DOMAIN run.scores \ {etf}
      BY <3>2 DEF Restrict
    <3>4. /\ DOMAIN renewed' = DOMAIN renewed
          /\ renewed'[run.date].etfs = renewed[run.date].etfs \cup {etf}
          /\ sectors' = Put(sectors, <<run.date, etf>>, run.scores[etf])
      BY <3>1, <1>0 DEF UpsertSectorScore, StoreSectorScore
    <3>5. Crossed
      BY <1>0, <3>2 DEF WholeSectors
    <3>6. Crossed'
      BY <3>2, <3>3, <3>4, <3>5, OfDatePut DEF Crossed
    <3>7. run'.pc = "rank" => DOMAIN run'.scores = {}
      BY <3>2, <3>3
    <3> QED
      BY <2>0, <3>2, <3>4, <3>6, <3>7
         DEF NotYetPublished, WholeSectors, RankingReadsWholeSectors, Crossed
  <2>4. CASE \E regimeRead, scoresRead \in BOOLEAN, weights \in LoadMomentumWeights :
               ComputeList(regimeRead, scoresRead, weights)
    <3>1. /\ DOMAIN run' = DOMAIN run /\ run'.date = run.date /\ run.pc = "rank"
          /\ run'.pc \in {"evaluate", "storeList"} /\ UNCHANGED <<sectors, renewed>>
      BY <2>4, <1>0 DEF ComputeList
    <3> QED
      BY <1>3, <1>0, <3>1, MoveOn
  <2>5. CASE UpsertRankList
    <3>1. /\ DOMAIN run' = DOMAIN run /\ run'.date = run.date /\ run.pc = "storeList"
          /\ run'.pc \in {"storeList", "evaluate"} /\ UNCHANGED sectors
      BY <2>5, <1>0 DEF UpsertRankList
    <3>2. DOMAIN renewed' = DOMAIN renewed /\ renewed[run.date].etfs \subseteq renewed'[run.date].etfs
      BY <2>5, <1>0 DEF UpsertRankList, StoreRank
    <3> QED
      BY <1>0, <2>0, <1>3, <3>1, <3>2
         DEF NotYetPublished, WholeSectors, RankingReadsWholeSectors
  <2> QED
    BY <1>3, <2>1, <2>2, <2>3, <2>4, <2>5 DEF RankSteps
<1>4. CASE EvaluationSteps /\ UNCHANGED <<reports, draft>>
  <2>1. CASE LoadList
    <3>1. /\ DOMAIN run' = DOMAIN run /\ run'.date = run.date /\ UNCHANGED <<sectors, renewed, evaluations>>
          /\ run'.pc = "report" \/ (run'.pc = "prompt" /\ run.date \notin DOMAIN evaluations)
      BY <2>1, <1>0 DEF LoadList, LeaveEvaluation, GetEvaluation
    <3> QED
      BY <1>4, <1>0, <3>1, MoveOn
  <2>2. CASE RenderPrompt
    <3>1. /\ DOMAIN run' = DOMAIN run /\ run'.date = run.date /\ UNCHANGED <<sectors, renewed, evaluations>>
          /\ run.pc = "prompt" /\ run'.pc \in {"report", "generate"}
      BY <2>2, <1>0 DEF RenderPrompt, LeaveEvaluation
    <3> QED
      BY <1>4, <1>0, <3>1, MoveOn
  <2>3. CASE UpsertEvaluation
    <3>1. /\ DOMAIN run' = DOMAIN run /\ run'.date = run.date /\ UNCHANGED <<sectors, renewed>>
          /\ run.pc = "storeEvaluation" /\ run'.pc = "report"
      BY <2>3, <1>0 DEF UpsertEvaluation, LeaveEvaluation
    <3>2. run.date \notin DOMAIN evaluations
      BY <1>0, <3>1 DEF NotYetPublished
    <3>3. KeepsPublished
      BY <1>4, <2>3, <3>2, PutKeeps DEF UpsertEvaluation, KeepsPublished
    <3> QED
      BY <3>1, <3>3 DEF NotYetPublished, WholeSectors, RankingReadsWholeSectors
  <2>4. CASE EvaluationFails
    <3>1. /\ DOMAIN run' = DOMAIN run /\ run'.date = run.date /\ UNCHANGED <<sectors, renewed, evaluations>>
          /\ run'.pc = "report"
      BY <2>4, <1>0 DEF EvaluationFails, LeaveEvaluation
    <3> QED
      BY <1>4, <1>0, <3>1, MoveOn
  <2>5. CASE \E reply \in Replies : Generate(reply) \/ GenerateFails(reply)
    <3>1. /\ DOMAIN run' = DOMAIN run /\ run'.date = run.date /\ UNCHANGED <<sectors, renewed, evaluations>>
          /\ run.pc = "generate" /\ run'.pc \in {"generate", "storeEvaluation", "report"}
      BY <2>5, <1>0 DEF Generate, GenerateFails, LeaveEvaluation
    <3> QED
      BY <1>4, <1>0, <3>1, MoveOn
  <2> QED
    BY <1>4, <2>1, <2>2, <2>3, <2>4, <2>5 DEF EvaluationSteps
<1>5. CASE (\E date \in Dates : RunListEvaluation(date)) /\ UNCHANGED <<reports, draft>>
  <2>1. /\ DOMAIN run' = DOMAIN run /\ run'.date \in Dates /\ run'.pc = "evaluate"
        /\ UNCHANGED <<sectors, renewed, evaluations>>
    BY <1>5, <1>0 DEF RunListEvaluation, Start
  <2> QED
    BY <1>0, <1>5, <2>1, MoveOn
<1>6. CASE ReportSteps
  <2>1. CASE \E regimeRead, breadthRead \in BOOLEAN : LoadMemos(regimeRead, breadthRead)
    <3>1. /\ UNCHANGED <<sectors, renewed, evaluations, reports>>
          /\ \/ run'.pc = "idle"
             \/ run'.date = run.date /\ run'.pc = "transform" /\ run.date \notin DOMAIN reports
      BY <2>1, <1>0 DEF LoadMemos, LeaveReport, GetReport
    <3> QED
      BY <1>0, <3>1, MoveOn
  <2>2. CASE \E report \in Reports : Transform(report)
    <3>1. /\ DOMAIN run' = DOMAIN run /\ run'.date = run.date /\ UNCHANGED <<sectors, renewed, evaluations, reports>>
          /\ run.pc = "transform" /\ run'.pc = "storeReport"
      BY <2>2, <1>0 DEF Transform
    <3> QED
      BY <1>0, <3>1, MoveOn
  <2>3. CASE UpsertCommercialReport
    <3>1. /\ run' = Idle /\ run.pc = "storeReport" /\ UNCHANGED <<sectors, renewed, evaluations>>
      BY <2>3 DEF UpsertCommercialReport, LeaveReport
    <3>2. run.date \notin DOMAIN reports
      BY <1>0, <3>1 DEF NotYetPublished
    <3>3. KeepsPublished
      BY <2>3, <3>1, <3>2, PutKeeps DEF UpsertCommercialReport, KeepsPublished
    <3> QED
      BY <1>0, <3>1, <3>3 DEF NotYetPublished, WholeSectors, RankingReadsWholeSectors
  <2>4. CASE ReportFails
    <3>1. run' = Idle /\ UNCHANGED <<sectors, renewed, evaluations, reports>>
      BY <2>4 DEF ReportFails, LeaveReport
    <3> QED
      BY <1>0, <3>1, MoveOn
  <2> QED
    BY <1>6, <2>1, <2>2, <2>3, <2>4 DEF ReportSteps
<1>7. CASE \E date \in Dates : RunCommercialReport(date)
  <2>1. /\ DOMAIN run' = DOMAIN run /\ run'.date \in Dates /\ run'.pc = "report"
        /\ UNCHANGED <<sectors, renewed, evaluations, reports>>
    BY <1>7, <1>0 DEF RunCommercialReport, Start
  <2> QED
    BY <1>0, <2>1, MoveOn
<1>8. CASE Stop
  <2>1. run' = Idle /\ UNCHANGED <<sectors, renewed, evaluations, reports>>
    BY <1>8 DEF Stop, Abort
  <2> QED
    BY <1>0, <2>1, MoveOn
<1>9. CASE UNCHANGED vars
  BY <1>0, <1>9 DEF vars, rankVars, NotYetPublished, WholeSectors, Crossed,
              RankingReadsWholeSectors, OfDate, KeepsPublished
<1> QED
  BY <1>1, <1>2, <1>3, <1>4, <1>5, <1>6, <1>7, <1>8, <1>9 DEF Next

-----------------------------------------------------------------------------
(* The theorems *)

\* Before the first run.
LEMMA InvInit == Init => Inv
<1> SUFFICES ASSUME Init PROVE Inv
  OBVIOUS
<1>1. /\ day = FirstDay /\ rows = [d \in Dates |-> <<>>] /\ renewed = [d \in Dates |-> NoneRenewed]
      /\ regime = <<>> /\ sectors = <<>> /\ ranks = <<>> /\ evaluations = <<>> /\ reports = <<>>
      /\ run = Idle /\ call = NoCall
  BY DEF Init, RankInit, EvaluationInit
<1>2. FirstDay \in Dates
  BY RankAssumption DEF RankAssumption, Dates
<1>3. WorldOK
  BY <1>1, <1>2 DEF WorldOK, TableOK
<1>4. TablesOK
  BY <1>1 DEF TablesOK, NoneRenewed, Range
<1>5. RunOK
  <2>1. Idle.date = FirstDay /\ FirstDay <= FirstDay /\ Idle.pc \in Phases
    BY <1>2, IdleFields DEF Idle, Phases
  <2> QED
    BY <1>1, <2>1, IdleFields DEF RunOK
<1>6. ListOK /\ RecommendedWereRanked
  BY <1>1, IdleFields DEF ListOK, RanksFollowScores, NoneRenewed, RecommendedWereRanked
<1>7. CallOK
  BY <1>1, IdleFields DEF CallOK, NoCall
<1>8. NotYetPublished /\ WholeSectors
  BY <1>1, IdleFields DEF NotYetPublished, WholeSectors, RankingReadsWholeSectors
<1> QED
  BY <1>3, <1>4, <1>5, <1>6, <1>7, <1>8 DEF Inv

\* Every step keeps every part.
LEMMA Invariance == Inv /\ [Next]_vars => Inv' /\ KeepsPublished
BY WorldKept, TablesKept, RunKept, ListKept, CallKept, RecommendationsKept, PublishedKept DEF Inv

\* So the invariant always holds.
LEMMA Invariant == Spec => []Inv
<1>1. Inv /\ [Next]_vars => Inv'
  BY Invariance
<1> QED
  BY <1>1, InvInit, PTL DEF Spec

\* Every table is keyed by dates up to today, by known tickers and ETFs, no report exists
\* without its evaluation, and the provider is called twice at most, for any constants.
THEOREM TypeCorrect == Spec => []TypeOK
BY Invariant, TypesFollow, PTL

\* The ranking never reads half a cross-section of sector scores, for any ETFs and any
\* runs that are broken off (RunSectorMomentumJob returns its first error).
THEOREM RankingReadsWholeSectorsHolds == Spec => []RankingReadsWholeSectors
<1>1. Inv => RankingReadsWholeSectors
  BY DEF Inv, WholeSectors
<1> QED
  BY <1>1, Invariant, PTL

\* The places a run stores follow the scores it stores, up to the leadership boost, for
\* any rows, weights and leaders, wherever the storing stops (persistList).
THEOREM RanksFollowScoresHolds == Spec => []RanksFollowScores
<1>1. Inv => RanksFollowScores
  BY DEF Inv, ListOK
<1> QED
  BY <1>1, Invariant, PTL

\* What an answer of the JSON contract recommends was ranked and delivered on that date,
\* for any answers and whatever is ranked while the model thinks (EvaluateList).
THEOREM RecommendedWereRankedHolds == Spec => []RecommendedWereRanked
<1>1. Inv => RecommendedWereRanked
  BY DEF Inv
<1> QED
  BY <1>1, Invariant, PTL

\* No evaluation and no report is ever replaced or removed, whatever is ranked, answered
\* and repeated afterwards (the checks before both calls).
THEOREM PublishedIsFinalHolds == Spec => PublishedIsFinal
<1>1. Inv /\ [Next]_vars => [KeepsPublished]_vars
  BY Invariance
<1> QED
  BY <1>1, Invariant, PTL DEF Spec, PublishedIsFinal, KeepsPublished
=============================================================================
