------------------------- MODULE MarketRegimeProofs -------------------------
(***************************************************************************)
(* What holds of the regime rows for any market, any periods of averages   *)
(* and any number of days and runs.  The argument needs nothing of the     *)
(* indicators: every category scores between nothing and its maximum,      *)
(* whatever it looks at, so a raw strength lies between 0 and 1; the rest  *)
(* is what smoothing, capping and rounding do to such a number.            *)
(***************************************************************************)
EXTENDS MarketRegime, TLAPS

-----------------------------------------------------------------------------
(* Operators *)

LEMMA FullType == FullStrength \in Nat /\ FullStrength = 480 * PointWorth /\ PointWorth = 250
  BY DEF FullStrength, PointWorth

LEMMA StrengthBounds ==
  \A s \in Int : s \in Strengths <=> s = NoHistory \/ (0 <= s /\ s <= FullStrength)
<1>1. FullStrength \in Int /\ NoHistory = -1
  BY FullType DEF NoHistory
<1> QED
  BY <1>1 DEF Strengths

\* No category scores less than nothing or more than its points, so that a raw
\* strength lies between 0 and 1.
LEMMA RawInRange ==
  ASSUME NEW in
  PROVE  RawBullStrength(in) \in Int /\ 0 <= RawBullStrength(in) /\ RawBullStrength(in) <= FullStrength
<1> DEFINE sma1 == SmaDistanceScore(in.spy50, 60)
           sma2 == SmaDistanceScore(in.spy200, 60)
           sma3 == SmaDistanceScore(in.qqq50, 40)
           sma4 == SmaDistanceScore(in.qqq200, 40)
           cross1 == CrossScore(in.spyCross)
           cross2 == CrossScore(in.qqqCross)
           dist == DistributionScore(in.distDays)
           breadth1 == BreadthScore(in.breadth50, 6000, 5000)
           breadth2 == BreadthScore(in.breadth200, 5500, 4000)
           rs1 == RsScore(in.qqqRs, 10500)
           rs2 == RsScore(in.iwmRs, 9500)
           vix == ScoreVIX(in.vixLevel, in.vixRoc)
           tick == ScoreTick(in.tickMin)
           velocity == ScoreBreadthVelocity(in.velocity)
<1>1. sma1 \in 0 .. 60 /\ sma2 \in 0 .. 60 /\ sma3 \in 0 .. 40 /\ sma4 \in 0 .. 40
  BY DEF SmaDistanceScore
<1>2. cross1 \in 0 .. 20 /\ cross2 \in 0 .. 20
  BY DEF CrossScore
<1>3. dist \in 0 .. 60
  BY DEF DistributionScore
<1>4. breadth1 \in 0 .. 30 /\ breadth2 \in 0 .. 30
  BY DEF BreadthScore
<1>5. rs1 \in 0 .. 20 /\ rs2 \in 0 .. 20
  BY DEF RsScore
<1>6. vix \in 0 .. 40
  <2>1. VIXBase(in.vixLevel) \in {0, 10, 20, 30, 40}
    BY DEF VIXBase
  <2> QED
    BY <2>1 DEF ScoreVIX
<1>7. tick \in 0 .. 20 /\ velocity \in 0 .. 20
  BY DEF ScoreTick, ScoreBreadthVelocity
<1>8. Score(in) = sma1 + sma2 + sma3 + sma4 + cross1 + cross2 + dist + breadth1 + breadth2
                  + rs1 + rs2 + vix + tick + velocity
  BY DEF Score
<1> HIDE DEF sma1, sma2, sma3, sma4, cross1, cross2, dist, breadth1, breadth2,
             rs1, rs2, vix, tick, velocity
<1>9. Score(in) \in 0 .. 480
  BY <1>1, <1>2, <1>3, <1>4, <1>5, <1>6, <1>7, <1>8
<1> QED
  BY <1>9, FullType DEF RawBullStrength

\* The smoothed strength lies between 0 and 1 and, as a fall by more than a
\* quarter is not smoothed, at most an eighth above the raw one.
LEMMA SmoothedBounded ==
  ASSUME NEW raw \in Int, 0 <= raw, raw <= FullStrength, NEW prev \in Strengths
  PROVE  /\ Smoothed(raw, prev) \in Int
         /\ 0 <= Smoothed(raw, prev) /\ Smoothed(raw, prev) <= FullStrength
         /\ Smoothed(raw, prev) <= raw + 60 * PointWorth
<1>0. NoHistory = -1 /\ FullStrength \in Nat
  BY FullType DEF NoHistory
<1>1. prev \in Int /\ prev <= FullStrength
  <2>1. CASE prev = NoHistory
    BY <1>0, <2>1
  <2>2. CASE prev \in 0 .. FullStrength
    BY <1>0, <2>2
  <2> QED
    BY <2>1, <2>2 DEF Strengths
<1>2. Smoothed(raw, prev) = raw \/ (prev >= 0 /\ raw - prev >= -120 * PointWorth
                                    /\ Smoothed(raw, prev) = (raw + prev) \div 2)
  BY <1>1, FullType DEF Smoothed, VelocityThreshold
<1> QED
  BY <1>1, <1>2, FullType

\* Rounding moves a strength by at most 6 and keeps it in the range.
LEMMA StoredClose ==
  ASSUME NEW s \in Int, 0 <= s, s <= FullStrength
  PROVE  /\ Stored(s) \in Int /\ 0 <= Stored(s) /\ Stored(s) <= FullStrength
         /\ Stored(s) <= s + 6 /\ s <= Stored(s) + 6
<1> DEFINE q == (s + 6) \div 12
<1>1. q \in Int /\ 12 * q <= s + 6 /\ s + 6 < 12 * q + 12
  OBVIOUS
<1>2. Stored(s) = 12 * q
  BY <1>1 DEF Stored
<1> HIDE DEF q
<1> QED
  BY <1>1, <1>2, FullType

LEMMA LabelType == \A s : LabelFromStrength(s) \in Labels
  BY DEF LabelFromStrength, Labels

\* A greater strength never gets a worse label.
LEMMA LabelMonotone ==
  ASSUME NEW s \in Int, NEW t \in Int, s <= t
  PROVE  RegimeRank[LabelFromStrength(s)] <= RegimeRank[LabelFromStrength(t)]
  BY FullType DEF LabelFromStrength, RegimeRank

\* The cap yields a label, never a better one, and in a drawdown of more than a
\* fifth one of the two worst.
LEMMA CapBounded ==
  ASSUME NEW label \in Labels, NEW drawdown
  PROVE  /\ DrawdownCap(label, drawdown) \in Labels
         /\ RegimeRank[DrawdownCap(label, drawdown)] <= RegimeRank[label]
         /\ drawdown < -20 * Percent => DrawdownCap(label, drawdown) \in {"correction", "bear"}
  BY DEF DrawdownCap, MostBearish, RegimeRank, Labels

\* What one classification writes, whatever it smooths against.
LEMMA Classified ==
  ASSUME NEW in, NEW prev \in Strengths
  PROVE  LET row == ClassifyRegime(in, prev)
             most == row.raw + 60 * PointWorth + 12
         IN  /\ row \in DailyRow
             /\ row.raw = Stored(RawBullStrength(in))
             /\ row.smoothed <= most
             /\ RegimeRank[row.label] <= RegimeRank[LabelFromStrength(most)]
             /\ in.drawdown < -20 * Percent => row.label \in {"correction", "bear"}
<1> DEFINE raw == RawBullStrength(in)
           smoothed == Smoothed(raw, prev)
           label == LabelFromStrength(smoothed)
           most == Stored(raw) + 60 * PointWorth + 12
<1>1. raw \in Int /\ 0 <= raw /\ raw <= FullStrength
  BY RawInRange
<1>2. /\ smoothed \in Int /\ 0 <= smoothed /\ smoothed <= FullStrength
      /\ smoothed <= raw + 60 * PointWorth
  BY <1>1, SmoothedBounded
<1>3. /\ Stored(raw) \in Int /\ 0 <= Stored(raw) /\ Stored(raw) <= FullStrength
      /\ raw <= Stored(raw) + 6
  BY <1>1, StoredClose
<1>4. /\ Stored(smoothed) \in Int /\ 0 <= Stored(smoothed) /\ Stored(smoothed) <= FullStrength
      /\ Stored(smoothed) <= smoothed + 6
  BY <1>2, StoredClose
<1>5. label \in Labels
  BY LabelType
<1>6. /\ DrawdownCap(label, in.drawdown) \in Labels
      /\ RegimeRank[DrawdownCap(label, in.drawdown)] <= RegimeRank[label]
      /\ in.drawdown < -20 * Percent => DrawdownCap(label, in.drawdown) \in {"correction", "bear"}
  BY <1>5, CapBounded
<1> DEFINE eighth == 60 * PointWorth
<1> HIDE DEF raw, smoothed, label
<1>7. most \in Int /\ smoothed <= most /\ Stored(smoothed) <= most
  <2>1. eighth \in Int
    BY FullType
  <2>2. smoothed <= raw + eighth
    BY <1>2
  <2>3. most = Stored(raw) + eighth + 12
    OBVIOUS
  <2> HIDE DEF eighth, most
  <2> QED
    BY <1>1, <1>2, <1>3, <1>4, <2>1, <2>2, <2>3
<1>8. RegimeRank[label] <= RegimeRank[LabelFromStrength(most)]
  BY <1>2, <1>7, LabelMonotone DEF label
<1>9. LabelFromStrength(most) \in Labels
  BY LabelType
<1>10. \A l \in Labels : RegimeRank[l] \in 0 .. 4
  BY DEF Labels, RegimeRank
<1>11. RegimeRank[DrawdownCap(label, in.drawdown)] <= RegimeRank[LabelFromStrength(most)]
  BY <1>5, <1>6, <1>8, <1>9, <1>10
<1>12. ClassifyRegime(in, prev) = [label |-> DrawdownCap(label, in.drawdown),
                                  raw |-> Stored(raw), smoothed |-> Stored(smoothed)]
  BY DEF ClassifyRegime, raw, smoothed, label
<1>13. ClassifyRegime(in, prev) \in DailyRow
  BY <1>3, <1>4, <1>6, <1>12, StrengthBounds DEF DailyRow
<1> QED
  BY <1>6, <1>7, <1>11, <1>12, <1>13 DEF raw

-----------------------------------------------------------------------------
(* Types *)

LEMMA TypeInit == Init => TypeOK
<1> SUFFICES ASSUME Init PROVE TypeOK
  OBVIOUS
<1>1. market \in Seq(Shapes \cup {<<>>}) /\ today \in Days
  BY RegimeAssumption DEF Init, RegimeAssumption, today
<1>2. newest \in [Tickers -> 0 .. today]
  BY <1>1 DEF Init, Days, today
<1>3. DOMAIN run = DOMAIN Idle /\ run.pc \in Pcs /\ run.seed \in Strengths /\ run = Idle
  BY DEF Init, Idle, Pcs, Strengths
<1>4. DOMAIN inputs = {} /\ DOMAIN regime = {} /\ DOMAIN diverges = {} /\ settled = {}
  BY DEF Init
<1>5. DOMAIN daily \subseteq Days /\ \A d \in DOMAIN daily : daily[d] \in DailyRow
  <2>1. CASE daily = <<>>
    BY <2>1
  <2>2. CASE daily = [d \in {1} |-> [label |-> "bull", raw |-> NoHistory, smoothed |-> NoHistory]]
    <3>1. DOMAIN daily = {1} /\ daily[1] = [label |-> "bull", raw |-> NoHistory, smoothed |-> NoHistory]
      BY <2>2
    <3>2. daily[1] \in DailyRow
      BY <3>1 DEF DailyRow, Labels, Strengths
    <3>3. 1 \in Days
      BY <1>1, RegimeAssumption DEF Days, RegimeAssumption
    <3> QED
      BY <3>1, <3>2, <3>3
  <2> QED
    BY <2>1, <2>2 DEF Init
<1>6. runs \in 0 .. MaxRuns
  BY RegimeAssumption DEF Init, RegimeAssumption
<1> QED
  BY <1>1, <1>2, <1>3, <1>4, <1>5, <1>6 DEF TypeOK

\* A step of the run alone keeps the types when it leaves the run well typed.
LEMMA TypeOfRunStep ==
  ASSUME TypeOK, UNCHANGED <<market, newest, runs, tables>>,
         run' = Idle \/ ( /\ run # Idle /\ DOMAIN run' = DOMAIN Idle
                          /\ run'.pc \in Pcs /\ run'.seed \in Strengths /\ run'.date = run.date )
  PROVE  TypeOK'
<1>1. Idle.pc \in Pcs /\ Idle.seed \in Strengths
  BY DEF Idle, Pcs, Strengths
<1> QED
  BY <1>1 DEF TypeOK, tables, today

LEMMA TypeInvariant == TypeOK /\ [Next]_vars => TypeOK'
<1> SUFFICES ASSUME TypeOK, [Next]_vars PROVE TypeOK'
  OBVIOUS
<1>0. Idle.pc = "idle" /\ DOMAIN Idle = {"pc", "date", "in", "seed", "seedDay", "gate"}
  BY DEF Idle
<1>b. run # Idle => run.date \in 1 .. today /\ run.date \in Days
  <2>1. today \in Int /\ today <= MaxDay /\ MaxDay \in Nat
    BY RegimeAssumption DEF TypeOK, Days, RegimeAssumption
  <2> QED
    BY <2>1 DEF TypeOK, Days
<1>a. NoHistory \in Strengths /\ Idle.seed = NoHistory
  BY DEF Strengths, Idle
<1>1. CASE NextDay
  <2>1. PICK shape \in Shapes \cup {<<>>} : market' = Append(market, shape)
    BY <1>1 DEF NextDay
  <2>2. market' \in Seq(Shapes \cup {<<>>}) /\ Len(market') = Len(market) + 1
    BY <2>1 DEF TypeOK
  <2>3. today \in Days /\ today' = today + 1 /\ today' \in Days
    BY <1>1, <2>2, RegimeAssumption DEF NextDay, TypeOK, Days, RegimeAssumption, today
  <2>4. newest' \in [Tickers -> 0 .. today']
    BY <1>1, <2>3 DEF NextDay, TypeOK, Days
  <2> QED
    BY <1>1, <2>2, <2>3, <2>4 DEF NextDay, TypeOK, tables
<1>2. CASE \E batch \in Batches : Ingest(batch)
  <2>1. newest' \in [Tickers -> 0 .. today] /\ market' = market
    BY <1>2 DEF Ingest, TypeOK, Days
  <2> QED
    BY <1>2, <2>1 DEF Ingest, TypeOK, tables, today
<1>3. CASE \E date \in 1 .. today : StartRun(date)
  <2>1. PICK date \in 1 .. today : StartRun(date)
    BY <1>3
  <2>2. /\ DOMAIN run' = DOMAIN Idle /\ run'.pc = "inputs" /\ run'.seed = NoHistory
        /\ run'.date = date
    BY <2>1 DEF StartRun, Idle
  <2>3. runs' \in 0 .. MaxRuns
    BY <2>1, RegimeAssumption DEF StartRun, TypeOK, RegimeAssumption
  <2>4. run'.pc \in Pcs
    BY <2>2 DEF Pcs
  <2>5. market' = market /\ newest' = newest /\ tables' = tables
    BY <2>1 DEF StartRun, tables
  <2> QED
    BY <1>a, <2>2, <2>3, <2>4, <2>5 DEF TypeOK, tables, today
<1>4. CASE RunBreadthDivergenceJob(today)
  <2>1. DOMAIN diverges' = DOMAIN diverges \cup {today} /\ today \in DOMAIN daily
    BY <1>4 DEF Put, RunBreadthDivergenceJob
  <2> QED
    BY <1>4, <2>1 DEF RunBreadthDivergenceJob, TypeOK, today
<1>5. CASE ReadIndices
  <2>1. run' = Idle \/ \E in : run' = [run EXCEPT !.pc = "breadth", !.in = in]
    BY <1>5 DEF ReadIndices
  <2> QED
    BY <1>5, <2>1, <1>0, TypeOfRunStep DEF ReadIndices, TypeOK, Pcs
<1>6. CASE ReadBreadth
  <2>1. run' = Idle \/ \E in : run' = [run EXCEPT !.pc = "persist", !.in = in]
    BY <1>6 DEF ReadBreadth
  <2> QED
    BY <1>6, <2>1, <1>0, TypeOfRunStep DEF ReadBreadth, TypeOK, Pcs
<1>7. CASE InsertMarketInputs
  <2>1. DOMAIN inputs' = DOMAIN inputs \cup {run.date}
    BY <1>7 DEF Put, InsertMarketInputs
  <2>2. run # Idle /\ run.date \in 1 .. today /\ run.date \in Days
    BY <1>7, <1>0, <1>b DEF InsertMarketInputs
  <2>3. DOMAIN run' = DOMAIN Idle /\ run'.pc = "classify" /\ run'.seed = run.seed /\ run'.date = run.date
    BY <1>7, <1>0 DEF InsertMarketInputs, TypeOK
  <2>4. run'.pc \in Pcs
    BY <2>3 DEF Pcs
  <2> QED
    BY <1>7, <2>1, <2>2, <2>3, <2>4 DEF InsertMarketInputs, TypeOK, today
<1>8. CASE GetMarketInputs
  <2>1. run' = [run EXCEPT !.pc = "seed", !.in = inputs[run.date]] /\ run.pc = "classify"
    BY <1>8 DEF GetMarketInputs
  <2> QED
    BY <1>8, <2>1, <1>0, TypeOfRunStep DEF GetMarketInputs, TypeOK, Pcs
<1>9. CASE GetLatestSmoothedBullStrength
  <2>1. CASE run' = [run EXCEPT !.pc = "daily"]
    BY <1>9, <2>1, <1>0, TypeOfRunStep DEF GetLatestSmoothedBullStrength, TypeOK, Pcs
  <2>2. ASSUME NEW d \in DOMAIN daily,
               run' = [run EXCEPT !.pc = "daily", !.seed = daily[d].smoothed, !.seedDay = d]
        PROVE  TypeOK'
    <3>1. daily[d].smoothed \in Strengths
      BY DEF TypeOK, DailyRow
    <3> QED
      BY <1>9, <2>2, <3>1, <1>0, TypeOfRunStep DEF GetLatestSmoothedBullStrength, TypeOK, Pcs
  <2> QED
    BY <1>9, <2>1, <2>2 DEF GetLatestSmoothedBullStrength
<1>10. CASE UpsertMarketRegimeDaily
  <2>1. run # Idle /\ run.date \in 1 .. today /\ run.date \in Days
    BY <1>10, <1>0, <1>b DEF UpsertMarketRegimeDaily
  <2>2. ClassifyRegime(run.in, run.seed) \in DailyRow
    BY Classified DEF TypeOK
  <2>3. DOMAIN daily' = DOMAIN daily \cup {run.date} /\ \A d \in DOMAIN daily' : daily'[d] \in DailyRow
    BY <1>10, <2>2 DEF Put, UpsertMarketRegimeDaily, TypeOK
  <2>4. DOMAIN run' = DOMAIN Idle /\ run'.pc = "singleton" /\ run'.seed = run.seed /\ run'.date = run.date
    BY <1>10, <1>0 DEF UpsertMarketRegimeDaily, TypeOK
  <2>5. run'.pc \in Pcs
    BY <2>4 DEF Pcs
  <2> QED
    BY <1>10, <2>1, <2>3, <2>4, <2>5 DEF UpsertMarketRegimeDaily, TypeOK, today
<1>11. CASE UpsertMarketRegime
  <2>1. run # Idle /\ run.date \in 1 .. today /\ run.date \in Days
    BY <1>11, <1>0, <1>b DEF UpsertMarketRegime
  <2>2. DOMAIN regime' = DOMAIN regime \cup {run.date}
    BY <1>11 DEF Put, UpsertMarketRegime
  <2>3. DOMAIN run' = DOMAIN Idle /\ run'.pc = "gate" /\ run'.seed = run.seed /\ run'.date = run.date
    BY <1>11, <1>0 DEF UpsertMarketRegime, TypeOK
  <2>4. run'.pc \in Pcs
    BY <2>3 DEF Pcs
  <2> QED
    BY <1>11, <2>1, <2>2, <2>3, <2>4 DEF UpsertMarketRegime, TypeOK, today
<1>12. CASE GetByDate
  <2>1. run' = [run EXCEPT !.pc = "rank", !.gate = "full"] /\ run.pc = "gate"
    BY <1>12 DEF GetByDate
  <2> QED
    BY <1>12, <2>1, <1>0, TypeOfRunStep DEF GetByDate, TypeOK, Pcs
<1>13. CASE LaterSteps \/ Abort
  BY <1>13, TypeOfRunStep DEF LaterSteps, Abort
<1>14. CASE UNCHANGED vars
  BY <1>14 DEF vars, TypeOK, today
<1> QED
  BY <1>1, <1>2, <1>3, <1>4, <1>5, <1>6, <1>7, <1>8, <1>9, <1>10, <1>11, <1>12, <1>13, <1>14
     DEF Next

\* Labels are labels and strengths lie between 0 and 1, for any market.
THEOREM TypeCorrect == Spec => []TypeOK
  BY TypeInit, TypeInvariant, PTL DEF Spec

-----------------------------------------------------------------------------
(* The strengths of the rows *)

LEMMA OverstatedInvariant ==
  TypeOK /\ NeverOverstated /\ [Next]_vars => NeverOverstated'
<1> SUFFICES ASSUME TypeOK, NeverOverstated, [Next]_vars PROVE NeverOverstated'
  OBVIOUS
<1>1. CASE UpsertMarketRegimeDaily
  <2> SUFFICES ASSUME NEW d \in DOMAIN daily', daily'[d].smoothed # NoHistory
               PROVE  LET most == daily'[d].raw + 60 * PointWorth + 12
                      IN  /\ daily'[d].smoothed <= most
                          /\ RegimeRank[daily'[d].label] <= RegimeRank[LabelFromStrength(most)]
    BY DEF NeverOverstated
  <2>1. CASE d = run.date
    <3>1. daily'[d] = ClassifyRegime(run.in, run.seed)
      BY <1>1, <2>1 DEF Put, UpsertMarketRegimeDaily
    <3>2. run.seed \in Strengths
      BY DEF TypeOK
    <3> QED
      BY <3>1, <3>2, Classified
  <2>2. CASE d # run.date
    <3>1. d \in DOMAIN daily /\ daily'[d] = daily[d]
      BY <1>1, <2>2 DEF Put, UpsertMarketRegimeDaily
    <3> QED
      BY <3>1 DEF NeverOverstated
  <2> QED
    BY <2>1, <2>2
<1>2. CASE daily' = daily
  BY <1>2 DEF NeverOverstated
<1> QED
  BY <1>1, <1>2 DEF Next, vars, tables, NextDay, Ingest, StartRun, RunBreadthDivergenceJob,
     ReadIndices, ReadBreadth, InsertMarketInputs, GetMarketInputs,
     GetLatestSmoothedBullStrength, UpsertMarketRegime, GetByDate, LaterSteps, Abort

\* No stored strength or label is more than an eighth better than its session,
\* whichever row the smoothing started from.
THEOREM NeverOverstatedHolds == Spec => []NeverOverstated
<1>1. Init => NeverOverstated
  <2> SUFFICES ASSUME Init, NEW d \in DOMAIN daily PROVE daily[d].smoothed = NoHistory
    BY DEF NeverOverstated
  <2> QED
    BY DEF Init
<1> QED
  BY <1>1, TypeCorrect, OverstatedInvariant, PTL DEF Spec

-----------------------------------------------------------------------------
(* The rows of a date that a run got through *)

\* What a run has in hand: the stored inputs, and then the row it has written;
\* from the moment it replaces the inputs, its date is not settled.
InHand ==
  /\ run.pc \in {"classify", "seed", "daily", "singleton"} => run.date \notin settled
  /\ run.pc \in {"seed", "daily", "singleton"} =>
       run.date \in DOMAIN inputs /\ run.in = inputs[run.date]
  /\ run.pc = "singleton" =>
       run.date \in DOMAIN daily /\ daily[run.date] = ClassifyRegime(run.in, run.seed)

\* In a drawdown the stored label is one of the two worst.
SettledCapped ==
  \A d \in settled : inputs[d].drawdown < -20 * Percent => daily[d].label \in {"correction", "bear"}

RowsInv == InHand /\ SettledRowsAgree /\ SettledCapped

LEMMA RowsInvariant == TypeOK /\ RowsInv /\ [Next]_vars => RowsInv'
<1> SUFFICES ASSUME TypeOK, RowsInv, [Next]_vars PROVE RowsInv'
  OBVIOUS
<1> USE DEF RowsInv
<1>0. Idle.pc = "idle" /\ DOMAIN Idle = {"pc", "date", "in", "seed", "seedDay", "gate"}
  BY DEF Idle
<1>1. CASE InsertMarketInputs
  <2>1. /\ DOMAIN inputs' = DOMAIN inputs \cup {run.date}
        /\ \A d \in DOMAIN inputs : d # run.date => inputs'[d] = inputs[d]
    BY <1>1 DEF Put, InsertMarketInputs
  <2>2. run'.pc = "classify" /\ run'.date = run.date /\ settled' = settled \ {run.date}
    BY <1>1, <1>0 DEF InsertMarketInputs, TypeOK
  <2>3. daily' = daily /\ regime' = regime
    BY <1>1 DEF InsertMarketInputs
  <2>4. InHand'
    BY <2>2 DEF InHand
  <2>5. SettledRowsAgree' /\ SettledCapped'
    BY <2>1, <2>2, <2>3 DEF SettledRowsAgree, SettledCapped
  <2> QED
    BY <2>4, <2>5
<1>2. CASE UpsertMarketRegimeDaily
  <2>1. /\ DOMAIN daily' = DOMAIN daily \cup {run.date}
        /\ daily'[run.date] = ClassifyRegime(run.in, run.seed)
        /\ \A d \in DOMAIN daily : d # run.date => daily'[d] = daily[d]
    BY <1>2 DEF Put, UpsertMarketRegimeDaily
  <2>2. /\ run.pc = "daily" /\ run'.pc = "singleton" /\ run'.date = run.date
        /\ run'.in = run.in /\ run'.seed = run.seed
        /\ inputs' = inputs /\ regime' = regime /\ settled' = settled
    BY <1>2, <1>0 DEF UpsertMarketRegimeDaily, TypeOK
  <2>3. run.date \notin settled
    BY <2>2 DEF InHand
  <2>4. InHand'
    BY <2>1, <2>2 DEF InHand
  <2>5. SettledRowsAgree' /\ SettledCapped'
    BY <2>1, <2>2, <2>3 DEF SettledRowsAgree, SettledCapped
  <2> QED
    BY <2>4, <2>5
<1>3. CASE UpsertMarketRegime
  <2>1. /\ DOMAIN regime' = DOMAIN regime \cup {run.date}
        /\ regime'[run.date] = ClassifyRegime(run.in, run.seed).label
        /\ \A d \in DOMAIN regime : d # run.date => regime'[d] = regime[d]
    BY <1>3 DEF Put, UpsertMarketRegime
  <2>2. /\ run.pc = "singleton" /\ run'.pc = "gate"
        /\ inputs' = inputs /\ daily' = daily /\ settled' = settled \cup {run.date}
    BY <1>3, <1>0 DEF UpsertMarketRegime, TypeOK
  <2>3. /\ run.date \in DOMAIN inputs /\ run.in = inputs[run.date]
        /\ run.date \in DOMAIN daily /\ daily[run.date] = ClassifyRegime(run.in, run.seed)
    BY <2>2 DEF InHand
  <2>4. run.seed \in Strengths
    BY DEF TypeOK
  <2>5. /\ ClassifyRegime(run.in, run.seed).raw = Stored(RawBullStrength(run.in))
        /\ run.in.drawdown < -20 * Percent =>
             ClassifyRegime(run.in, run.seed).label \in {"correction", "bear"}
    BY <2>4, Classified
  <2>6. SettledRowsAgree' /\ SettledCapped'
    BY <2>1, <2>2, <2>3, <2>5 DEF SettledRowsAgree, SettledCapped
  <2> QED
    BY <2>2, <2>6 DEF InHand
<1>4. CASE GetMarketInputs
  <2>1. /\ run.pc = "classify" /\ run'.pc = "seed" /\ run'.date = run.date
        /\ run.date \in DOMAIN inputs /\ run'.in = inputs[run.date] /\ tables' = tables
    BY <1>4, <1>0 DEF GetMarketInputs, TypeOK, tables
  <2> QED
    BY <2>1 DEF InHand, SettledRowsAgree, SettledCapped, tables
<1>5. CASE GetLatestSmoothedBullStrength
  <2>1. /\ run.pc = "seed" /\ run'.pc = "daily" /\ run'.date = run.date
        /\ run'.in = run.in /\ tables' = tables
    BY <1>5, <1>0 DEF GetLatestSmoothedBullStrength, TypeOK, tables
  <2> QED
    BY <2>1 DEF InHand, SettledRowsAgree, SettledCapped, tables
<1>6. CASE NextDay \/ (\E batch \in Batches : Ingest(batch)) \/ RunBreadthDivergenceJob(today) \/ UNCHANGED vars
  <2>1. run' = run /\ inputs' = inputs /\ daily' = daily /\ regime' = regime /\ settled' = settled
    BY <1>6 DEF NextDay, Ingest, RunBreadthDivergenceJob, vars, tables
  <2> QED
    BY <2>1 DEF InHand, SettledRowsAgree, SettledCapped
<1>7. CASE (\E date \in 1 .. today : StartRun(date)) \/ ReadIndices \/ ReadBreadth \/ GetByDate
           \/ LaterSteps \/ Abort
  <2>1. run'.pc \in {"idle", "inputs", "breadth", "persist", "rank"}
    BY <1>7, <1>0 DEF StartRun, ReadIndices, ReadBreadth, GetByDate, LaterSteps, Abort, TypeOK
  <2>2. tables' = tables
    BY <1>7 DEF StartRun, ReadIndices, ReadBreadth, GetByDate, LaterSteps, Abort, tables
  <2> QED
    BY <2>1, <2>2 DEF InHand, SettledRowsAgree, SettledCapped, tables
<1> QED
  BY <1>1, <1>2, <1>3, <1>4, <1>5, <1>6, <1>7 DEF Next

LEMMA RowsHold == Spec => []RowsInv
<1>1. Init => RowsInv
  <2> SUFFICES ASSUME Init PROVE RowsInv
    OBVIOUS
  <2>1. run.pc = "idle" /\ settled = {}
    BY DEF Init, Idle
  <2>2. SettledRowsAgree /\ SettledCapped
    BY <2>1 DEF SettledRowsAgree, SettledCapped
  <2>3. InHand
    BY <2>1 DEF InHand
  <2> QED
    BY <2>2, <2>3 DEF RowsInv
<1> QED
  BY <1>1, TypeCorrect, RowsInvariant, PTL DEF Spec

\* The inputs, the row of the circuit breaker and the legacy row of a date that a
\* run got through belong together, whatever runs were broken off before.
THEOREM SettledRowsAgreeHolds == Spec => []SettledRowsAgree
<1>1. RowsInv => SettledRowsAgree
  BY DEF RowsInv
<1> QED
  BY <1>1, RowsHold, PTL

\* The circuit breaker never opens fully with SPY a fifth below its high.
THEOREM GateIsSafeHolds == Spec => []GateIsSafe
<1>1. RowsInv => GateIsSafe
  <2> SUFFICES ASSUME RowsInv, NEW d \in settled, inputs[d].drawdown < -20 * Percent
               PROVE  Evaluate(d) # "full"
    BY DEF GateIsSafe
  <2>1. d \in DOMAIN daily /\ daily[d].label \in {"correction", "bear"}
    BY DEF RowsInv, SettledRowsAgree, SettledCapped
  <2> QED
    BY <2>1 DEF Evaluate, GateLevel
<1> QED
  BY <1>1, RowsHold, PTL
=============================================================================
