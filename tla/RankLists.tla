----------------------------- MODULE RankLists -----------------------------
(***************************************************************************)
(* From the screeners' rows to the momentum list: the steps of the nightly *)
(* run that store the regime, the sector scores and the ranked tickers of  *)
(* a date.  MomentumEngine and SectorMomentum hold the arithmetic; here is *)
(* what a step reads, and what is left when one of its upserts fails.      *)
(*                                                                         *)
(* The run may be for an earlier date (--date), may be repeated, and may   *)
(* end at any point; the API stores rows of the day meanwhile.  The gate   *)
(* of the circuit breaker is always "full" (MarketRegime shows why), so    *)
(* no step is skipped.  What later steps do is in ListEvaluation.          *)
(***************************************************************************)
EXTENDS MomentumEngine, SectorMomentum, ScreenerRows

CONSTANTS
  IndexCloses, \* the closes of "SPY" and of the ETFs, for every day of the model
  Names,       \* the tickers, in alphabetical order
  Deliveries,  \* bound: the payloads of the tv-collector (see ScreenerRows)
  Regimes,     \* bound: the labels the classification may give
  Leaders,     \* sector_leadership_daily, which no job fills: <<date, ticker>>
  Narrative,   \* narrative_velocity_daily, which no job fills: of a ticker
  FirstDay,    \* bound: the day the model starts on
  MaxDay,      \* bound: the days of the model
  MaxRuns      \* bound: the runs and commands that are started

Tickers == Range(Names)
TickerRank == [t \in Tickers |-> CHOOSE i \in DOMAIN Names : Names[i] = t]
ETFs == DOMAIN IndexCloses \ {"SPY"}
Dates == FirstDay .. MaxDay

\* The entries are of known tickers, and what is given of them is a number.
PayloadOK(payload) ==
  \A s \in DOMAIN payload :
    /\ payload[s] \in Seq(Range(payload[s]))
    /\ \A entry \in Range(payload[s]) :
         /\ "symbol" \in DOMAIN entry => entry.symbol \in Tickers
         /\ \A f \in DOMAIN entry \ {"symbol", "exchange", "sector"} : entry[f] \in Int

ASSUME RankAssumption ==
  /\ FirstDay \in Nat \ {0} /\ MaxDay \in Nat /\ FirstDay <= MaxDay /\ MaxRuns \in Nat
  /\ Names \in Seq(Tickers) /\ IsInjective(Names)
  /\ "SPY" \in DOMAIN IndexCloses /\ ETFs # {}
  /\ \A e \in DOMAIN IndexCloses : IndexCloses[e] \in Seq(Nat \ {0}) /\ Len(IndexCloses[e]) >= MaxDay
  /\ \A payload \in Deliveries : DOMAIN payload \subseteq Range(Sources) /\ PayloadOK(payload)
  /\ Leaders \subseteq Dates \X Tickers /\ \A t \in DOMAIN Narrative : Narrative[t] \in Int

VARIABLES
  day,     \* today
  rows,    \* tv_snapshots_daily of a date: the rows by screener and ticker
  regime,  \* market_regime_daily: the label of a date
  sectors, \* sector_scores_daily: [score, label], by <<date, etf>>
  ranks,   \* daily_rank_lists, list momentum: [rank, score], by <<date, ticker>>
  renewed, \* history: [etfs, tickers] the last run for a date has upserted
  run,     \* the nightly run: [pc, date, scores, list, at]
  runs     \* how many have been started

rankVars == <<day, rows, regime, sectors, ranks, renewed, run, runs>>

Idle == [pc |-> "idle", date |-> FirstDay, scores |-> <<>>, list |-> <<>>, at |-> 0]
Put(table, key, row) == [k \in DOMAIN table \cup {key} |-> IF k = key THEN row ELSE table[k]]
NoneRenewed == [etfs |-> {}, tickers |-> {}]
OfDate(table, d) == {k[2] : k \in {k \in DOMAIN table : k[1] = d}}

RankInit ==
  /\ day = FirstDay
  /\ rows = [d \in Dates |-> <<>>]
  /\ regime = <<>> /\ sectors = <<>> /\ ranks = <<>>
  /\ renewed = [d \in Dates |-> NoneRenewed]
  /\ run = Idle /\ runs = 0

-----------------------------------------------------------------------------
(* The world: a day goes by, the tv-collector posts a snapshot.            *)

NextDay ==
  /\ day < MaxDay /\ run.pc = "idle"
  /\ day' = day + 1
  /\ UNCHANGED <<rows, regime, sectors, ranks, renewed, run, runs>>

\* An upsert by screener and ticker: no row is deleted.
InsertBatch(table, snaps) ==
  LET delivered == {k \in (DOMAIN snaps) \X Tickers : k[2] \in DOMAIN snaps[k[1]]}
  IN  [k \in DOMAIN table \cup delivered |-> IF k \in delivered THEN snaps[k[1]][k[2]] ELSE table[k]]

\* All screeners of the payload in one step: SnapshotCollection has the failure of one.
PostSnapshot(payload) ==
  /\ rows' = [rows EXCEPT ![day] =
       InsertBatch(@, [s \in DOMAIN payload |-> ExtractTVSnapshots(payload[s])])]
  /\ UNCHANGED <<day, regime, sectors, ranks, renewed, run, runs>>

-----------------------------------------------------------------------------
(* The steps of a run.                                                     *)

Start(date, pc) ==
  /\ run.pc = "idle" /\ runs < MaxRuns
  /\ date \in Dates /\ date <= day
  /\ run' = [Idle EXCEPT !.pc = pc, !.date = date]
  /\ runs' = runs + 1

StartRun(date) ==
  /\ Start(date, "regime")
  /\ renewed' = [renewed EXCEPT ![date] = NoneRenewed]
  /\ UNCHANGED <<day, rows, regime, sectors, ranks>>

\* A step that fails ends the run, with what it and the steps before it stored.
Abort ==
  /\ run.pc # "idle"
  /\ run' = Idle
  /\ UNCHANGED <<day, rows, regime, sectors, ranks, renewed, runs>>

\* The classification (see MarketRegime) leaves some label.
ClassifyRegime(label) ==
  /\ run.pc = "regime"
  /\ regime' = Put(regime, run.date, label)
  /\ run' = [run EXCEPT !.pc = "sectors"]
  /\ UNCHANGED <<day, rows, sectors, ranks, renewed, runs>>

\* GetIndexHistory: the newest candles, whatever the date of the run.
Histories == [e \in DOMAIN IndexCloses |-> Newest(SubSeq(IndexCloses[e], 1, day), HistoryDays)]

\* BuildSectorScores; too little history of one ticker fails the step.
ComputeSectors ==
  /\ run.pc = "sectors"
  /\ EnoughHistory(Histories)
  /\ run' = [run EXCEPT !.pc = "storeSectors", !.scores = BuildSectorScores(Histories)]
  /\ UNCHANGED <<day, rows, regime, sectors, ranks, renewed, runs>>

StoreSectorScore(date, etf, row) ==
  /\ sectors' = Put(sectors, <<date, etf>>, row)
  /\ renewed' = [renewed EXCEPT ![date].etfs = @ \cup {etf}]

\* Mutant: an upsert that fails is only logged.
UpsertSectorScoreOrLog(etf) ==
  /\ run.pc = "storeSectors"
  /\ etf \in DOMAIN run.scores
  /\ StoreSectorScore(run.date, etf, run.scores[etf]) \/ UNCHANGED <<sectors, renewed>>
  /\ run' = [run EXCEPT !.scores = Restrict(@, DOMAIN @ \ {etf}),
                        !.pc = IF DOMAIN run.scores = {etf} THEN "rank" ELSE @]
  /\ UNCHANGED <<day, rows, regime, ranks, runs>>

\* The strongest ETF first, equals in any order.
UpsertSectorScore(etf) ==
  /\ run.pc = "storeSectors"
  /\ etf \in DOMAIN run.scores
  /\ \A e \in DOMAIN run.scores : run.scores[e].score <= run.scores[etf].score
  /\ StoreSectorScore(run.date, etf, run.scores[etf])
  /\ run' = [run EXCEPT !.scores = Restrict(@, DOMAIN @ \ {etf}),
                        !.pc = IF DOMAIN run.scores = {etf} THEN "rank" ELSE @]
  /\ UNCHANGED <<day, rows, regime, ranks, runs>>

\* The repositories behind the engine; GetMarketRegimeDaily fails without a row.
ListByDate(date) == rows[date]
GetMarketRegimeDaily(date) == date \in DOMAIN regime
GetSectorScores(date) == OfDate(sectors, date)
GetLeadersForDate(date) == {t \in Tickers : <<date, t>> \in Leaders}

\* buildSectorLabelMap
SectorLabels(date) == [e \in GetSectorScores(date) |-> sectors[<<date, e>>].label]

\* loadRegimeMultiplier; read: the query went through.
RegimeLabel(date, read) == IF read /\ GetMarketRegimeDaily(date) THEN regime[date] ELSE "neutral"

\* Compute and the boost; an error of the snapshots' or the leaders' query aborts,
\* one of the regime's or the scores' counts as no row.
ComputeList(regimeRead, scoresRead, weights) ==
  /\ run.pc = "rank"
  /\ LET labels == IF scoresRead THEN SectorLabels(run.date) ELSE <<>>
         ranked == Compute(ListByDate(run.date), weights,
                           RegimeLabel(run.date, regimeRead), labels, Narrative, TickerRank)
     IN  run' = [run EXCEPT !.list = ApplyLeadershipBoost(ranked, GetLeadersForDate(run.date)),
                            !.at = 1,
                            !.pc = IF ranked = <<>> THEN "evaluate" ELSE "storeList"]
  /\ UNCHANGED <<day, rows, regime, sectors, ranks, renewed, runs>>

StoreRank(date, ticker, row) ==
  /\ ranks' = Put(ranks, <<date, ticker>>, row)
  /\ renewed' = [renewed EXCEPT ![date].tickers = @ \cup {ticker}]

\* persistList: by ticker; the rows of the date that are not in the list stay.
UpsertRankList ==
  /\ run.pc = "storeList"
  /\ LET row == run.list[run.at]
     IN  StoreRank(run.date, row.ticker, [rank |-> run.at, score |-> row.score])
  /\ run' = IF run.at < Len(run.list) THEN [run EXCEPT !.at = @ + 1]
            ELSE [run EXCEPT !.pc = "evaluate", !.list = <<>>, !.at = 0]
  /\ UNCHANGED <<day, rows, regime, sectors, runs>>

World == NextDay \/ \E payload \in Deliveries : PostSnapshot(payload)

RankSteps ==
  \/ \E label \in Regimes : ClassifyRegime(label)
  \/ ComputeSectors
  \/ \E etf \in ETFs : UpsertSectorScore(etf)
  \/ \E regimeRead, scoresRead \in BOOLEAN, weights \in LoadMomentumWeights :
       ComputeList(regimeRead, scoresRead, weights)
  \/ UpsertRankList

-----------------------------------------------------------------------------
(* Properties.                                                             *)

RankTypeOK ==
  /\ day \in Dates
  /\ DOMAIN regime \subseteq Dates /\ Range(regime) \subseteq Regimes
  /\ DOMAIN sectors \subseteq Dates \X ETFs
  /\ DOMAIN ranks \subseteq Dates \X Tickers
  /\ renewed \in [Dates -> [etfs : SUBSET ETFs, tickers : SUBSET Tickers]]
  /\ run.date \in Dates /\ run.date <= day

\* The ranking never reads half a cross-section: when the sector job failed
\* between two ETFs the run is over, and the ETFs' rows of a date that is ranked
\* all come from the run that ranks it.
RankingReadsWholeSectors ==
  run.pc \in {"rank", "storeList"} =>
    ETFs \subseteq renewed[run.date].etfs /\ ETFs \subseteq OfDate(sectors, run.date)

\* The places of the tickers a run has stored follow their scores, up to the 5 %
\* the leadership boost adds after the order is made: a ticker is never placed
\* above one whose score is higher by more than the boost.
RanksFollowScores ==
  \A d \in Dates : \A a, b \in renewed[d].tickers :
    ranks[<<d, a>>].rank < ranks[<<d, b>>].rank
      => ranks[<<d, b>>].score * 100 <= ranks[<<d, a>>].score * 105
=============================================================================
