SPECIFICATION Spec
CONSTANTS
  Whole = 1000
  ListSize = 2
  ShortPeriod = 2
  LongPeriod = 3
  MinHistory = 3
  DistLookback = 2
  VelocityLag = 2
  Perf1MPeriod = 1
  Perf3MPeriod = 2
  HistoryDays = 3
  MinHistoryBars = 3
  FirstDay = 3
  MaxDay = 4
  MaxRuns = 2
  ActiveWeights <- MCActiveWeights
  IndexCloses <- MCIndexCloses
  Names <- MCNames
  Deliveries <- MCDeliveries
  Regimes = {"correction"}
  Leaders <- MCLeaders
  Narrative <- MCNarrative
  Replies <- MCReplies
  Reading <- MCReading
  Charted = {"AAA"}
  HistoryShare = 60
  Reports <- MCReports
  Diverging = {4}
INVARIANTS TypeOK RankingReadsWholeSectors RanksFollowScores RecommendedWereRanked
PROPERTIES PublishedIsFinal
\* The environment may stop.
CHECK_DEADLOCK FALSE
