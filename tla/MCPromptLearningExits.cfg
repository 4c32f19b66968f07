SPECIFICATION Spec
CONSTANTS
  Tickers = {"AAA", "BBB"}
  MaxExitDays = 2
  Lookback = 2
  Horizon = 3
  FiveDays = 2
  ExperimentDays = 3
  MinSample = 1
  VerdictAfter = 2
  GiveUpAfter = 2
  MaxRuns = 1
  MaxRerun = 0
  MaxDay = 2
  LastSignal = 1
  Markets <- MCMarkets
  Answers <- MCAnswers
INVARIANT ExitsAreAfterTheSignal
CHECK_DEADLOCK FALSE
