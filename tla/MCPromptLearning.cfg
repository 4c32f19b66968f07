SPECIFICATION Spec
CONSTANTS
  Tickers = {"AAA", "BBB"}
  MaxExitDays = 2
  Lookback = 2
  Horizon = 3
  FiveDays = 2
  ExperimentDays = 3
  MinSample = 1
  VerdictAfter = 2
  GiveUpAfter = 2
  MaxRuns = 2
  MaxRerun = 1
  MaxDay = 4
  LastSignal = 1
  Markets <- MCMarkets
  Answers <- MCAnswers
INVARIANTS TypeOK ExitFollowsThePath VerdictsAreTrue OnlyMaturePicksCount
PROPERTIES SettledExitStands
\* The model's last day.
CHECK_DEADLOCK FALSE
