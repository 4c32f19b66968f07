CONSTANTS
  Tickers = {"AAA"}
  Visited <- TwoVisited
  Conviction <- TwoConviction
  Horizon = 3
  PrimaryWindow = 1
  DuplicateWindow = 1
  FirstNet = 2
  Lookback = 5
  MaxDay = 5
  Disturbances = {"mark"}
SPECIFICATION Spec
INVARIANTS
  TypeOK
  OnePrimaryPerDay
  DayKeepsObservation
  NetWithinGross
PROPERTIES
  CompletedRunIsComplete
  EverySignalSettles
