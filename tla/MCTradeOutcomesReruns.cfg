CONSTANTS
  Tickers = {"AAA"}
  Visited <- TwoVisited
  Conviction <- TwoConviction
  Horizon = 2
  PrimaryWindow = 2
  DuplicateWindow = 1
  FirstNet = 2
  Lookback = 2
  MaxDay = 3
  Disturbances = {"check", "fetch", "verdict", "stop", "background", "override"}
SPECIFICATION Spec
INVARIANT DroppedForAReason
PROPERTIES
  SettledStays
  NeverRegress
