SPECIFICATION Spec
CONSTANTS
  ShortPeriod = 2
  LongPeriod = 3
  MinHistory = 4
  DistLookback = 3
  VelocityLag = 2
  Grace = 1
  MaxDay = 6
  Back = 1
  MaxRuns = 2
  Stocks <- MCStocks
  Batches <- MCBatches
  FirstSessions <- MCFirstSessions
  Shapes <- MCShapes
  Weekends <- MCWeekends
  WeekBack <- MCWeekBack
INVARIANTS TypeOK NeverOverstated SettledRowsAgree GateIsSafe
\* The model ends when its days and its runs are over.
CHECK_DEADLOCK FALSE
