CONSTANTS
  spy = spy
  qqq = qqq
  aapl = aapl
  NoCandle = NoCandle
  NoJob = NoJob
  w1 = w1
  w2 = w2
  Tickers = {spy, qqq, aapl}
  Benchmarks = {spy, qqq}
  Screened = {aapl}
  Workers = {w1, w2}
  MaxRetries = 2
  Today = 1
  LookbackDays = 0
  StoredLatest <- MCStoredLatest
SPECIFICATION Spec
INVARIANT ScreenerTickersAreCritical
