CONSTANTS
  t1 = t1
  t2 = t2
  NoRow = NoRow
  Tickers = {t1, t2}
  Enabled = {"tvCollector", "llmEvaluation"}
SPECIFICATION Spec
INVARIANTS
  TypeOK
  RegimeRestsOnBenchmarks
  PostStepsSeeAllCandles
  AuditMatchesRun
PROPERTIES
  RunEnds
