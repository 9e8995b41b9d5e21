SPECIFICATION FairSpec
CONSTANTS
  CalculationWorkers = {c1}
  RefreshWorkers = {r1}
  CalculationCap = 2
  RefreshCap = 1
  Portfolios = 2
  MaxCalculations = 4
  MaxRefreshes = 1
INVARIANTS TypeOK EveryJobAccounted
PROPERTIES QuietAfterStop JobsLeave StopHangsOnlyOnMutex
CHECK_DEADLOCK FALSE
