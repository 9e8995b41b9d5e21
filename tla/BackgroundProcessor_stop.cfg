SPECIFICATION FairSpec
CONSTANTS
  CalculationWorkers = {c1}
  RefreshWorkers = {r1}
  CalculationCap = 2
  RefreshCap = 1
  Portfolios = 2
  MaxCalculations = 2
  MaxRefreshes = 1
PROPERTY StopReturns
CHECK_DEADLOCK FALSE
