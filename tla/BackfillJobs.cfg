SPECIFICATION FairSpec
CONSTANTS
  w1 = w1
  w2 = w2
  r1 = r1
  NoWorker = NoWorker
  Jobs = {1, 2}
  Workers = {w1, w2}
  Retriers = {r1}
  MaxDay = 2
  MaxAttempts = 3
  JobTimeout = 2
  RebuildTimeout = 2
  StaleThreshold = 5
  MaxMishaps = 3
INVARIANTS TypeOK OneActivePerRequest WorkerOwnsRow AttemptsBounded
PROPERTIES FinishedIsFinal ImplementsQueue JobsSettle
CHECK_DEADLOCK FALSE
