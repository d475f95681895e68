CONSTANTS
  r1 = r1
  r2 = r2
  w1 = w1
  w2 = w2
  Nobody = Nobody
  MaxTries <- TwoTries
  RetryOn <- Retried
  Limits <- Watched
  Rollouts = {r1}
  Workers = {w1}
  BatchSize = 1
  MaxOrders = 1
  MaxCrashes = 1
SPECIFICATION Spec
INVARIANTS QueuedIsCarried
PROPERTIES EventuallyFinished
CHECK_DEADLOCK FALSE
