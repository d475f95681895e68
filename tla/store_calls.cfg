CONSTANTS
  r1 = r1
  r2 = r2
  w1 = w1
  w2 = w2
  Nobody = Nobody
  MaxTries <- TwoTries
  RetryOn <- Retried
  Limits <- Watched
  Rollouts = {r1}
  Workers = {w1, w2}
  BatchSize = 1
  MaxOrders = 1
  MaxCrashes = 0
SPECIFICATION SafetySpec
INVARIANTS BudgetKept SuccessIsEarned
PROPERTIES SupersededDecidesNothing IsLifecycle
SYMMETRY WorkerSymmetry
CHECK_DEADLOCK FALSE
