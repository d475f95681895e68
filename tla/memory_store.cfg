CONSTANTS
  r1 = r1
  r2 = r2
  c1 = c1
  c2 = c2
  w1 = w1
  Rollouts = {r1}
  Callers = {c1, c2}
  Waiters = {w1}
  MaxTries <- TwoTries
  RetryOn <- Retried
  Limits <- Watched
  MaxEnds = 2
  Known = {r1, r2}
  Asks <- Lists
  Timeouts <- SomeTimes
  Never <- NoLimit
  Longest = 3
  Margin = 1
  Nap = 1
  MaxTime = 8
SPECIFICATION MCSpec
INVARIANTS CacheIsExact NothingMissed
PROPERTY FinishedWakes
CHECK_DEADLOCK FALSE
