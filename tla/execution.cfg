CONSTANTS
  Runners = {w1, w2}
  Rollouts = {r1}
  NoRollout = NoRollout
  MaxRollouts = 1
  Strategies <- AllStrategies
  MaxInterrupts = 2
  Nobody = Nobody
  Workers = {w1, w2}
  Zero = w1
  MaxCancels = 1
SPECIFICATION MCSpec
INVARIANTS NoAttemptForgotten NoProcessLeft BeatsAreOwn
PROPERTIES StopEnds
CHECK_DEADLOCK FALSE
