SPECIFICATION Spec
CONSTANTS
  TaskWorkers = {w1, w2}
  RolloutN = 2
  MaxSteps = 2
  MaxTasks = 4
  MaxFaults = 2
  BeamWidth = 2
  BranchFactor = 1
  BeamRounds = 2
  Scores = {0, 1}
  Texts = {1}
  InitialValidation = {TRUE, FALSE}
INVARIANTS BatchIsItsOwn RewardsFollowCalls ScoresFit BestIsBest
CHECK_DEADLOCK FALSE
