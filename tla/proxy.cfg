SPECIFICATION MCSpec
CONSTANTS
  q1 = q1
  q2 = q2
  Requests = {q1, q2}
  AttemptOf <- MCAttempts
  Modes = {"asyncio", "thread", "mp", "gunicorn"}
  MaxStarts = 2
  MaxFaults = 1
  MaxProxyStarts = 1
  TrainSize = 2
  ValSize = 1
  Epochs = 2
  MaxQueue = 0
  MaxTries = 2
  Approx = 3
  ArgChunk = 2
  WordChunk = 2
  MaxText = 5
INVARIANTS StopLeavesNothing TraceComplete StreamIsAnswer BaselineIsWhole
CHECK_DEADLOCK FALSE
