CONSTANTS
  NumTasks = 2
  MaxRetries = 1
  Modes <- AllModes
  MaxStarts = 3
  MaxSaveFailures = 1
  MaxWriteFailures = 1
SPECIFICATION Spec
INVARIANTS CountersAccountForTasks SuccessMeansWorked NoTaskSkipped
CHECK_DEADLOCK FALSE
