CONSTANTS
  Clients = {c1, c2, c3}
  a = a
  b = b
  x = x
  Null = Null
  MaxOps = 3
  Consumers = {a, b}
  MaxItems = 4
  MaxLimit = 2
  MaxCounts = 3
  Tasks = {a, b, x}
  LoopOf <- Loops2
  Names <- TwoNames
  Recorders = {a, b}
  MetricNames <- TwoMetrics
  Normal <- OneNormal
  Labels <- OneLabel
  Offered <- Registrations
  Window = 1
  Interval = 1
  EndOfTime = 3
  MaxEvents = 2
  MaxClients = 2
  MaxCalls = 3
SPECIFICATION BackendsSpec
INVARIANTS  NoLostUpdate NoEventLost PoolIsSound
PROPERTY IsQueue
CHECK_DEADLOCK FALSE
