CONSTANTS
  r1 = r1
  r2 = r2
  x1 = x1
  x2 = x2
  y1 = y1
  z1 = z1
  a1 = a1
  a2 = a2
  none = none
  Rollouts = {r1, r2}
  Unknown = r0
  Spans = {x1, x2, y1, z1}
  Home <- Homes
  Size <- Sizes
  Start <- Starts
  Adders = {a1, a2}
  Evict = 3
  Safe = 1
  MaxNumber = 2
  Tasks = {a1, a2}
  CallsOfTask = 2
  NoSpan = 0
  Threads = {a1, a2}
  MaxContexts = 2
  NoId = none
SPECIFICATION MCSpec
INVARIANTS NumbersAreNew NoSilentLoss TracedOnce CallsAreApart DataComeBack
SYMMETRY AdderSymmetry
CHECK_DEADLOCK FALSE
