CONSTANTS
  Remote = {c1, c2}
  Local = {o1}
  Retries = 1
  MaxCalls = 3
  MaxFaults = 1
SPECIFICATION Spec
INVARIANTS ClaimsAreSingle NumbersFollowSpans
CHECK_DEADLOCK FALSE
