CONSTANTS
  Providers = {"Codex", "CursorAgent"}
  Names = {"Codex", "CursorAgent", "cursor-agent", "Other"}
  NormalName <- AliasedNames
  Order <- AliasedOrder
  Calls = {c1, c2}
  Kinds = {"fallback", "breaker", "best", "ai"}
  FailureThreshold = 1
  ResetTimeout = 1
  MaxBreakers = 1
  MaxCalls = 3
  MaxResets = 1
  MaxTime = 3
SPECIFICATION ManagerSpec
INVARIANTS CallsAreAccounted
PROPERTIES BreakerStaysOpen
CHECK_DEADLOCK FALSE
