SPECIFICATION Spec
CONSTANTS
  Calls = {c1, c2, c3}
  Memories = {}
  Estimate <- MCEstimate
  Fallback = 2
  Caps = {}
  Windows = {}
  DefaultCap = 2
  TTL = 1
  WindowDays = 1
  Faults = {}
  MaxTime = 0
  NULL = NULL
CHECK_DEADLOCK FALSE
INVARIANTS
  CapIsCeiling
