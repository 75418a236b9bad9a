SPECIFICATION Spec
CONSTANTS
  Calls = {c1, c2}
  Memories = {m1, m2}
  Estimate <- MCEstimate
  Fallback = 2
  Caps = {1}
  Windows <- MCWindows
  DefaultCap = 2
  TTL = 1
  WindowDays = 1
  Faults = {"lookup", "gateway", "accounting", "crash"}
  MaxTime = 1
  NULL = NULL
SYMMETRY Alike
CHECK_DEADLOCK FALSE
INVARIANTS
  TypeOK
  NoSilentVectorLoss
PROPERTIES
  AdmissionRespectsCap
