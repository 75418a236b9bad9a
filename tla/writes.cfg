SPECIFICATION Spec
CONSTANTS
  Calls = {c1, c2}
  Standing = {s1, s2}
  Hashes = {h1, h2, h3}
  Keys = {1, 2}
  Proposals = {p1}
  Serieses <- MCSerieses
  Limits <- MCLimits
  MaxRows = 2
  MaxTime = 1
  NULL = NULL
SYMMETRY Alike
CHECK_DEADLOCK FALSE
INVARIANTS
  TypeOK
  OneCurrentValue
  OneFactPerDecision
  QuotaHolds
  NoWaitCycle
