SPECIFICATION Spec
CONSTANTS
  Requests = {r1, r2, r3}
  Standing = {s1}
  Clients = {k1, k2}
  Limits = {1}
  MaxPassword = 3
  Faults = {"crash"}
  NULL = NULL
SYMMETRY Alike
CHECK_DEADLOCK FALSE
INVARIANTS
  TypeOK
  NothingSurvivesErasure
  SessionsMatchPassword
PROPERTIES
  NoPasswordIsOverwritten
  LimitHolds
  GrantFamiliesHold
