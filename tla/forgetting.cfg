SPECIFICATION Spec
CONSTANTS
  Passes = {s1, s2}
  Reviewers = {r1, r2}
  Near <- AllNear
  STALE_WINDOW_DAYS = 0
  BATCH_MAX_ITEMS = 1
  FirstMemories = 1
  MaxMemory = 2
  MaxTime = 2
  NULL = NULL
SYMMETRY Alike
CHECK_DEADLOCK FALSE
INVARIANTS
  VerdictsHold
  JudgedAnew
PROPERTIES
  NamesTheLive
