SPECIFICATION Spec
CONSTANTS
  Passes = {s1, s2, s3}
  Runs = {a1, a2}
  Reviewers = {r1, r2}
  MaxMemory = 2
  MAX_TRANSITION_ATTEMPTS = 3
  NULL = NULL
SYMMETRY Alike
CHECK_DEADLOCK FALSE
INVARIANTS
  TypeOK
  DecisionsHold
