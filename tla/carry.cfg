SPECIFICATION Spec
CONSTANTS
  Clients = {c1, c2}
  Memories = {m1, m2}
  Commitments = {k1, k2}
  MAX_TRANSITION_ATTEMPTS = 2
  NULL = NULL
SYMMETRY Interchangeable
INVARIANTS
  NoWriteIsRefused
  NoSilentStrand
  EveryChainHasAHead
PROPERTIES
  ArchiveSparesLiveObligation
  AuditTrail
CHECK_DEADLOCK FALSE
