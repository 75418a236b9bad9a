SPECIFICATION Spec
CONSTANTS
  Requests = {r1, r2, r3, r4, r5}
  Proofs = {p1, p2}
  MaxAttempts = 3
  Faults = {"crash"}
  Mailbox = Mailbox
  NULL = NULL
SYMMETRY Alike
CHECK_DEADLOCK FALSE
INVARIANTS
  TypeOK
  NoLinkOutlivesVerification
PROPERTIES
  ActivatesOwnPassword
