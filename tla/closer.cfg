SPECIFICATION Spec
CONSTANTS
  Lease = 1
  Grace = 1
  BackoffBase = 2
  BackoffMax = 3
  NULL = NULL
  MinAttemptAge = 1
  ExcerptTTL = 1
  MaxTries = 1
  OpenStamps = {"listed"}
  Snapshots = {TRUE}
  Gateways = {TRUE}
  Erasures = {TRUE}
  EventIds = {}
  Ceiling = 1
  MaxFailures = 2
  Stops = {s1}
  Writers = {}
  Passes = {p1, p2}
  MaxInFlight = 0
  MaxTime = 2
  MaxEpoch = 2
  MaxAttempts = 2
SYMMETRY RunSymmetry
CHECK_DEADLOCK FALSE
INVARIANTS
  ErasureIsFinal
  OpenRunHasNoBackoff
  PassFenced
PROPERTIES
  ActivationFence
  OpenExcerptSurvives
