SPECIFICATION Spec
CONSTANTS
  Lease = 2
  Grace = 2
  BackoffBase = 1
  BackoffMax = 3
  NULL = NULL
  MinAttemptAge = 1
  ExcerptTTL = 3
  MaxTries = 1
  OpenStamps = {"omitted"}
  Snapshots = {FALSE}
  Gateways = {TRUE}
  Erasures = {}
  EventIds = {e1, e2}
  Ceiling = 2
  MaxFailures = 0
  Stops = {s1}
  Writers = {w1}
  Passes = {}
  MaxInFlight = 2
  MaxTime = 5
  MaxEpoch = 3
  MaxAttempts = 0
SYMMETRY RunSymmetry
CHECK_DEADLOCK FALSE
INVARIANTS
  SweptCloseStaysImplicit
PROPERTIES
  ExplicitCloseIsDurable
  StopLeavesRunOpen
  OneEpochPerDeath
