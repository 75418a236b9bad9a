SPECIFICATION Spec
CONSTANTS
  Lease = 1
  Grace = 1
  BackoffBase = 1
  BackoffMax = 3
  NULL = NULL
  MinAttemptAge = 1
  ExcerptTTL = 3
  MaxTries = 2
  OpenStamps = {"omitted", "listed"}
  Snapshots = {FALSE}
  Gateways = {TRUE, FALSE}
  Erasures = {}
  EventIds = {e1, e2}
  Ceiling = 1
  MaxFailures = 0
  Stops = {}
  Writers = {w1}
  Passes = {p1}
  MaxInFlight = 0
  MaxTime = 2
  MaxEpoch = 2
  MaxAttempts = 2
SYMMETRY RunSymmetry
CHECK_DEADLOCK FALSE
INVARIANTS
  HandshakeNeverBorrowed
  NoWriteLostToTriage
PROPERTIES
  OverflowIsTerminal
