SPECIFICATION LiveSpec
CONSTANTS
  Lease = 1
  Grace = 1
  BackoffBase = 1
  BackoffMax = 3
  NULL = NULL
  MinAttemptAge = 0
  ExcerptTTL = 3
  MaxTries = 1
  OpenStamps = {"listed"}
  Snapshots = {FALSE}
  Gateways = {TRUE}
  Erasures = {}
  EventIds = {e1}
  Ceiling = 1
  MaxFailures = 1
  Stops = {}
  Writers = {w1}
  Passes = {p1}
  MaxInFlight = 0
  MaxTime = 1
  MaxEpoch = 2
  MaxAttempts = 6
  MaxFaults = 1
CHECK_DEADLOCK FALSE
PROPERTIES
  EveryDeathIsTriaged
