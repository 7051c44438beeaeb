SPECIFICATION PortSpec
CONSTANTS
  Budget = 60
  Timeout = 20
  MaxRequests = 3
  BaseDelay = 1
  MaxJitter = 1
  Delays = {0, 2, 45, 60, 61}
  Lag = 2
  MaxSends = 2
  NoDelay = NoDelay
INVARIANTS
  EndsInTime
  ResolvedIsPosted
PROPERTIES
  RespectsWait
CHECK_DEADLOCK FALSE
