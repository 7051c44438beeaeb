SPECIFICATION FairSpec
CONSTANTS
  t1 = t1
  c1 = c1
  c2 = c2
  NoClient = NoClient
  NoTask = NoTask
  Tasks <- MCTasks
  Clients <- MCClients
  Placing <- MCPlacing
  MaxAttempts <- MCMaxAttempts
  Priority <- MCConstant
  IdOrder <- MCConstant
  Claimable <- MCClaimable
  Leased <- MCLeased
  LeaseMs = 1
  DistinctStamps = TRUE
  MaxTime = 6
  MaxClaims = 2
INVARIANTS
  ClaimsWithinLimit
PROPERTIES
  RefinesLifecycle
  DispatchEnds
CHECK_DEADLOCK FALSE
