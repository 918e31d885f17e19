\* One row from its failed delivery to its end: two lanes, an operator request, a crash and a stall.
SPECIFICATION FairSpec
CONSTANTS
  Lanes = {l1, l2}
  Capacity = 1
  MaxReplays = 1
  MaxAttempts = 1
  Quota = 1
  Enforced = TRUE
  Ages = TRUE
  MaxGeneration = 1
  MaxClaims = 4
  MaxRequests = 1
  MaxCrashes = 1
  MaxStalls = 1
CHECK_DEADLOCK FALSE
INVARIANTS
  TypeOK
  SilenceExplained
  OpenHoldCarried
  HoldBacksReplay
PROPERTIES
  FailureSurfaces
