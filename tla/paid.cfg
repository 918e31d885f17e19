\* The attempts of one job, two lanes, and any two of: a crash, an overrun lease, an error outside
\* the attempt, a cancellation, an operator's retry.
SPECIFICATION FairSpec
CONSTANTS
  Lanes = {l1, l2}
  Budget = 3
  MaxCost = 2
  Bills = {1}
  MaxCalls = 2
  MaxAttempts = 2
  Threshold = 1
  MaxEvents = 2
CHECK_DEADLOCK FALSE
INVARIANTS
  TypeOK
  ActiveIsHeld
  SpendWithinBudget
  PaidAttemptsRecorded
  BreakerCounts
PROPERTIES
  LostAttemptStopsJob
