\* One lane, and a crash between a paid call and the outcome of its attempt.
SPECIFICATION FairSpec
CONSTANTS
  Lanes = {l1}
  Budget = 3
  MaxCost = 2
  Bills = {1}
  MaxCalls = 1
  MaxAttempts = 2
  Threshold = 1
  MaxEvents = 1
CHECK_DEADLOCK FALSE
PROPERTIES
  CostRecovered
