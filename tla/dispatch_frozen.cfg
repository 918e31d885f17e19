\* One delivery whose call to GitHub is refused.
SPECIFICATION Spec
CONSTANTS
  None = None
  Deliveries = {d1}
  Lanes = {l1, l2}
  MaxAttempts = 1
  MaxEvents = 1
CHECK_DEADLOCK FALSE
INVARIANTS
  FenceCanLift
