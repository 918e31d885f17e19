\* Two lanes, two repairs, and any two of: a request of a person, a write of the control plane, a
\* webhook, a push by others, a crash, an overrun lease, a failure that is retried.
SPECIFICATION FairSpec
CONSTANTS
  None = None
  Foreign = Foreign
  Lanes = {l1, l2}
  MaxCycles = 2
  MaxAttempts = 2
  MaxEvents = 2
CHECK_DEADLOCK FALSE
INVARIANTS
  TypeOK
  HeadAccounted
  InDoubtTogether
  WaitsForItsJob
PROPERTIES
  PauseStands
  UpdateResolved
