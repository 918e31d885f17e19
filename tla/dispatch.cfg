\* Two deliveries of one change, two lanes, and any two of: a control-plane write, an operator's
\* request, a crash, an overrun lease, a failure that is retried.
SPECIFICATION FairSpec
CONSTANTS
  None = None
  Deliveries = {d1, d2}
  Lanes = {l1, l2}
  MaxAttempts = 2
  MaxEvents = 2
CHECK_DEADLOCK FALSE
INVARIANTS
  TypeOK
  LiveUnderAuthority
  DraftAccountedFor
  SettledTogether
PROPERTIES
  EffectUnderAuthority
  FenceLiftsOnce
  MergedTaskCompletesOnce
