\* run as packages/agent calls it: reconcile always answers missing; any two of
\* a crash and a change of the credential; fairness.
SPECIFICATION FairSpecFromOneVersion
CONSTANTS
  Workers = {w1, w2}
  Owners = {o1}
  OwnerOf <- SharedOwner
  Authorities = {a1, a2}
  Digests = {d1}
  Adoptive = FALSE
  Failures = {"transient", "completed"}
  Replies = {"missing"}
  RetryBudget = 2
  Lease = 1
  Window = 2
  Cooldown = 1
  Delays = {0, 1}
  MaxTime = 2
  MaxGeneration = 3
  MaxMishaps = 2
CHECK_DEADLOCK FALSE
INVARIANTS
  ExecutionsWithinBudget
PROPERTIES
  LapsedLeaseIsReclaimed
  UncertainEffectNotRepeated
