\* runAdoptive: two calls of one process, any two of a crash and a change of the
\* credential, retries, expiry, reopening and permanent failures.
SPECIFICATION Spec
CONSTANTS
  Workers = {w1, w2}
  Owners = {o1}
  OwnerOf <- SharedOwner
  Authorities = {a1, a2}
  Digests = {d1, d2}
  Adoptive = TRUE
  Failures = {"transient", "permission", "permanent", "unclassifiable"}
  Replies = {"missing"}
  RetryBudget = 2
  Lease = 1
  Window = 2
  Cooldown = 1
  Delays = {0, 1}
  MaxTime = 3
  MaxGeneration = 2
  MaxMishaps = 2
SYMMETRY Symmetry
CHECK_DEADLOCK FALSE
INVARIANTS
  TypeOK
  DecisionAccepted
PROPERTIES
  ImplementsLease
