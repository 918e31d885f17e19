\* Lanes of two processes with one workerId, a candidate delivery and a job that defers or fails
\* compete for one slot of capacity; all requests; one lane crashes; the clock and one lane are fair.
SPECIFICATION FairSpec
CONSTANTS
  Lanes = {l1, l2}
  FairLanes = {l1}
  Owners = {o1}
  OwnerOf <- SharedName
  Jobs = {j1, j2}
  Tenants = {t1}
  TenantOf <- OneTenant
  Scope <- AllTenants
  Deliveries = {j1}
  Forwarding = {}
  Deferring = {j2}
  Failures = {"transient", "outage", "uncertain", "terminal"}
  MaxAttempts = 2
  Capacity = 1
  Lease = 1
  Delays = {1}
  LockWait = 1
  MaxTime = 2
  MaxGeneration = 2
  MaxRequests = 2
  MaxCrashes = 1
CHECK_DEADLOCK FALSE
INVARIANTS
  TypeOK
  OneLease
  RowConsistent
  TenantCapacity
PROPERTIES
  UncertainEffectSurvives
  OrphanRecovered
