\* A delivery outage reported by a job whose failure path does not ask to retry past the budget.
SPECIFICATION Spec
CONSTANTS
  Lanes = {l1, l2}
  FairLanes = {l1}
  Owners = {o1, o2}
  OwnerOf <- OwnName
  Jobs = {j1}
  Tenants = {t1}
  TenantOf <- OneTenant
  Scope <- AllTenants
  Deliveries = {}
  Forwarding = {}
  Deferring = {}
  Failures = {"outage"}
  MaxAttempts = 2
  Capacity = 1
  Lease = 2
  Delays = {1}
  LockWait = 0
  MaxTime = 4
  MaxGeneration = 3
  MaxRequests = 1
  MaxCrashes = 0
CHECK_DEADLOCK FALSE
PROPERTIES
  OutageOutlivesBudget
