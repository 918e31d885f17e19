SPECIFICATION Spec
CONSTANTS
  k1 = k1
  k2 = k2
  f1 = f1
  f2 = f2
  inv = inv
  r1 = r1
  Clients = {k1}
  Finance = {f1}
  Invoices = {inv}
  Amounts = {2}
  Deltas <- Corrections
  Quotas = {2}
  MaxPlans = 2
  MaxEntries = 4
  Runs = {r1}
  Estimates = {1}
  MaxAttempts = 2
  MaxRetries = 1
INVARIANTS RetriedRunHolds
