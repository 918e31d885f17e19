SPECIFICATION Spec
CONSTANTS
  k1 = k1
  k2 = k2
  f1 = f1
  f2 = f2
  inv = inv
  r1 = r1
  Clients = {k1, k2}
  Finance = {f1, f2}
  Invoices = {inv}
  Amounts = {1}
  Deltas <- Corrections
  Quotas = {1}
  MaxPlans = 2
  MaxEntries = 6
  Runs = {r1}
  Estimates = {1}
  MaxAttempts = 2
  MaxRetries = 1
SYMMETRY KeySymmetry
INVARIANTS TypeOK LedgerReconciles ChargedIffDone
PROPERTIES ImplementsAccount
