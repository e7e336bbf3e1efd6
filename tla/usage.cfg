SPECIFICATION FairRetentionSpec
CONSTANTS
  e1 = e1
  e2 = e2
  e3 = e3
  a1 = a1
  Events = {e1, e2, e3}
  Accounts = {a1}
  AccountOf <- OneAccount
  Capacity = 1
  BatchSize = 2
  Faults = TRUE
  Deletions = TRUE
  StartedOn <- EarlyAndLate
  Failures = {e1}
  Period = 1
  CleanupSize = 1
  LastDay = 2
INVARIANTS LedgerBalances CleanCloseStoresEarly
PROPERTY SweepIsComplete EventuallyWritten
CHECK_DEADLOCK FALSE
