SPECIFICATION Spec
CONSTANTS
  a1 = a1
  a2 = a2
  a3 = a3
  Accounts <- MCAccounts
  RowKinds <- MCRows
  Loads = {0, 1, 2}
  Clocks = {1}
  Request <- MCRequest
  MaxRows = 3
  Width = 9
  Second = 3
  QuotaMin = 3
  QuotaMax = 120
  RateBackoff <- MCRateBackoff
  NetworkBackoff <- MCNetworkBackoff
  Headers <- MCHeaders
  MaxStreak = 8
INVARIANTS ScanFindsTie RetryAfterIsExact FilterErrorIsMostSpecific
  RepresentableRetryAfterHonoured BackoffIsCappedDoubling
SYMMETRY AccountSymmetry
CHECK_DEADLOCK FALSE
