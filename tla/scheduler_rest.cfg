SPECIFICATION HistorySpec
CONSTANTS
  a1 = a1
  a2 = a2
  r1 = r1
  r2 = r2
  NoLease = NoLease
  Accounts = {a1, a2}
  Requests = {p1, p2}
  Routes = {r1}
  CandidatesOf <- OneAccount
  OAuthAccounts = {a2}
  Limits = {1}
  Priorities = {0}
  NetworkBackoff <- ShortBackoff
  RateBackoff <- LongBackoff
  Resets = {1, 3}
  QuotaMin = 1
  QuotaMax = 2
  CursorModulus = 2
  Outcomes = {"success", "unauthorized", "reset", "rate_limited", "network", "unrecorded"}
  Interventions = {"update", "validate", "authorize", "refresh", "restart"}
  AdminStatuses = {"active"}
  MaxTime = 3
  MaxStreak = 2
INVARIANTS RestBounded
PROPERTIES PledgeKept
SYMMETRY RequestSymmetry
CHECK_DEADLOCK FALSE
