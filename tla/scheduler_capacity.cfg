SPECIFICATION HistorySpec
CONSTANTS
  a1 = a1
  a2 = a2
  r1 = r1
  r2 = r2
  NoLease = NoLease
  Accounts = {a1, a2}
  Requests = {p1, p2, p3}
  Routes = {r1, r2}
  CandidatesOf <- SharedRoutes
  OAuthAccounts = {}
  Limits = {1, 2}
  Priorities = {0}
  NetworkBackoff <- ShortBackoff
  RateBackoff <- LongBackoff
  Resets = {1}
  QuotaMin = 1
  QuotaMax = 2
  CursorModulus = 2
  Outcomes = {"unrecorded"}
  Interventions = {"update", "restart"}
  AdminStatuses = {"active"}
  MaxTime = 1
  MaxStreak = 0
INVARIANTS InFlightIsLeases LimitRespected TieTakesTurns
PROPERTIES ImplementsPool
SYMMETRY RequestSymmetry
CHECK_DEADLOCK FALSE
