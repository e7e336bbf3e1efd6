SPECIFICATION BodiesEndSpec
CONSTANTS
  key = key
  oauth = oauth
  r1 = r1
  NoLease = NoLease
  NoAccount = NoAccount
  Accounts = {oauth}
  Requests = {p1, p2}
  Routes = {r1}
  CandidatesOf <- OAuthRoute
  OAuthAccounts = {oauth}
  Limits = {1}
  Priorities = {0}
  NetworkBackoff <- UnitBackoff
  RateBackoff <- UnitBackoff
  Resets = {1}
  QuotaMin = 1
  QuotaMax = 1
  CursorModulus = 1
  Outcomes = {"success", "unauthorized", "reset", "rate_limited", "network", "unrecorded"}
  Interventions = {"restart"}
  AdminStatuses = {}
  MaxTime = 2
  MaxStreak = 1
PROPERTY SlotsReturned
CHECK_DEADLOCK FALSE
