SPECIFICATION GatewaySpec
CONSTANTS
  key = key
  oauth = oauth
  r1 = r1
  NoLease = NoLease
  NoAccount = NoAccount
  Accounts = {key, oauth}
  Requests = {p1, p2}
  Routes = {r1}
  CandidatesOf <- OneRoute
  OAuthAccounts = {oauth}
  Limits = {1}
  Priorities = {0}
  NetworkBackoff <- UnitBackoff
  RateBackoff <- UnitBackoff
  Resets = {1}
  QuotaMin = 1
  QuotaMax = 1
  CursorModulus = 2
  Outcomes = {"success", "unauthorized", "reset", "rate_limited", "network", "unrecorded"}
  Interventions = {"refresh"}
  AdminStatuses = {}
  MaxTime = 1
  MaxStreak = 1
INVARIANTS OneAccountPerRequest AtMostOneRetry
PROPERTIES ReauthIsEarned CallerErrorsDoNotPunish
SYMMETRY RequestSymmetry
CHECK_DEADLOCK FALSE
