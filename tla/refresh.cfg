SPECIFICATION FairSpec
CONSTANTS
  NoCaller = NoCaller
  Callers = {p1, p2}
  Interventions = {"cancel", "disable", "reauthorize", "revoke"}
  MaxToken = 3
  MaxVersion = 1
INVARIANTS LeaderIsInFlight OnlyDeadTokensMarked
PROPERTIES TokenNeverGoesBack EveryCallReturns
CHECK_DEADLOCK FALSE
