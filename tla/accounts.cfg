SPECIFICATION AccountsSpec
CONSTANTS
  Operations = {o1, o2}
  Attempts = {a1, a2}
  NoAttempt = NoAttempt
  Paths = {p1, p2}
  NoPath = NoPath
  MaxVersion <- Versions
  MaxEgress = 2
  MaxSession = 2
INVARIANTS BusyRowsAreOwned OneAttemptLives CodeIsExchangedOnce ActiveIsProved
PROPERTIES ConnectedAsConsented CredentialNeverReturns
SYMMETRY Symmetry
CHECK_DEADLOCK FALSE
