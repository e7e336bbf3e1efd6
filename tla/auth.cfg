SPECIFICATION Spec
CONSTANTS
  Requests = {r1, r2}
  SessionIds = {s1, s2}
  NoSession = NoSession
  PasswordWorkLimit = 2
  SessionIdle = 2
  SessionAbsolute = 3
  RenewAfter = 1
  PendingLife = 2
  LockAfter = 2
  LockBase = 1
  LockMax = 2
  MaxTime = 3
  MaxHashes = 2
  MaxSecrets = 1
  MaxFailures = 2
  Addresses = {x, y}
  Minute = 1
  Hour = 3
  PerIPMinute = 1
  PerIPHour = 2
  GlobalMinute = 2
  GlobalHour = 3
  MaxDelay = 2
  MaxNow = 8
INVARIANTS UsableSessionsAreCurrent StepIsSpentOnce AdmittedByHistory
SYMMETRY Symmetry
CHECK_DEADLOCK FALSE
