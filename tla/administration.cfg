SPECIFICATION AdministrationSpec
CONSTANTS
  Proxies = {q1}
  Upstreams = {v1}
  Holders = {h1, h2}
  Routes = {t1}
  NoThing = NoThing
  Editors = {e1, e2}
  MaxEdits = 5
  MaxLogged = 1
  Keys = {k1}
  NoKey = NoKey
  Clients = {c1, c2}
  Throttle = 1
  MaxClock = 4
  MaxRevision = 3
  DefaultLimit = 1
  MaxLimit = 2
  LastTime = 2
  MaxRows = 3
  Processes = {p1, p2}
  NoProcess = NoProcess
  MasterKeys = {old, new}
  NoMasterKey = NoMasterKey
  Builds = {2}
  Columns = {1, 2}
  Outputs = {out}
  NoOutput = NoOutput
  MaxHandlers = 1
INVARIANTS ReferencesAreSound PagesAreComplete OneKeyOpensAll CleanExitStoresAccepted
PROPERTIES NoBlindOverwrite KeyHistoryIsOneWay PublishedBackupsStay
SYMMETRY Symmetry
CHECK_DEADLOCK FALSE
