--------------------------- MODULE AdminAuthProofs ---------------------------
(***************************************************************************)
(* Proofs about AdminAuth for any number of requests and sessions and any  *)
(* lifetimes: its type, that usable sessions are current, and that a step  *)
(* buys one session; and about AttemptLimiter, beside it as in             *)
(* MCAdminAuth: that its lists decide as the whole history would, as far   *)
(* as the order of the clock's readings allows.                            *)
(***************************************************************************)
EXTENDS AdminAuth, AttemptLimiter, FiniteSetTheorems, TLAPS

(***************************************************************************)
(* A lock lasts a whole number of steps, whatever the failures.            *)
(***************************************************************************)
LEMMA LockDelayType ==
  ASSUME NEW failures \in Nat, failures >= LockAfter
  PROVE  LockDelay(failures) \in Int
<1>1. Earlier(failures - LockAfter, 9) \in Nat
  BY AuthAssumption DEF Earlier
<1>2. 2 ^ Earlier(failures - LockAfter, 9) \in Int
  BY <1>1
<1>3. \A m \in Int : LockBase * m \in Int
  BY AuthAssumption
<1>4. QED
  BY <1>2, <1>3, AuthAssumption DEF LockDelay, Earlier

(***************************************************************************)
(* A session that is issued is a row of the table.                         *)
(***************************************************************************)
LEMMA NewSessionType ==
  ASSUME NEW version \in Nat, NEW at \in Nat, NEW phc \in Nat, NEW secret \in Nat
  PROVE  NewSession(version, at, phc, secret) \in SessionRow
  BY AuthAssumption DEF NewSession, SessionRow

LEMMA RevokedType == Revoked \in SessionRow /\ Revoked.revoked
  BY DEF Revoked, SessionRow, NoSecret

LEMMA IdleType == Idle \in RequestState /\ Idle.state = "idle"
  BY DEF Idle, NothingKept, RequestState, KeptRow, States, NoSecret, NoStep

LEMMA KeptType ==
  ASSUME AuthTypeOK, NEW operation \in {"login", "setup", "confirm", "disable", "change"}
  PROVE  Kept(operation) \in KeptRow
<1>1. NothingKept \in KeptRow
  BY DEF NothingKept, KeptRow, NoSecret, NoStep
<1>2. /\ admin.phc \in Nat /\ admin.secret \in Nat /\ admin.pending \in Nat
      /\ admin.lastStep \in Int /\ admin.version \in Nat
  BY DEF AuthTypeOK, AdminRow
<1>3. CASE operation = "login"
  BY <1>1, <1>2, <1>3 DEF Kept, KeptRow
<1>4. CASE operation = "setup"
  BY <1>1, <1>4 DEF Kept
<1>5. CASE operation = "confirm"
  BY <1>1, <1>2, <1>5 DEF Kept, KeptRow
<1>6. CASE operation = "disable"
  BY <1>1, <1>2, <1>6 DEF Kept, KeptRow
<1>7. CASE operation = "change"
  BY <1>1, <1>2, <1>7 DEF Kept, KeptRow
<1>8. QED
  BY <1>3, <1>4, <1>5, <1>6, <1>7

LEMMA InitType == AuthInit => AuthTypeOK
<1>1. FirstRow \in AdminRow
  BY DEF AdminRow, FirstRow, NoSecret, NoStep, NoLock
<1> SUFFICES ASSUME AuthInit PROVE AuthTypeOK
  OBVIOUS
<1>2. sessions \in [SessionIds -> SessionRow] /\ request \in [Requests -> RequestState]
  BY RevokedType, IdleType DEF AuthInit
<1>3. respent \in BOOLEAN
  BY DEF AuthInit
<1>4. QED
  BY <1>1, <1>2, <1>3 DEF AuthInit, AuthTypeOK

(***************************************************************************)
(* One step per action.  A request's state stays a record because every    *)
(* update of one either forgets it or replaces parts of the right type.    *)
(***************************************************************************)
LEMMA DoneType ==
  ASSUME AuthTypeOK, NEW r \in Requests, Done(r)
  PROVE  request' \in [Requests -> RequestState]
  BY IdleType DEF AuthTypeOK, Done

LEMMA ReadsType ==
  ASSUME AuthTypeOK, NEW r \in Requests,
         NEW operation \in {"login", "setup", "confirm", "disable", "change"},
         Reads(r, operation)
  PROVE  request' \in [Requests -> RequestState]
<1>1. Kept(operation) \in KeptRow
  BY KeptType
<1>2. request' = [request EXCEPT ![r] = [@ EXCEPT !.state = operation, !.now = time,
                                           !.row = Kept(operation)]]
  BY DEF Reads, AuthTypeOK, RequestState
<1>3. [request[r] EXCEPT !.state = operation, !.now = time, !.row = Kept(operation)]
        \in RequestState
  BY <1>1 DEF AuthTypeOK, RequestState, States
<1>4. QED
  BY <1>2, <1>3 DEF AuthTypeOK

LEMMA LoginType ==
  ASSUME AuthTypeOK, NEW r \in Requests, LoginHandler(r)
  PROVE  AuthTypeOK'
<1>1. CASE BeginLogin(r)
  <2>1. request' \in [Requests -> RequestState]
    BY <1>1, ReadsType DEF BeginLogin
  <2>2. QED
    BY <1>1, <2>1 DEF BeginLogin, AuthTypeOK, history
<1>2. CASE LoginFails(r)
  <2> DEFINE failures == admin.failed + 1
  <2>1. failures \in Nat /\ request[r].now \in Nat
    BY DEF AuthTypeOK, AdminRow, RequestState
  <2>2. failures >= LockAfter => request[r].now + LockDelay(failures) \in Int
    <3>1. failures >= LockAfter => LockDelay(failures) \in Int
      BY <2>1, LockDelayType
    <3>2. \A m \in Int : request[r].now + m \in Int
      BY <2>1
    <3>3. QED
      BY <3>1, <3>2
  <2> DEFINE until == IF failures >= LockAfter
                      THEN request[r].now + LockDelay(failures) ELSE NoLock
  <2>3. until \in Int
    BY <2>2 DEF NoLock
  <2>4. admin' \in AdminRow
    <3>1. admin' = [admin EXCEPT !.failed = failures, !.lockedUntil = until]
      BY <1>2 DEF LoginFails
    <3> HIDE DEF failures, until
    <3>2. QED
      BY <2>1, <2>3, <3>1 DEF AuthTypeOK, AdminRow
  <2>5. request' \in [Requests -> RequestState]
    BY <1>2, DoneType DEF LoginFails
  <2>6. QED
    BY <1>2, <2>4, <2>5 DEF LoginFails, AuthTypeOK, history
<1>3. ASSUME NEW s \in SessionIds, NEW step \in LoginSteps(r), LoginSucceeds(r, s, step)
      PROVE  AuthTypeOK'
  <2> DEFINE read == request[r].row
  <2>1. /\ read.phc \in Nat /\ read.secret \in Nat /\ read.version \in Nat
        /\ request[r].now \in Nat
    BY DEF AuthTypeOK, RequestState, KeptRow
  <2>2. step \in Int
    BY <1>3, <2>1 DEF LoginSteps, StepsAround, NoStep
  <2>3. admin' \in AdminRow
    <3>1. \A failed \in Nat, until, last \in Int :
            [admin EXCEPT !.failed = failed, !.lockedUntil = until, !.lastStep = last] \in AdminRow
      BY DEF AuthTypeOK, AdminRow
    <3>2. admin.lastStep \in Int /\ NoLock \in Int
      BY DEF AuthTypeOK, AdminRow, NoLock
    <3>3. QED
      BY <1>3, <2>2, <3>1, <3>2 DEF LoginSucceeds
  <2>4. NewSession(read.version, request[r].now, read.phc, read.secret) \in SessionRow
    BY <2>1, NewSessionType
  <2>5. sessions' \in [SessionIds -> SessionRow]
    BY <1>3, <2>4 DEF LoginSucceeds, AuthTypeOK, SessionVersionOfLogin
  <2>6. request' \in [Requests -> RequestState]
    BY <1>3, DoneType DEF LoginSucceeds
  <2>7. spent' \subseteq Nat \X Int
    BY <1>3, <2>1, <2>2 DEF LoginSucceeds, Spends, AuthTypeOK, history
  <2>8. respent' \in BOOLEAN
    BY <1>3, Zenon DEF LoginSucceeds, Spends, AuthTypeOK, history
  <2>9. QED
    BY <1>3, <2>3, <2>5, <2>6, <2>7, <2>8 DEF LoginSucceeds, AuthTypeOK
<1>4. QED
  BY <1>1, <1>2, <1>3 DEF LoginHandler

LEMMA SessionType ==
  ASSUME AuthTypeOK, NEW r \in Requests, requireSession(r)
  PROVE  AuthTypeOK'
<1>1. ASSUME NEW s \in SessionIds, Authenticate(r, s) PROVE AuthTypeOK'
  <2> DEFINE state == IF ~Alive(s, time) THEN "expire"
                      ELSE IF RenewalDue(s) THEN "renew" ELSE "authorised"
             at == IF Alive(s, time) /\ RenewalDue(s) THEN time ELSE 0
  <2>1. state \in States /\ at \in Nat
    BY DEF States, AuthTypeOK
  <2>2. request' = [request EXCEPT ![r] = [@ EXCEPT !.session = s, !.state = state, !.now = at]]
    BY <1>1 DEF Authenticate, AuthTypeOK, RequestState
  <2> HIDE DEF state, at
  <2>3. [request[r] EXCEPT !.session = s, !.state = state, !.now = at] \in RequestState
    BY <2>1 DEF AuthTypeOK, RequestState
  <2>4. request' \in [Requests -> RequestState]
    BY <2>2, <2>3 DEF AuthTypeOK
  <2>5. QED
    BY <1>1, <2>4 DEF Authenticate, AuthTypeOK, history
<1>2. CASE RenewSession(r)
  <2> DEFINE s == request[r].session
             at == request[r].now
  <2>1. \A seen, idle \in Nat :
          [sessions[s] EXCEPT !.lastSeen = seen, !.idle = idle] \in SessionRow \/ s \notin SessionIds
    BY DEF AuthTypeOK, SessionRow
  <2>2. s \in SessionIds => at \in Nat /\ Earlier(at + SessionIdle, sessions[s].absolute) \in Nat
    BY AuthAssumption DEF AuthTypeOK, RequestState, SessionRow, Earlier
  <2>3. sessions' = sessions \/ sessions' = [sessions EXCEPT ![s] = [@ EXCEPT !.lastSeen = at,
                                   !.idle = Earlier(at + SessionIdle, sessions[s].absolute)]]
    BY <1>2 DEF RenewSession, AuthTypeOK
  <2>4. sessions' \in [SessionIds -> SessionRow]
    <3> HIDE DEF s, at
    <3>1. QED
      BY <2>1, <2>2, <2>3 DEF AuthTypeOK
  <2>5. request' \in [Requests -> RequestState]
    BY <1>2 DEF RenewSession, AuthTypeOK, RequestState, States
  <2>6. QED
    BY <1>2, <2>4, <2>5 DEF RenewSession, AuthTypeOK, history
<1>3. CASE ExpireSession(r)
  BY <1>3, DoneType, RevokedType DEF ExpireSession, AuthTypeOK, history
<1>4. QED
  BY <1>1, <1>2, <1>3 DEF requireSession

(***************************************************************************)
(* A rotation installs a row of the type and sessions issued under it.     *)
(***************************************************************************)
LEMMA RotateType ==
  ASSUME AuthTypeOK, NEW r \in Requests, NEW s \in SessionIds,
         NEW row \in AdminRow, Rotate(r, s, row)
  PROVE  /\ sessions' \in [SessionIds -> SessionRow] /\ request' \in [Requests -> RequestState]
         /\ admin' \in AdminRow /\ time' \in Nat /\ minted' \in Nat
<1>1. NewSession(row.version, time, row.phc, row.secret) \in SessionRow
  BY NewSessionType DEF AuthTypeOK, AdminRow
<1>2. sessions' \in [SessionIds -> SessionRow]
  BY <1>1, RevokedType DEF Rotate
<1>3. request' \in [Requests -> RequestState]
  BY DoneType DEF Rotate
<1>4. QED
  BY <1>2, <1>3 DEF Rotate, AuthTypeOK

(***************************************************************************)
(* Each of the three changes of security rotates to a row of the next      *)
(* version.                                                                *)
(***************************************************************************)
ChangesSecurity(r, s) ==
  \/ \E step \in StepsAround(request[r].now) : ConfirmTOTP(r, s, step)
  \/ DisableTOTP(r, s)
  \/ ChangePassword(r, s)

Rotation(r, s, row) == Rotate(r, s, row) /\ row.version = admin.version + 1

LEMMA Rotations ==
  ASSUME AuthTypeOK, NEW r \in Requests, NEW s \in SessionIds, ChangesSecurity(r, s)
  PROVE  \E row \in AdminRow : Rotation(r, s, row)
<1>1. /\ NextVersion \in Nat /\ NoSecret \in Nat /\ NoStep \in Int
      /\ request[r].now \in Nat /\ request[r].row.pending \in Nat
  BY DEF AuthTypeOK, AdminRow, NextVersion, NoSecret, NoStep, RequestState, KeptRow
<1>2. \A secret, pending, until, version \in Nat, last \in Int :
        [admin EXCEPT !.secret = secret, !.pending = pending, !.pendingUntil = until,
                      !.lastStep = last, !.version = version] \in AdminRow
  BY DEF AuthTypeOK, AdminRow
<1>3. ASSUME NEW step \in StepsAround(request[r].now), ConfirmTOTP(r, s, step)
      PROVE  \E row \in AdminRow : Rotation(r, s, row)
  <2> DEFINE row == [admin EXCEPT !.secret = request[r].row.pending, !.pending = NoSecret,
                       !.pendingUntil = 0, !.lastStep = step, !.version = NextVersion]
  <2>1. step \in Int
    BY <1>1 DEF StepsAround
  <2>2. row \in AdminRow /\ row.version = NextVersion
    <3>1. row \in AdminRow
      BY <1>1, <1>2, <2>1
    <3>2. row.version = NextVersion
      BY DEF AuthTypeOK, AdminRow
    <3>3. QED
      BY <3>1, <3>2
  <2>3. Rotate(r, s, row)
    BY <1>3 DEF ConfirmTOTP
  <2> HIDE DEF row
  <2>4. QED
    BY <2>2, <2>3 DEF Rotation, NextVersion
<1>4. CASE DisableTOTP(r, s)
  <2> DEFINE row == [admin EXCEPT !.secret = NoSecret, !.pending = NoSecret,
                       !.pendingUntil = 0, !.lastStep = NoStep, !.version = NextVersion]
  <2>1. row \in AdminRow /\ row.version = NextVersion
    <3>1. row \in AdminRow
      BY <1>1, <1>2
    <3>2. row.version = NextVersion
      BY DEF AuthTypeOK, AdminRow
    <3>3. QED
      BY <3>1, <3>2
  <2>2. Rotate(r, s, row)
    BY <1>4 DEF DisableTOTP
  <2> HIDE DEF row
  <2>3. QED
    BY <2>1, <2>2 DEF Rotation, NextVersion
<1>5. CASE ChangePassword(r, s)
  <2> DEFINE row == [admin EXCEPT !.phc = @ + 1, !.version = NextVersion]
  <2>1. \A phc, version \in Nat :
          /\ [admin EXCEPT !.phc = phc, !.version = version] \in AdminRow
          /\ [admin EXCEPT !.phc = phc, !.version = version].version = version
    BY DEF AuthTypeOK, AdminRow
  <2>2. admin.phc + 1 \in Nat
    BY DEF AuthTypeOK, AdminRow
  <2>3. row \in AdminRow /\ row.version = NextVersion
    BY <1>1, <2>1, <2>2
  <2>4. Rotate(r, s, row)
    BY <1>5 DEF ChangePassword
  <2> HIDE DEF row
  <2>5. QED
    BY <2>3, <2>4 DEF Rotation, NextVersion
<1>6. QED
  BY <1>3, <1>4, <1>5 DEF ChangesSecurity

\* The history of the codes that were spent.
LEMMA HistoryType ==
  ASSUME AuthTypeOK, NEW r \in Requests, NEW s \in SessionIds, ChangesSecurity(r, s)
  PROVE  spent' \subseteq Nat \X Int /\ respent' \in BOOLEAN
<1>1. request[r].now \in Nat /\ request[r].row.pending \in Nat
  BY DEF AuthTypeOK, RequestState, KeptRow
<1>2. ASSUME NEW step \in StepsAround(request[r].now), ConfirmTOTP(r, s, step)
      PROVE  spent' \subseteq Nat \X Int /\ respent' \in BOOLEAN
  <2>1. step \in Int
    BY <1>1 DEF StepsAround
  <2>2. spent' \subseteq Nat \X Int
    BY <1>1, <1>2, <2>1 DEF ConfirmTOTP, Spends, AuthTypeOK
  <2>3. respent' \in BOOLEAN
    BY <1>2, Zenon DEF ConfirmTOTP, Spends, AuthTypeOK
  <2>4. QED
    BY <2>2, <2>3
<1>3. CASE DisableTOTP(r, s) \/ ChangePassword(r, s)
  BY <1>3 DEF DisableTOTP, ChangePassword, AuthTypeOK, history
<1>4. QED
  BY <1>2, <1>3 DEF ChangesSecurity

LEMMA SecurityType ==
  ASSUME AuthTypeOK, NEW r \in Requests, SecurityHandlers(r)
  PROVE  AuthTypeOK'
<1>1. CASE Logout(r)
  BY <1>1, DoneType, RevokedType DEF Logout, AuthTypeOK, history
<1>2. ASSUME NEW operation \in {"setup", "confirm", "disable", "change"}, ReadAdmin(r, operation)
      PROVE  AuthTypeOK'
  BY <1>2, ReadsType DEF ReadAdmin, AuthTypeOK, history
<1>3. CASE SetupTOTP(r)
  <2>1. \A pending, until \in Nat :
          [admin EXCEPT !.pending = pending, !.pendingUntil = until] \in AdminRow
    BY DEF AuthTypeOK, AdminRow
  <2>2. minted + 1 \in Nat /\ time + PendingLife \in Nat
    BY AuthAssumption DEF AuthTypeOK
  <2>3. QED
    BY <1>3, <2>1, <2>2, DoneType DEF SetupTOTP, AuthTypeOK, history
<1>4. ASSUME NEW s \in SessionIds, ChangesSecurity(r, s) PROVE AuthTypeOK'
  BY <1>4, Rotations, RotateType, HistoryType DEF Rotation, AuthTypeOK
<1>5. CASE Refused(r)
  BY <1>5, DoneType DEF Refused, AuthTypeOK, history
<1>6. QED
  BY <1>1, <1>2, <1>3, <1>4, <1>5 DEF SecurityHandlers, ChangesSecurity

LEMMA ResetType ==
  ASSUME AuthTypeOK, NEW disableTOTP \in BOOLEAN, ResetPassword(disableTOTP)
  PROVE  AuthTypeOK'
<1> DEFINE secret == IF disableTOTP THEN NoSecret ELSE admin.secret
           pending == IF disableTOTP THEN NoSecret ELSE admin.pending
           until == IF disableTOTP THEN 0 ELSE admin.pendingUntil
           last == IF disableTOTP THEN NoStep ELSE admin.lastStep
<1>1. /\ admin.phc + 1 \in Nat /\ admin.version + 1 \in Nat /\ NoLock \in Int
      /\ secret \in Nat /\ pending \in Nat /\ until \in Nat /\ last \in Int
  BY DEF AuthTypeOK, AdminRow, NoLock, NoSecret, NoStep
<1>2. admin' = [admin EXCEPT !.phc = @ + 1, !.version = @ + 1, !.failed = 0,
                  !.lockedUntil = NoLock, !.secret = secret, !.pending = pending,
                  !.pendingUntil = until, !.lastStep = last]
  BY DEF ResetPassword
<1> HIDE DEF secret, pending, until, last
<1>3. admin' \in AdminRow
  BY <1>1, <1>2 DEF AuthTypeOK, AdminRow
<1>4. QED
  BY <1>3, RevokedType DEF ResetPassword, AuthTypeOK, history

LEMMA NextType == AuthTypeOK /\ [AuthNext]_vars => AuthTypeOK'
<1> SUFFICES ASSUME AuthTypeOK, [AuthNext]_vars PROVE AuthTypeOK'
  OBVIOUS
<1>1. ASSUME NEW r \in Requests, LoginHandler(r) \/ requireSession(r) \/ SecurityHandlers(r)
      PROVE  AuthTypeOK'
  BY <1>1, LoginType, SessionType, SecurityType
<1>2. CASE Restart
  BY <1>2, IdleType DEF Restart, AuthTypeOK, history
<1>3. ASSUME NEW disableTOTP \in BOOLEAN, ResetPassword(disableTOTP) PROVE AuthTypeOK'
  BY <1>3, ResetType
<1>4. CASE Tick
  BY <1>4 DEF Tick, AuthTypeOK, history
<1>5. CASE UNCHANGED vars
  BY <1>5 DEF vars, AuthTypeOK
<1>6. QED
  BY <1>1, <1>2, <1>3, <1>4, <1>5 DEF AuthNext

(***************************************************************************)
(* The rows and the requests keep their types.                             *)
(***************************************************************************)
THEOREM TypeCorrect == AuthSpec => []AuthTypeOK
  BY InitType, NextType, PTL DEF AuthSpec

(***************************************************************************)
(* A version vouches for what was read with it: no session and no login in *)
(* flight has a later version than the row, and one with the same version  *)
(* has the same hash and the same secret.                                  *)
(***************************************************************************)
Vouched(version, phc, secret) ==
  /\ version <= admin.version
  /\ version = admin.version => phc = admin.phc /\ secret = admin.secret

VersionsVouch ==
  /\ \A s \in SessionIds : ~sessions[s].revoked =>
       Vouched(sessions[s].version, sessions[s].phc, sessions[s].secret)
  /\ \A r \in Requests : request[r].state = "login" =>
       Vouched(request[r].row.version, request[r].row.phc, request[r].row.secret)

AuthInv == AuthTypeOK /\ VersionsVouch

LEMMA NewSessionFields ==
  ASSUME NEW version, NEW at, NEW phc, NEW secret
  PROVE  /\ NewSession(version, at, phc, secret).version = version
         /\ NewSession(version, at, phc, secret).phc = phc
         /\ NewSession(version, at, phc, secret).secret = secret
  BY DEF NewSession

(***************************************************************************)
(* What leaves version, hash and secret alone, starts no login and issues  *)
(* no session, keeps VersionsVouch.                                        *)
(***************************************************************************)
LEMMA QuietStep ==
  ASSUME AuthInv,
         admin'.version = admin.version /\ admin'.phc = admin.phc /\ admin'.secret = admin.secret,
         \A s \in SessionIds : ~sessions'[s].revoked =>
           /\ ~sessions[s].revoked
           /\ sessions'[s].version = sessions[s].version
           /\ sessions'[s].phc = sessions[s].phc
           /\ sessions'[s].secret = sessions[s].secret,
         \A r \in Requests : request'[r].state = "login" => request'[r] = request[r]
  PROVE  VersionsVouch'
  BY DEF AuthInv, VersionsVouch, Vouched

(***************************************************************************)
(* A rotation moves the version past every login in flight.                *)
(***************************************************************************)
LEMMA RotationVouches ==
  ASSUME AuthInv, NEW r \in Requests, NEW s \in SessionIds,
         NEW row \in AdminRow, Rotation(r, s, row)
  PROVE  VersionsVouch'
<1> USE DEF Rotation
<1>1. admin' = row /\ row.version = admin.version + 1 /\ admin.version \in Nat
  BY DEF Rotate, AuthInv, AuthTypeOK, AdminRow
<1>2. \A t \in SessionIds : ~sessions'[t].revoked =>
        /\ sessions'[t].version = row.version
        /\ sessions'[t].phc = row.phc
        /\ sessions'[t].secret = row.secret
  BY NewSessionFields, RevokedType DEF Rotate
<1>3. \A q \in Requests : request'[q].state = "login" =>
        request'[q] = request[q] /\ request[q].row.version \in Nat
  BY IdleType DEF Rotate, Done, AuthInv, AuthTypeOK, RequestState, KeptRow
<1>4. row.version \in Nat
  BY DEF AdminRow
<1>5. QED
  BY <1>1, <1>2, <1>3, <1>4 DEF AuthInv, VersionsVouch, Vouched

LEMMA LoginVouches ==
  ASSUME AuthInv, NEW r \in Requests, LoginHandler(r)
  PROVE  VersionsVouch'
<1> USE DEF AuthInv, AuthTypeOK, AdminRow
<1>1. CASE BeginLogin(r)
  <2>1. /\ request'[r].row = Kept("login")
        /\ \A q \in Requests : q # r => request'[q] = request[q]
    BY <1>1 DEF BeginLogin, Reads, RequestState
  <2>2. /\ Kept("login").version = admin.version
        /\ Kept("login").phc = admin.phc
        /\ Kept("login").secret = admin.secret
    BY DEF Kept, NothingKept
  <2>3. UNCHANGED <<admin, sessions>>
    BY <1>1 DEF BeginLogin
  <2>4. QED
    BY <2>1, <2>2, <2>3 DEF VersionsVouch, Vouched
<1>2. CASE LoginFails(r)
  <2>1. \A q \in Requests : request'[q].state = "login" => request'[q] = request[q]
    BY <1>2, IdleType DEF LoginFails, Done
  <2>2. admin'.version = admin.version /\ admin'.phc = admin.phc /\ admin'.secret = admin.secret
    BY <1>2 DEF LoginFails
  <2>3. QED
    BY <1>2, <2>1, <2>2, QuietStep DEF LoginFails
<1>3. ASSUME NEW s \in SessionIds, NEW step \in LoginSteps(r), LoginSucceeds(r, s, step)
      PROVE  VersionsVouch'
  <2> DEFINE read == request[r].row
  <2>1. Vouched(read.version, read.phc, read.secret)
    BY <1>3 DEF LoginSucceeds, InState, VersionsVouch
  <2>2. admin'.version = admin.version /\ admin'.phc = admin.phc /\ admin'.secret = admin.secret
    BY <1>3 DEF LoginSucceeds
  <2>3. /\ sessions'[s].version = read.version
        /\ sessions'[s].phc = read.phc
        /\ sessions'[s].secret = read.secret
    BY <1>3, NewSessionFields DEF LoginSucceeds, SessionVersionOfLogin
  <2>4. \A t \in SessionIds : t # s => sessions'[t] = sessions[t]
    BY <1>3 DEF LoginSucceeds
  <2>5. \A q \in Requests : request'[q].state = "login" => request'[q] = request[q]
    BY <1>3, IdleType DEF LoginSucceeds, Done
  <2>6. QED
    BY <2>1, <2>2, <2>3, <2>4, <2>5 DEF VersionsVouch, Vouched
<1>4. QED
  BY <1>1, <1>2, <1>3 DEF LoginHandler

LEMMA SessionVouches ==
  ASSUME AuthInv, NEW r \in Requests, requireSession(r)
  PROVE  VersionsVouch'
<1>1. admin' = admin
  BY DEF requireSession, Authenticate, RenewSession, ExpireSession
<1>2. \A q \in Requests : request'[q].state = "login" => request'[q] = request[q]
  <2>1. ASSUME NEW s \in SessionIds, Authenticate(r, s)
        PROVE  request'[r].state # "login" /\ \A q \in Requests : q # r => request'[q] = request[q]
    BY <2>1 DEF Authenticate, AuthInv, AuthTypeOK, RequestState
  <2>2. CASE RenewSession(r)
    BY <2>2 DEF RenewSession, AuthInv, AuthTypeOK, RequestState
  <2>3. CASE ExpireSession(r)
    BY <2>3, IdleType DEF ExpireSession, Done, AuthInv, AuthTypeOK
  <2>4. QED
    BY <2>1, <2>2, <2>3 DEF requireSession
<1>3. \A t \in SessionIds : ~sessions'[t].revoked =>
        /\ ~sessions[t].revoked
        /\ sessions'[t].version = sessions[t].version
        /\ sessions'[t].phc = sessions[t].phc
        /\ sessions'[t].secret = sessions[t].secret
  <2>1. CASE RenewSession(r)
    BY <2>1 DEF RenewSession, AuthInv, AuthTypeOK, SessionRow
  <2>2. CASE ExpireSession(r)
    BY <2>2, RevokedType DEF ExpireSession, AuthInv, AuthTypeOK
  <2>3. CASE sessions' = sessions
    BY <2>3
  <2>4. QED
    BY <2>1, <2>2, <2>3 DEF requireSession, Authenticate
<1>4. QED
  BY <1>1, <1>2, <1>3, QuietStep

LEMMA SecurityVouches ==
  ASSUME AuthInv, NEW r \in Requests, SecurityHandlers(r)
  PROVE  VersionsVouch'
<1> USE DEF AuthInv, AuthTypeOK
<1>1. CASE Logout(r)
  <2>1. \A q \in Requests : request'[q].state = "login" => request'[q] = request[q]
    BY <1>1, IdleType DEF Logout, Done
  <2>2. \A t \in SessionIds : sessions'[t] = sessions[t] \/ sessions'[t].revoked
    BY <1>1, RevokedType DEF Logout
  <2>3. admin' = admin
    BY <1>1 DEF Logout, history
  <2>4. QED
    BY <2>1, <2>2, <2>3, QuietStep
<1>2. ASSUME NEW operation \in {"setup", "confirm", "disable", "change"}, ReadAdmin(r, operation)
      PROVE  VersionsVouch'
  <2>1. \A q \in Requests : request'[q].state = "login" => request'[q] = request[q]
    BY <1>2 DEF ReadAdmin, Reads, RequestState
  <2>2. QED
    BY <1>2, <2>1, QuietStep DEF ReadAdmin
<1>3. CASE SetupTOTP(r)
  <2>1. \A q \in Requests : request'[q].state = "login" => request'[q] = request[q]
    BY <1>3, IdleType DEF SetupTOTP, Done
  <2>2. admin'.version = admin.version /\ admin'.phc = admin.phc /\ admin'.secret = admin.secret
    BY <1>3 DEF SetupTOTP, AdminRow
  <2>3. QED
    BY <1>3, <2>1, <2>2, QuietStep DEF SetupTOTP
<1>4. CASE Refused(r)
  <2>1. \A q \in Requests : request'[q].state = "login" => request'[q] = request[q]
    BY <1>4, IdleType DEF Refused, Done
  <2>2. QED
    BY <1>4, <2>1, QuietStep DEF Refused
<1>5. ASSUME NEW s \in SessionIds, ChangesSecurity(r, s) PROVE VersionsVouch'
  BY <1>5, Rotations, RotationVouches
<1>6. QED
  BY <1>1, <1>2, <1>3, <1>4, <1>5 DEF SecurityHandlers, ChangesSecurity

LEMMA NextVouches == AuthInv /\ [AuthNext]_vars => VersionsVouch'
<1> SUFFICES ASSUME AuthInv, [AuthNext]_vars PROVE VersionsVouch'
  OBVIOUS
<1>1. ASSUME NEW r \in Requests, LoginHandler(r) \/ requireSession(r) \/ SecurityHandlers(r)
      PROVE  VersionsVouch'
  BY <1>1, LoginVouches, SessionVouches, SecurityVouches
<1>2. CASE Restart
  BY <1>2, IdleType, QuietStep DEF Restart
<1>3. ASSUME NEW disableTOTP \in BOOLEAN, ResetPassword(disableTOTP) PROVE VersionsVouch'
  <2>1. \A s \in SessionIds : sessions'[s].revoked
    BY <1>3, RevokedType DEF ResetPassword
  <2>2. \A r \in Requests : request'[r].state # "login"
    BY <1>3 DEF ResetPassword, InState
  <2>3. QED
    BY <2>1, <2>2 DEF VersionsVouch
<1>4. CASE Tick
  BY <1>4, QuietStep DEF Tick
<1>5. CASE UNCHANGED vars
  BY <1>5, QuietStep DEF vars
<1>6. QED
  BY <1>1, <1>2, <1>3, <1>4, <1>5 DEF AuthNext

LEMMA InitVouches == AuthInit => VersionsVouch
  BY RevokedType, IdleType DEF AuthInit, VersionsVouch

(***************************************************************************)
(* A session that Authenticate accepts was issued under the hash and the   *)
(* secret in force, whatever logins, changes and resets interleave: its    *)
(* version is the current one, and a version vouches for both.             *)
(***************************************************************************)
THEOREM SessionsCurrent == AuthSpec => []UsableSessionsAreCurrent
<1>1. AuthInit => AuthInv
  BY InitType, InitVouches DEF AuthInv
<1>2. AuthInv /\ [AuthNext]_vars => AuthInv'
  BY NextType, NextVouches DEF AuthInv
<1>3. AuthInv => UsableSessionsAreCurrent
  BY DEF AuthInv, VersionsVouch, Vouched, UsableSessionsAreCurrent, Usable
<1>4. QED
  BY <1>1, <1>2, <1>3, PTL DEF AuthSpec

(***************************************************************************)
(* Of the secret in force the row's last step is not before any step that  *)
(* was spent, so the UPDATE, which asks for a later one, never takes a     *)
(* step twice; and no step of a secret that awaits confirmation was spent. *)
(***************************************************************************)
StepsAreBehind ==
  \A p \in spent :
    /\ p[1] # NoSecret /\ p[1] <= minted /\ p[1] # admin.pending
    /\ p[1] = admin.secret => p[2] <= admin.lastStep

SecretsAreMinted ==
  /\ admin.secret <= minted /\ admin.pending <= minted
  /\ admin.pending # NoSecret => admin.pending # admin.secret

ConfirmationsPend ==
  \A r \in Requests : request[r].state = "confirm" => request[r].row.pending # NoSecret

SpentIsBehind == ~respent /\ StepsAreBehind /\ SecretsAreMinted /\ ConfirmationsPend

StepInv == AuthInv /\ SpentIsBehind

\* What the proofs below use of the types.
LEMMA StepTypes ==
  ASSUME StepInv
  PROVE  /\ admin.secret \in Nat /\ admin.pending \in Nat /\ admin.lastStep \in Int
         /\ minted \in Nat /\ NoSecret \in Nat /\ NoStep \in Int
         /\ \A p \in spent : p[1] \in Nat /\ p[2] \in Int /\ p = <<p[1], p[2]>>
         /\ \A r \in Requests : request[r].now \in Nat /\ request[r].row.pending \in Nat
  BY DEF StepInv, AuthInv, AuthTypeOK, AdminRow, RequestState, KeptRow, NoSecret, NoStep

LEMMA UnspentStep ==
  ASSUME StepInv, UNCHANGED history, UNCHANGED minted, ConfirmationsPend',
         /\ admin'.lastStep = admin.lastStep
         /\ admin'.secret = admin.secret
         /\ admin'.pending = admin.pending
  PROVE  SpentIsBehind'
  BY DEF StepInv, SpentIsBehind, StepsAreBehind, SecretsAreMinted, history

\* A request that ends awaits nothing, and one that begins to confirm found
\* a secret that does.
LEMMA DonePends ==
  ASSUME StepInv, NEW r \in Requests, Done(r)
  PROVE  ConfirmationsPend'
  BY IdleType DEF Done, StepInv, SpentIsBehind, ConfirmationsPend, AuthInv, AuthTypeOK

LEMMA ReadsPends ==
  ASSUME StepInv, NEW r \in Requests, NEW operation, Reads(r, operation),
         operation = "confirm" => admin.pending # NoSecret
  PROVE  ConfirmationsPend'
<1>1. Kept("confirm").pending = admin.pending
  BY DEF Kept, NothingKept
<1>2. request'[r].state = operation /\ request'[r].row = Kept(operation)
  BY DEF Reads, StepInv, AuthInv, AuthTypeOK, RequestState
<1>3. \A q \in Requests : q # r => request'[q] = request[q]
  BY DEF Reads, StepInv, AuthInv, AuthTypeOK
<1>4. QED
  BY <1>1, <1>2, <1>3 DEF StepInv, SpentIsBehind, ConfirmationsPend

LEMMA LoginSpends ==
  ASSUME StepInv, NEW r \in Requests, NEW s \in SessionIds, NEW step \in LoginSteps(r),
         LoginSucceeds(r, s, step)
  PROVE  SpentIsBehind'
<1> DEFINE read == request[r].row
<1>1. ConfirmationsPend'
  BY DonePends DEF LoginSucceeds
<1>2. admin'.secret = admin.secret /\ admin'.pending = admin.pending /\ minted' = minted
  BY DEF LoginSucceeds, StepInv, AuthInv, AuthTypeOK, AdminRow
<1>3. CASE read.secret = NoSecret
  <2>1. UNCHANGED history
    BY <1>3 DEF LoginSucceeds
  <2>2. admin'.lastStep = admin.lastStep
    BY <1>3 DEF LoginSucceeds, StepInv, AuthInv, AuthTypeOK, AdminRow
  <2>3. QED
    BY <1>1, <1>2, <2>1, <2>2, UnspentStep
<1>4. CASE read.secret # NoSecret
  <2>1. step \in Int /\ admin.lastStep < step
    BY <1>4, StepTypes DEF LoginSucceeds, StepIsNew, LoginSteps, StepsAround
  <2>2. admin'.lastStep = step
    BY <1>4 DEF LoginSucceeds, StepInv, AuthInv, AuthTypeOK, AdminRow
  <2>3. SecretsAreMinted'
    BY <1>2 DEF StepInv, SpentIsBehind, SecretsAreMinted
  <2>4. CASE read.version = admin.version
    <3>1. read.secret = admin.secret
      BY <2>4 DEF LoginSucceeds, InState, StepInv, AuthInv, VersionsVouch, Vouched
    <3>2. Spends(admin.secret, step)
      BY <1>4, <2>4, <3>1 DEF LoginSucceeds
    <3>3. <<admin.secret, step>> \notin spent
      <4>1. ASSUME <<admin.secret, step>> \in spent PROVE FALSE
        <5>1. <<admin.secret, step>>[2] <= admin.lastStep
          BY <4>1 DEF StepInv, SpentIsBehind, StepsAreBehind
        <5>2. QED
          BY <2>1, <5>1, StepTypes
      <4>2. QED
        BY <4>1
    <3>4. ~respent'
      BY <3>2, <3>3, Zenon DEF Spends, StepInv, SpentIsBehind
    <3>5. StepsAreBehind'
      <4>1. ASSUME NEW p \in spent
            PROVE  /\ p[1] # NoSecret /\ p[1] <= minted /\ p[1] # admin.pending
                   /\ p[1] = admin.secret => p[2] <= step
        BY <2>1, StepTypes DEF StepInv, SpentIsBehind, StepsAreBehind
      <4>2. /\ admin.secret # NoSecret /\ admin.secret <= minted
            /\ admin.secret # admin.pending
        BY <1>4, <3>1 DEF StepInv, SpentIsBehind, SecretsAreMinted
      <4>3. /\ <<admin.secret, step>>[1] = admin.secret
            /\ <<admin.secret, step>>[2] <= step
        BY <2>1
      <4>4. spent' = spent \cup {<<admin.secret, step>>}
        BY <3>2 DEF Spends
      <4>5. QED
        BY <1>2, <2>2, <4>1, <4>2, <4>3, <4>4 DEF StepsAreBehind
    <3>6. QED
      BY <1>1, <2>3, <3>4, <3>5 DEF SpentIsBehind
  <2>5. CASE read.version # admin.version
    <3>1. UNCHANGED history
      BY <2>5 DEF LoginSucceeds
    <3>2. StepsAreBehind'
      BY <1>2, <2>1, <2>2, <3>1, StepTypes DEF StepInv, SpentIsBehind, StepsAreBehind, history
    <3>3. QED
      BY <1>1, <2>3, <3>1, <3>2 DEF StepInv, SpentIsBehind, history
  <2>6. QED
    BY <2>4, <2>5
<1>5. QED
  BY <1>3, <1>4

\* The confirmation is the first use of its secret.
LEMMA ConfirmSpends ==
  ASSUME StepInv, NEW r \in Requests, NEW s \in SessionIds,
         NEW step \in StepsAround(request[r].now), ConfirmTOTP(r, s, step)
  PROVE  SpentIsBehind'
<1> DEFINE secret == request[r].row.pending
<1>1. step \in Int
  BY StepTypes DEF StepsAround
<1>2. secret = admin.pending /\ secret # NoSecret /\ minted' = minted
  BY DEF ConfirmTOTP, Rotate, InState, StepInv, SpentIsBehind, ConfirmationsPend
<1>3. admin'.secret = secret /\ admin'.pending = NoSecret /\ admin'.lastStep = step
  BY DEF ConfirmTOTP, Rotate, StepInv, AuthInv, AuthTypeOK, AdminRow
<1>4. ConfirmationsPend'
  BY DonePends DEF ConfirmTOTP, Rotate
<1>5. Spends(secret, step)
  BY DEF ConfirmTOTP
<1> HIDE DEF secret
<1>6. \A p \in spent : p[1] # secret
  BY <1>2 DEF StepInv, SpentIsBehind, StepsAreBehind
<1>7. ~respent'
  <2>1. <<secret, step>> \notin spent
    BY <1>6
  <2>2. QED
    BY <1>5, <2>1, Zenon DEF Spends, StepInv, SpentIsBehind
<1>8. SecretsAreMinted'
  BY <1>2, <1>3, StepTypes DEF StepInv, SpentIsBehind, SecretsAreMinted, NoSecret
<1>9. StepsAreBehind'
  <2>1. ASSUME NEW p \in spent
        PROVE  p[1] # NoSecret /\ p[1] <= minted /\ p[1] # secret
    BY <1>6 DEF StepInv, SpentIsBehind, StepsAreBehind
  <2>2. secret <= minted
    BY <1>2 DEF StepInv, SpentIsBehind, SecretsAreMinted
  <2>3. <<secret, step>>[1] = secret /\ <<secret, step>>[2] <= step
    BY <1>1
  <2>4. spent' = spent \cup {<<secret, step>>}
    BY <1>5 DEF Spends
  <2>5. QED
    BY <1>2, <1>3, <2>1, <2>2, <2>3, <2>4 DEF StepsAreBehind
<1>10. QED
  BY <1>4, <1>7, <1>8, <1>9 DEF SpentIsBehind

\* A secret that is given up takes its steps with it.
LEMMA ForgottenSecret ==
  ASSUME StepInv, UNCHANGED history, UNCHANGED minted, ConfirmationsPend',
         admin'.secret = NoSecret, admin'.pending = NoSecret
  PROVE  SpentIsBehind'
<1>1. SecretsAreMinted'
  BY StepTypes DEF SecretsAreMinted, NoSecret
<1>2. QED
  BY <1>1 DEF StepInv, SpentIsBehind, StepsAreBehind, history

LEMMA SecuritySpends ==
  ASSUME StepInv, NEW r \in Requests, SecurityHandlers(r)
  PROVE  SpentIsBehind'
<1>1. CASE Logout(r) \/ Refused(r)
  BY <1>1, UnspentStep, DonePends DEF Logout, Refused
<1>2. ASSUME NEW operation, ReadAdmin(r, operation) PROVE SpentIsBehind'
  <2>1. operation = "confirm" => admin.pending # NoSecret
    BY <1>2 DEF ReadAdmin, MayStart
  <2>2. ConfirmationsPend'
    BY <1>2, <2>1, ReadsPends DEF ReadAdmin
  <2>3. QED
    BY <1>2, <2>2, UnspentStep DEF ReadAdmin
<1>3. CASE SetupTOTP(r)
  <2>1. ConfirmationsPend'
    BY <1>3, DonePends DEF SetupTOTP
  <2>2. /\ admin'.secret = admin.secret /\ admin'.lastStep = admin.lastStep
        /\ admin'.pending = minted + 1 /\ minted' = minted + 1
    BY <1>3 DEF SetupTOTP, StepInv, AuthInv, AuthTypeOK, AdminRow
  <2>3. UNCHANGED history
    BY <1>3 DEF SetupTOTP
  <2>4. SecretsAreMinted'
    BY <2>2, StepTypes DEF StepInv, SpentIsBehind, SecretsAreMinted
  <2>5. StepsAreBehind'
    BY <2>2, <2>3, StepTypes DEF StepInv, SpentIsBehind, StepsAreBehind, history
  <2>6. QED
    BY <2>1, <2>3, <2>4, <2>5 DEF StepInv, SpentIsBehind, history
<1>4. ASSUME NEW s \in SessionIds, DisableTOTP(r, s) PROVE SpentIsBehind'
  <2>1. admin'.secret = NoSecret /\ admin'.pending = NoSecret /\ minted' = minted
    BY <1>4 DEF DisableTOTP, Rotate, StepInv, AuthInv, AuthTypeOK, AdminRow
  <2>2. ConfirmationsPend'
    BY <1>4, DonePends DEF DisableTOTP, Rotate
  <2>3. QED
    BY <1>4, <2>1, <2>2, ForgottenSecret DEF DisableTOTP
<1>5. ASSUME NEW s \in SessionIds, ChangePassword(r, s) PROVE SpentIsBehind'
  <2>1. /\ admin'.secret = admin.secret /\ admin'.pending = admin.pending
        /\ admin'.lastStep = admin.lastStep /\ minted' = minted
    BY <1>5 DEF ChangePassword, Rotate, StepInv, AuthInv, AuthTypeOK, AdminRow
  <2>2. ConfirmationsPend'
    BY <1>5, DonePends DEF ChangePassword, Rotate
  <2>3. QED
    BY <1>5, <2>1, <2>2, UnspentStep DEF ChangePassword
<1>6. QED
  BY <1>1, <1>2, <1>3, <1>4, <1>5, ConfirmSpends DEF SecurityHandlers

LEMMA NextSpends == StepInv /\ [AuthNext]_vars => SpentIsBehind'
<1> SUFFICES ASSUME StepInv, [AuthNext]_vars PROVE SpentIsBehind'
  OBVIOUS
<1>1. ASSUME NEW r \in Requests, LoginHandler(r) PROVE SpentIsBehind'
  <2>1. CASE BeginLogin(r)
    BY <2>1, UnspentStep, ReadsPends DEF BeginLogin
  <2>2. CASE LoginFails(r)
    <3>1. /\ admin'.lastStep = admin.lastStep /\ admin'.secret = admin.secret
          /\ admin'.pending = admin.pending
      BY <2>2 DEF LoginFails, StepInv, AuthInv, AuthTypeOK, AdminRow
    <3>2. QED
      BY <2>2, <3>1, UnspentStep, DonePends DEF LoginFails
  <2>3. QED
    BY <1>1, <2>1, <2>2, LoginSpends DEF LoginHandler
<1>2. ASSUME NEW r \in Requests, requireSession(r) PROVE SpentIsBehind'
  <2>1. \A q \in Requests : request'[q].state = "confirm" => request'[q] = request[q]
    <3> USE DEF StepInv, AuthInv, AuthTypeOK, RequestState
    <3>1. ASSUME NEW s \in SessionIds, Authenticate(r, s)
          PROVE  request'[r].state # "confirm" /\ \A q \in Requests \ {r} : request'[q] = request[q]
      BY <3>1 DEF Authenticate
    <3>2. CASE RenewSession(r)
      BY <3>2 DEF RenewSession
    <3>3. CASE ExpireSession(r)
      BY <3>3, IdleType DEF ExpireSession, Done
    <3>4. QED
      BY <1>2, <3>1, <3>2, <3>3 DEF requireSession
  <2>2. ConfirmationsPend'
    BY <2>1 DEF StepInv, SpentIsBehind, ConfirmationsPend
  <2>3. QED
    BY <1>2, <2>2, UnspentStep DEF requireSession, Authenticate, RenewSession, ExpireSession
<1>3. ASSUME NEW r \in Requests, SecurityHandlers(r) PROVE SpentIsBehind'
  BY <1>3, SecuritySpends
<1>4. ASSUME NEW disableTOTP \in BOOLEAN, ResetPassword(disableTOTP) PROVE SpentIsBehind'
  <2>1. ConfirmationsPend' /\ UNCHANGED history /\ UNCHANGED minted
    BY <1>4 DEF ResetPassword, StepInv, SpentIsBehind, ConfirmationsPend
  <2>2. IF disableTOTP
        THEN admin'.secret = NoSecret /\ admin'.pending = NoSecret
        ELSE /\ admin'.secret = admin.secret /\ admin'.pending = admin.pending
             /\ admin'.lastStep = admin.lastStep
    BY <1>4 DEF ResetPassword, StepInv, AuthInv, AuthTypeOK, AdminRow
  <2>3. QED
    BY <2>1, <2>2, UnspentStep, ForgottenSecret
<1>5. CASE Restart
  <2>1. ConfirmationsPend'
    BY <1>5, IdleType DEF Restart, ConfirmationsPend
  <2>2. QED
    BY <1>5, <2>1, UnspentStep DEF Restart
<1>6. CASE Tick \/ UNCHANGED vars
  <2>1. ConfirmationsPend'
    BY <1>6 DEF Tick, vars, StepInv, SpentIsBehind, ConfirmationsPend
  <2>2. QED
    BY <1>6, <2>1, UnspentStep DEF Tick, vars, history
<1>7. QED
  BY <1>1, <1>2, <1>3, <1>4, <1>5, <1>6 DEF AuthNext

(***************************************************************************)
(* No step of a secret buys two sessions, though it is checked against a   *)
(* row that was read before, also across changes and resets of the         *)
(* password (Login, ConfirmTOTP, ChangePassword, ResetPasswordFromFile).   *)
(***************************************************************************)
THEOREM StepsSpentOnce == AuthSpec => []StepIsSpentOnce
<1>1. AuthInit => StepInv
  <2>1. AuthInit => SpentIsBehind
    BY IdleType DEF AuthInit, FirstRow, SpentIsBehind, StepsAreBehind, SecretsAreMinted,
                    ConfirmationsPend, NoSecret
  <2>2. QED
    BY <2>1, InitType, InitVouches DEF StepInv, AuthInv
<1>2. StepInv /\ [AuthNext]_vars => StepInv'
  BY NextType, NextVouches, NextSpends DEF StepInv, AuthInv
<1>3. StepInv => StepIsSpentOnce
  BY DEF StepInv, SpentIsBehind, StepIsSpentOnce
<1>4. QED
  BY <1>1, <1>2, <1>3, PTL DEF AuthSpec
-----------------------------------------------------------------------------
(***************************************************************************)
(* The limiter.  A list holds attempts of its addresses that were          *)
(* admitted, and all of them that are younger than an hour now: a reading  *)
(* of the clock is never later, so it prunes nothing of them.              *)
(***************************************************************************)
Remembers(list, addresses, attempts, moment) ==
  /\ \A e \in list : e \in attempts /\ e.address \in addresses
  /\ \A e \in attempts : e.address \in addresses /\ e.at + Hour >= moment => e \in list

LimiterInv ==
  /\ now \in Nat
  /\ IsFiniteSet(log)
  /\ \A e \in log : e.at \in Nat /\ e.address \in Addresses
  /\ \A a \in Addresses : Remembers(byAddress[a], {a}, log, now)
  /\ Remembers(global, Addresses, log, now)

LEMMA ReadingType ==
  ASSUME now \in Nat, NEW t \in Readings
  PROVE  t \in Nat /\ t <= now
  BY DEF Readings

\* A window of such a list lies between the windows of the history that end
\* at the reading and now.
LEMMA WindowOfList ==
  ASSUME LimiterInv, NEW t \in Readings, NEW window \in {Minute, Hour},
         NEW list, NEW addresses, Remembers(list, addresses, log, now)
  PROVE  /\ Cardinality(Within(Swept(list, t), window, t)) <= InWindow(addresses, window, t)
         /\ InWindow(addresses, window, now) <= Cardinality(Within(Swept(list, t), window, t))
         /\ InWindow(addresses, window, t) \in Nat
         /\ InWindow(addresses, window, now) \in Nat
         /\ Cardinality(Within(Swept(list, t), window, t)) \in Nat
<1>. DEFINE mine == Within(Swept(list, t), window, t)
            atReading == {e \in log : e.address \in addresses /\ e.at + window >= t}
            atNow == {e \in log : e.address \in addresses /\ e.at + window >= now}
<1>1. now \in Nat /\ t \in Nat /\ t <= now /\ IsFiniteSet(log)
  BY ReadingType DEF LimiterInv
<1>2. Hour \in Nat /\ window \in Nat /\ window <= Hour
  BY LimiterAssumption
<1>3. mine \subseteq atReading
  BY DEF Within, Swept, Remembers
<1>4. atNow \subseteq mine
  <2>. SUFFICES ASSUME NEW e \in atNow PROVE e \in mine
    OBVIOUS
  <2>1. e.at \in Nat /\ e.at + window >= t /\ e.at + Hour >= t /\ e.at + Hour >= now
    BY <1>1, <1>2 DEF LimiterInv
  <2>2. e \in list
    BY <2>1 DEF Remembers
  <2>. QED
    BY <2>1, <2>2 DEF Within, Swept
<1>5. /\ IsFiniteSet(atReading) /\ IsFiniteSet(atNow)
      /\ IsFiniteSet(mine)
  BY <1>1, <1>3, FS_Subset
<1>. HIDE DEF mine, atReading, atNow
<1>6. /\ Cardinality(mine) <= Cardinality(atReading) /\ Cardinality(atNow) <= Cardinality(mine)
      /\ Cardinality(mine) \in Nat /\ Cardinality(atReading) \in Nat /\ Cardinality(atNow) \in Nat
  BY <1>3, <1>4, <1>5, FS_Subset, FS_CardinalityType
<1>. QED
  BY <1>6 DEF InWindow, mine, atReading, atNow

\* Forgetting what was an hour old at a reading keeps a list good.
LEMMA PruningRemembers ==
  ASSUME LimiterInv, NEW t \in Readings,
         NEW list, NEW addresses, Remembers(list, addresses, log, now)
  PROVE  /\ Remembers(Within(list, Hour, t), addresses, log, now)
         /\ Remembers(Swept(list, t), addresses, log, now)
<1>1. now \in Nat /\ t \in Nat /\ t <= now /\ Hour \in Nat
  BY ReadingType, LimiterAssumption DEF LimiterInv
<1>2. \A e \in log : e.at \in Nat
  BY DEF LimiterInv
<1>3. Remembers(Within(list, Hour, t), addresses, log, now)
  BY <1>1, <1>2 DEF Remembers, Within
<1>. QED
  BY <1>3 DEF Swept

LEMMA LaterRemembers ==
  ASSUME NEW list, NEW addresses, LimiterInv, Remembers(list, addresses, log, now)
  PROVE  Remembers(list, addresses, log, now + 1)
  BY LimiterAssumption DEF Remembers, LimiterInv

LEMMA AttemptRemembered ==
  ASSUME NEW list, NEW addresses, NEW attempts, NEW moment, NEW e,
         Remembers(list, addresses, attempts, moment)
  PROVE  /\ e.address \in addresses =>
              Remembers(list \cup {e}, addresses, attempts \cup {e}, moment)
         /\ e.address \notin addresses =>
              Remembers(list, addresses, attempts \cup {e}, moment)
  BY DEF Remembers

LEMMA AllowKeeps ==
  ASSUME LimiterInv, NEW a \in Addresses, NEW t \in Readings, Allow(a, t)
  PROVE  LimiterInv'
<1>. DEFINE pruned == Within(byAddress[a], Hour, t)
            everyone == IF AddressAdmits(a, t) THEN Within(global, Hour, t) ELSE Swept(global, t)
            e == Attempt(a, t)
            new == IF Admitted(a, t) THEN {e} ELSE {}
<1>1. now \in Nat /\ now' = now /\ t \in Nat
  BY ReadingType DEF LimiterInv, Allow
<1>2. \A b \in Addresses :
        byAddress'[b] = IF b = a THEN pruned \cup new ELSE Swept(byAddress[b], t)
  BY DEF Allow
<1>3. global' = everyone \cup new /\ log' = log \cup new
  BY DEF Allow
<1>4. /\ Remembers(pruned, {a}, log, now) /\ Remembers(everyone, Addresses, log, now)
      /\ \A b \in Addresses : Remembers(Swept(byAddress[b], t), {b}, log, now)
  BY PruningRemembers DEF LimiterInv
<1>5. e.address = a /\ e.at = t
  BY DEF Attempt
<1>6. new = IF Admitted(a, t) THEN {e} ELSE {}
  OBVIOUS
<1>. HIDE DEF pruned, everyone, e, new
<1>7. CASE Admitted(a, t)
  <2>1. \A b \in Addresses : Remembers(byAddress'[b], {b}, log', now')
    <3>. SUFFICES ASSUME NEW b \in Addresses PROVE Remembers(byAddress'[b], {b}, log', now')
      OBVIOUS
    <3>1. CASE b = a
      BY <1>1, <1>2, <1>3, <1>4, <1>5, <1>6, <1>7, <3>1, AttemptRemembered
    <3>2. CASE b # a
      BY <1>1, <1>2, <1>3, <1>4, <1>5, <1>6, <1>7, <3>2, AttemptRemembered
    <3>. QED
      BY <3>1, <3>2
  <2>2. Remembers(global', Addresses, log', now')
    BY <1>1, <1>3, <1>4, <1>5, <1>6, <1>7, AttemptRemembered
  <2>3. \A f \in log' : f.at \in Nat /\ f.address \in Addresses
    BY <1>1, <1>3, <1>5, <1>6, <1>7 DEF LimiterInv
  <2>4. IsFiniteSet(log')
    BY <1>3, <1>6, <1>7, FS_AddElement DEF LimiterInv
  <2>. QED
    BY <1>1, <2>1, <2>2, <2>3, <2>4 DEF LimiterInv
<1>8. CASE ~Admitted(a, t)
  BY <1>1, <1>2, <1>3, <1>4, <1>6, <1>8 DEF LimiterInv
<1>. QED
  BY <1>7, <1>8

LEMMA LimiterStep == LimiterInv /\ [LimiterNext]_limiterVars => LimiterInv'
<1>. SUFFICES ASSUME LimiterInv, [LimiterNext]_limiterVars PROVE LimiterInv'
  OBVIOUS
<1>1. CASE Passes
  <2>1. /\ now \in Nat /\ now' = now + 1
        /\ byAddress' = byAddress /\ global' = global /\ log' = log
    BY <1>1 DEF Passes, LimiterInv
  <2>2. \A a \in Addresses : Remembers(byAddress[a], {a}, log, now + 1)
    BY LaterRemembers DEF LimiterInv
  <2>3. Remembers(global, Addresses, log, now + 1)
    BY LaterRemembers DEF LimiterInv
  <2>4. IsFiniteSet(log') /\ \A e \in log' : e.at \in Nat /\ e.address \in Addresses
    BY <2>1 DEF LimiterInv
  <2>5. \A a \in Addresses : Remembers(byAddress'[a], {a}, log', now')
    BY <2>1, <2>2
  <2>6. now' \in Nat /\ Remembers(global', Addresses, log', now')
    BY <2>1, <2>3
  <2>. QED
    BY <2>4, <2>5, <2>6, Zenon DEF LimiterInv
<1>2. CASE UNCHANGED limiterVars
  BY <1>2 DEF limiterVars, LimiterInv
<1>. QED
  BY <1>1, <1>2, AllowKeeps DEF LimiterNext

(***************************************************************************)
(* Login attempts are limited by the history: for any limits, windows,     *)
(* number of addresses and delay between reading the clock and the mutex,  *)
(* room in the four windows at an attempt's reading is enough to be        *)
(* admitted, and room in the four windows at now is needed; with a current *)
(* reading the two are the same (auth/limiter.go Allow).                   *)
(***************************************************************************)
THEOREM LimiterByHistory == LimiterSpec => []AdmittedByHistory
<1>1. LimiterInit => LimiterInv
  BY LimiterAssumption, FS_EmptySet DEF LimiterInit, LimiterInv, Remembers
<1>2. LimiterInv => AdmittedByHistory
  <2>. SUFFICES ASSUME LimiterInv, NEW a \in Addresses, NEW t \in Readings
                PROVE  /\ RoomInHistory(a, t) => Admitted(a, t)
                       /\ Admitted(a, t) => RoomInHistory(a, now)
    BY DEF AdmittedByHistory
  <2>. DEFINE own(window) == Cardinality(Within(Swept(byAddress[a], t), window, t))
              all(window) == Cardinality(Within(Swept(global, t), window, t))
  <2>1. \A window \in {Minute, Hour} :
          /\ InWindow({a}, window, now) <= own(window) /\ own(window) <= InWindow({a}, window, t)
          /\ own(window) \in Nat
          /\ InWindow({a}, window, now) \in Nat /\ InWindow({a}, window, t) \in Nat
    BY WindowOfList DEF LimiterInv
  <2>2. \A window \in {Minute, Hour} :
          /\ InWindow(Addresses, window, now) <= all(window)
          /\ all(window) <= InWindow(Addresses, window, t)
          /\ all(window) \in Nat
          /\ InWindow(Addresses, window, now) \in Nat /\ InWindow(Addresses, window, t) \in Nat
    BY WindowOfList DEF LimiterInv
  <2>3. Admitted(a, t) <=> /\ own(Minute) < PerIPMinute /\ own(Hour) < PerIPHour
                           /\ all(Minute) < GlobalMinute /\ all(Hour) < GlobalHour
    BY DEF Admitted, AddressAdmits, GlobalAdmits, HasCapacity
  <2>. HIDE DEF own, all
  <2>. QED
    BY <2>1, <2>2, <2>3, LimiterAssumption DEF RoomInHistory
<1>. QED
  BY <1>1, <1>2, LimiterStep, PTL DEF LimiterSpec
=============================================================================
