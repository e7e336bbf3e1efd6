------------------------------ MODULE AdminAuth ------------------------------
(***************************************************************************)
(* The administrator's authentication (internal/auth): one row with the    *)
(* password hash, the TOTP secrets, the session version and the lock; the  *)
(* table of sessions; and requests that read the row, spend time on the    *)
(* password and then write in a transaction of their own, so that another  *)
(* request may have changed the row between the two.                       *)
(*                                                                         *)
(* Passwords and codes are abstracted to what the code does with them: a   *)
(* password matches the hash that was read or does not, a code matches     *)
(* none or one of the three steps around the time it is checked at.  A new *)
(* hash carries a new salt and a new secret is random: each is a new       *)
(* number.  Time counts TOTP steps.                                        *)
(***************************************************************************)
EXTENDS Integers, FiniteSets

CONSTANTS
  Requests,             \* requests that may be in flight together
  SessionIds,           \* public identifiers of sessions
  NoSession,            \* a request without one
  PasswordWorkLimit,    \* password computations that may run at once
  SessionIdle,          \* life of a session that is not used
  SessionAbsolute,      \* life of a session
  RenewAfter,           \* age of last_seen at which a use renews it
  PendingLife,          \* life of a TOTP secret that awaits confirmation
  LockAfter,            \* failures in a row that lock the login
  LockBase, LockMax,    \* first and longest lock
  MaxTime, MaxHashes, MaxSecrets, MaxFailures   \* bounds of the instance

ASSUME AuthAssumption ==
  /\ PasswordWorkLimit \in Nat \ {0}
  /\ {SessionIdle, SessionAbsolute, RenewAfter, PendingLife} \subseteq Nat \ {0}
  /\ {LockAfter, LockBase, LockMax} \subseteq Nat \ {0}
  /\ {MaxTime, MaxHashes, MaxSecrets, MaxFailures} \subseteq Nat
  /\ NoSession \notin SessionIds

VARIABLES
  time,       \* the clock
  admin,      \* the row of admin_user
  minted,     \* TOTP secrets generated so far
  sessions,   \* the rows of admin_sessions
  request,    \* the requests in flight
  spent,      \* history: <<secret, step>> of the codes that bought a session
  respent     \* history: one of these bought another

vars == <<time, admin, minted, sessions, request, spent, respent>>
history == <<spent, respent>>

NoSecret == 0    \* no TOTP secret: totp_enabled = 0, or none pending
NoStep == -1     \* totp_last_used_step IS NULL
NoLock == 0      \* locked_until_ms IS NULL

AdminRow ==
  [phc : Nat, secret : Nat, pending : Nat, pendingUntil : Nat, lastStep : Int,
   version : Nat, failed : Nat, lockedUntil : Int]

\* A session with, as history, the hash and the secret it was issued under.
SessionRow ==
  [version : Nat, lastSeen : Nat, idle : Nat, absolute : Nat, revoked : BOOLEAN,
   phc : Nat, secret : Nat]

\* What a request is in the middle of.
States == {"idle", "login", "renew", "expire", "authorised",
           "setup", "confirm", "disable", "change"}

\* The part of the row that a request keeps from its reading to its writing.
KeptRow == [phc : Nat, secret : Nat, pending : Nat, lastStep : Int, version : Nat]

RequestState ==
  [state : States, now : Nat, row : KeptRow, session : SessionIds \cup {NoSession}]

AuthTypeOK ==
  /\ time \in Nat
  /\ admin \in AdminRow
  /\ minted \in Nat
  /\ sessions \in [SessionIds -> SessionRow]
  /\ request \in [Requests -> RequestState]
  /\ spent \subseteq Nat \X Int
  /\ respent \in BOOLEAN

-----------------------------------------------------------------------------
\* BootstrapFromFile has created the administrator; nobody is logged in.
FirstRow ==
  [phc |-> 1, secret |-> NoSecret, pending |-> NoSecret, pendingUntil |-> 0,
   lastStep |-> NoStep, version |-> 1, failed |-> 0, lockedUntil |-> NoLock]

\* A revoked row: no statement of the code tells it from a missing one, so it
\* stands for both and its identifier may name a later session.
Revoked ==
  [version |-> 0, lastSeen |-> 0, idle |-> 0, absolute |-> 0, revoked |-> TRUE,
   phc |-> 0, secret |-> NoSecret]

NothingKept ==
  [phc |-> 0, secret |-> NoSecret, pending |-> NoSecret, lastStep |-> NoStep, version |-> 0]

Idle == [state |-> "idle", now |-> 0, row |-> NothingKept, session |-> NoSession]

AuthInit ==
  /\ time = 1
  /\ admin = FirstRow
  /\ minted = 0
  /\ sessions = [s \in SessionIds |-> Revoked]
  /\ request = [r \in Requests |-> Idle]
  /\ spent = {}
  /\ respent = FALSE

-----------------------------------------------------------------------------
Earlier(a, b) == IF a < b THEN a ELSE b

\* A request ends; what it had read is forgotten.
Done(r) == request' = [request EXCEPT ![r] = Idle]

InState(r, state) == request[r].state = state

\* loadAdmin: what the operation will still look at of the row it read.
Kept(operation) ==
  CASE operation = "login" -> [NothingKept EXCEPT !.phc = admin.phc, !.secret = admin.secret,
                                 !.version = admin.version]
    [] operation = "confirm" -> [NothingKept EXCEPT !.pending = admin.pending]
    [] operation = "disable" -> [NothingKept EXCEPT !.secret = admin.secret,
                                   !.lastStep = admin.lastStep]
    [] operation = "change" -> [NothingKept EXCEPT !.phc = admin.phc]
    [] operation = "setup" -> NothingKept

Reads(r, operation) ==
  request' = [request EXCEPT ![r].state = operation, ![r].now = time, ![r].row = Kept(operation)]

\* A login and a change of password keep their slot until they end.
PasswordWork == {r \in Requests : request[r].state \in {"login", "change"}}
PasswordSlotFree == Cardinality(PasswordWork) < PasswordWorkLimit

Locked(row, now) == row.lockedUntil # NoLock /\ now < row.lockedUntil

\* The steps whose code a check at the time now accepts.
StepsAround(now) == {now, now - 1, now + 1}

\* A row of admin_sessions with the lifetimes counted from now.
NewSession(version, now, phc, secret) ==
  [version |-> version, lastSeen |-> now, idle |-> now + SessionIdle,
   absolute |-> now + SessionAbsolute, revoked |-> FALSE, phc |-> phc, secret |-> secret]

\* An identifier for a new session: no row and no request has it.
Fresh(s) == sessions[s].revoked /\ \A r \in Requests : request[r].session # s

\* What Authenticate demands of the row it read.
Alive(s, now) == now < sessions[s].idle /\ now < sessions[s].absolute
Usable(s) ==
  /\ ~sessions[s].revoked
  /\ sessions[s].version = admin.version
  /\ Alive(s, time)

-----------------------------------------------------------------------------
\* Login: the slot, the limiter (module AttemptLimiter, whose refusal changes
\* nothing here), the row and its lock.
BeginLogin(r) ==
  /\ InState(r, "idle")
  /\ PasswordSlotFree
  /\ ~Locked(admin, time)
  /\ Reads(r, "login")
  /\ UNCHANGED <<time, admin, minted, sessions, history>>

LockDelay(failures) == Earlier(LockBase * 2 ^ Earlier(failures - LockAfter, 9), LockMax)

\* The password or the code is wrong: the failure is counted and, from the
\* LockAfter-th on, the login is locked, reckoned from the start of the request.
LoginFails(r) ==
  LET failures == admin.failed + 1
  IN /\ InState(r, "login")
     /\ failures <= MaxFailures
     /\ admin' = [admin EXCEPT !.failed = failures,
                    !.lockedUntil = IF failures >= LockAfter
                                    THEN request[r].now + LockDelay(failures) ELSE NoLock]
     /\ Done(r)
     /\ UNCHANGED <<time, minted, sessions, history>>

\* A login without TOTP spends no step; with TOTP one the code matched.
LoginSteps(r) ==
  IF request[r].row.secret = NoSecret THEN {NoStep} ELSE StepsAround(request[r].now)

\* Mutant of StepIsNew: the comparison admits the last step again.
StepIsNotOlder(r, step) == request[r].row.secret = NoSecret \/ admin.lastStep <= step

\* The UPDATE that consumes the step looks at the row as it is now.
StepIsNew(r, step) == request[r].row.secret = NoSecret \/ admin.lastStep < step

\* Mutant of SessionVersionOfLogin: the version is read again.
SessionVersionOfToday(r) == admin.version

\* The session gets the version that was read with the password hash.
SessionVersionOfLogin(r) == request[r].row.version

\* A code of the secret bought a session of the version in force.
Spends(secret, step) ==
  /\ spent' = spent \cup {<<secret, step>>}
  /\ respent' = (respent \/ <<secret, step>> \in spent)

LoginSucceeds(r, s, step) ==
  LET read == request[r].row
  IN /\ InState(r, "login")
     /\ Fresh(s)
     /\ step \in LoginSteps(r)
     /\ StepIsNew(r, step)
     /\ admin' = [admin EXCEPT !.failed = 0, !.lockedUntil = NoLock,
                    !.lastStep = IF read.secret = NoSecret THEN @ ELSE step]
     /\ sessions' = [sessions EXCEPT ![s] =
                       NewSession(SessionVersionOfLogin(r), request[r].now, read.phc, read.secret)]
     /\ IF read.secret # NoSecret /\ read.version = admin.version
        THEN Spends(read.secret, step) ELSE UNCHANGED history
     /\ Done(r)
     /\ UNCHANGED <<time, minted>>

-----------------------------------------------------------------------------
RenewalDue(s) == time - sessions[s].lastSeen >= RenewAfter

\* Authenticate reads the session; it may have to be renewed or revoked.
Authenticate(r, s) ==
  /\ InState(r, "idle")
  /\ ~sessions[s].revoked
  /\ sessions[s].version = admin.version
  /\ request' = [request EXCEPT ![r].session = s,
                   ![r].state = IF ~Alive(s, time) THEN "expire"
                                ELSE IF RenewalDue(s) THEN "renew" ELSE "authorised",
                   ![r].now = IF Alive(s, time) /\ RenewalDue(s) THEN time ELSE 0]
  /\ UNCHANGED <<time, admin, minted, sessions, history>>

\* Both updates name the session and spare one that is revoked by now.
RenewSession(r) ==
  LET s == request[r].session
      now == request[r].now
  IN /\ InState(r, "renew")
     /\ sessions' = IF sessions[s].revoked THEN sessions
                    ELSE [sessions EXCEPT ![s].lastSeen = now,
                            ![s].idle = Earlier(now + SessionIdle, sessions[s].absolute)]
     /\ request' = [request EXCEPT ![r].state = "authorised", ![r].now = 0]
     /\ UNCHANGED <<time, admin, minted, history>>

ExpireSession(r) ==
  /\ InState(r, "expire")
  /\ sessions' = [sessions EXCEPT ![request[r].session] = Revoked]
  /\ Done(r)
  /\ UNCHANGED <<time, admin, minted, history>>

Logout(r) ==
  /\ InState(r, "authorised")
  /\ sessions' = [sessions EXCEPT ![request[r].session] = Revoked]
  /\ Done(r)
  /\ UNCHANGED <<time, admin, minted, history>>

\* SetupTOTP, ConfirmTOTP, DisableTOTP and ChangePassword read the row and
\* check the password or the code against what they read.
MayStart(operation) ==
  CASE operation = "setup" -> PasswordSlotFree
    [] operation = "confirm" -> admin.pending # NoSecret /\ time < admin.pendingUntil
    [] operation = "disable" -> admin.secret # NoSecret /\ PasswordSlotFree
    [] operation = "change" -> PasswordSlotFree

ReadAdmin(r, operation) ==
  /\ InState(r, "authorised")
  /\ MayStart(operation)
  /\ Reads(r, operation)
  /\ UNCHANGED <<time, admin, minted, sessions, history>>

\* A new pending secret replaces an earlier one, whoever asked for that.
SetupTOTP(r) ==
  /\ InState(r, "setup")
  /\ minted < MaxSecrets
  /\ minted' = minted + 1
  /\ admin' = [admin EXCEPT !.pending = minted + 1, !.pendingUntil = time + PendingLife]
  /\ Done(r)
  /\ UNCHANGED <<time, sessions, history>>

-----------------------------------------------------------------------------
\* updateSecurityAndRotate: the row changes under the next version, every
\* session is revoked and one of that version is issued.
NextVersion == admin.version + 1

Rotate(r, s, row) ==
  /\ Fresh(s)
  /\ admin' = row
  /\ sessions' = [t \in SessionIds |->
                    IF t = s THEN NewSession(row.version, time, row.phc, row.secret) ELSE Revoked]
  /\ Done(r)
  /\ UNCHANGED <<time, minted>>

ConfirmTOTP(r, s, step) ==
  LET read == request[r].row
  IN /\ InState(r, "confirm")
     /\ step \in StepsAround(request[r].now)
     /\ admin.pending = read.pending
     /\ time < admin.pendingUntil
     /\ Rotate(r, s, [admin EXCEPT !.secret = read.pending, !.pending = NoSecret,
                        !.pendingUntil = 0, !.lastStep = step, !.version = NextVersion])
     /\ Spends(read.pending, step)

\* The code is compared with the last step of the row that was read, and is
\* not recorded: the row forgets its last step together with the secret.
DisableTOTP(r, s) ==
  LET read == request[r].row
  IN /\ InState(r, "disable")
     /\ \E step \in StepsAround(request[r].now) : step > read.lastStep
     /\ admin.secret = read.secret
     /\ Rotate(r, s, [admin EXCEPT !.secret = NoSecret, !.pending = NoSecret,
                        !.pendingUntil = 0, !.lastStep = NoStep, !.version = NextVersion])
     /\ UNCHANGED history

ChangePassword(r, s) ==
  /\ InState(r, "change")
  /\ admin.phc < MaxHashes
  /\ admin.phc = request[r].row.phc
  /\ Rotate(r, s, [admin EXCEPT !.phc = @ + 1, !.version = NextVersion])
  /\ UNCHANGED history

\* A request ends without a change: it only wanted the session, the password
\* or code is wrong, the step is spent, the row is no longer the one it read,
\* or its client left.
Refused(r) ==
  /\ request[r].state \notin {"idle", "expire", "renew"}
  /\ Done(r)
  /\ UNCHANGED <<time, admin, minted, sessions, history>>

-----------------------------------------------------------------------------
\* The process stops and starts again: no request survives, every row does.
Restart ==
  /\ request' = [r \in Requests |-> Idle]
  /\ UNCHANGED <<time, admin, minted, sessions, history>>

\* The command admin reset-password holds the process lock: no server runs.
ResetPassword(disableTOTP) ==
  /\ \A r \in Requests : InState(r, "idle")
  /\ admin.phc < MaxHashes
  /\ admin' = [admin EXCEPT !.phc = @ + 1, !.version = @ + 1, !.failed = 0,
                 !.lockedUntil = NoLock,
                 !.secret = IF disableTOTP THEN NoSecret ELSE @,
                 !.pending = IF disableTOTP THEN NoSecret ELSE @,
                 !.pendingUntil = IF disableTOTP THEN 0 ELSE @,
                 !.lastStep = IF disableTOTP THEN NoStep ELSE @]
  /\ sessions' = [s \in SessionIds |-> Revoked]
  /\ UNCHANGED <<time, minted, request, history>>

Tick ==
  /\ time < MaxTime
  /\ time' = time + 1
  /\ UNCHANGED <<admin, minted, sessions, request, history>>

\* The handler of a login.
LoginHandler(r) ==
  \/ BeginLogin(r)
  \/ LoginFails(r)
  \/ \E s \in SessionIds, step \in LoginSteps(r) : LoginSucceeds(r, s, step)

\* The middleware in front of every other handler.
requireSession(r) ==
  \/ \E s \in SessionIds : Authenticate(r, s)
  \/ RenewSession(r)
  \/ ExpireSession(r)

\* The handlers behind it that change anything.
SecurityHandlers(r) ==
  \/ Logout(r)
  \/ \E operation \in {"setup", "confirm", "disable", "change"} : ReadAdmin(r, operation)
  \/ SetupTOTP(r)
  \/ \E s \in SessionIds, step \in StepsAround(request[r].now) : ConfirmTOTP(r, s, step)
  \/ \E s \in SessionIds : DisableTOTP(r, s) \/ ChangePassword(r, s)
  \/ Refused(r)

AuthNext ==
  \/ \E r \in Requests : LoginHandler(r) \/ requireSession(r) \/ SecurityHandlers(r)
  \/ Restart
  \/ \E disableTOTP \in BOOLEAN : ResetPassword(disableTOTP)
  \/ Tick

AuthSpec == AuthInit /\ [][AuthNext]_vars

-----------------------------------------------------------------------------
(***************************************************************************)
(* A session that Authenticate accepts was issued under the password hash  *)
(* and the TOTP secret in force: a change of either, and a reset by the    *)
(* command, ends every session from before, also one that a login creates  *)
(* afterwards from a row it read before.                                   *)
(***************************************************************************)
UsableSessionsAreCurrent ==
  \A s \in SessionIds :
    Usable(s) => sessions[s].phc = admin.phc /\ sessions[s].secret = admin.secret

(***************************************************************************)
(* A code buys one session: of the sessions issued under the version that  *)
(* was in force, no two spent the same step of the same secret, whether by *)
(* a login or by the confirmation of the secret, and also across changes   *)
(* and resets of the password, which keep the secret and its last step     *)
(* (Login, ConfirmTOTP, updateSecurityAndRotate).  The code with which     *)
(* DisableTOTP ends the use of a secret is not counted: it may be one that *)
(* bought a session after DisableTOTP had read the row.                    *)
(***************************************************************************)
StepIsSpentOnce == ~respent
=============================================================================
