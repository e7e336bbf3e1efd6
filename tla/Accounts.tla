------------------------------ MODULE Accounts -------------------------------
(***************************************************************************)
(* The life of one account (internal/control, accountvalidate, oauth): its *)
(* row with status, credential and version, the OAuth attempts on it, and  *)
(* the requests that work on both with several statements each: an update  *)
(* by the administrator, a validation, the creation of an attempt and the  *)
(* callback of one.  Each names the version it has seen when it writes.    *)
(*                                                                         *)
(* A credential is the number under which it was first known.  What an     *)
(* account's requests go through is its path, the choice of upstream and   *)
(* proxy in its row, and the egress, the version of these two rows.        *)
(* The client configuration of the provider (oauth/config.go) can only     *)
(* refuse a request and does not appear.                                   *)
(***************************************************************************)
EXTENDS Naturals, FiniteSets

CONSTANTS
  Operations,           \* requests that may be in flight together
  Attempts,             \* public identifiers of OAuth attempts
  NoAttempt,
  Paths,                \* pairs of upstream and proxy an account may name
  NoPath,
  MaxVersion,           \* bound on the versions of an account of each kind
  MaxEgress, MaxSession \* bounds on those of the egress and on the sessions

Kinds == {"api_key", "oauth"}

ASSUME AccountsAssumption ==
  /\ NoAttempt \notin Attempts /\ NoPath \notin Paths
  /\ MaxVersion \in [Kinds -> Nat]
  /\ {MaxEgress, MaxSession} \subseteq Nat

VARIABLES
  account,    \* the row of accounts
  egress,     \* the version of the upstream and the proxy behind it
  session,    \* the administrator's session
  attempts,   \* the rows of oauth_attempts
  op,         \* the requests in flight
  proved,     \* history: the credential and the path that a probe accepted last
  cutShort    \* history: since the process started a request has ended before it wrote

accountsVars == <<account, egress, session, attempts, op, proved, cutShort>>

NoCredential == 0    \* credential_enc IS NULL

Stored == {"draft", "validating", "active", "invalid", "reauth_required", "disabled"}

AccountRow ==
  [kind : Kinds, status : Stored \cup {"none", "deleted"}, credential : Nat,
   path : Paths \cup {NoPath}, version : Nat]

\* Of the session, the fingerprint's version and egress; expired once its ten
\* minutes are over; "none" is no row.
AttemptRow ==
  [status : {"none", "pending", "exchanging", "consumed", "failed", "cancelled"},
   expired : BOOLEAN, session : Nat, version : Nat, egress : Nat]

States == {"idle", "update", "load", "probe", "create",
           "claim", "exchange", "complete", "fail"}

OpState ==
  [state : States, version : Nat, credential : Nat, path : Paths \cup {NoPath}, egress : Nat,
   attempt : Attempts \cup {NoAttempt}]

AccountsTypeOK ==
  /\ account \in AccountRow
  /\ egress \in Nat /\ session \in Nat
  /\ attempts \in [Attempts -> AttemptRow]
  /\ op \in [Operations -> OpState]
  /\ proved \in [credential : Nat, path : Paths \cup {NoPath}]
  /\ cutShort \in BOOLEAN

-----------------------------------------------------------------------------
Idle ==
  [state |-> "idle", version |-> 0, credential |-> NoCredential, path |-> NoPath, egress |-> 0,
   attempt |-> NoAttempt]

NoRow == [status |-> "none", expired |-> FALSE, session |-> 0, version |-> 0, egress |-> 0]

\* The other columns of an attempt that has ended are not looked at again.
Ended(status) == [NoRow EXCEPT !.status = status]

AccountsInit ==
  /\ account \in [kind : Kinds, status : {"none"}, credential : {NoCredential},
                  path : {NoPath}, version : {0}]
  /\ egress = 1 /\ session = 1
  /\ attempts = [a \in Attempts |-> NoRow]
  /\ op = [o \in Operations |-> Idle]
  /\ proved = [credential |-> NoCredential, path |-> NoPath]
  /\ cutShort = FALSE

Exists == account.status \in Stored
Is(o, state) == op[o].state = state
Done(o) == op' = [op EXCEPT ![o] = Idle]
Goes(o, state) == op' = [op EXCEPT ![o].state = state]

\* Every write to the row counts its version on.
Writes(row) ==
  /\ account.version < MaxVersion[account.kind]
  /\ account' = [row EXCEPT !.version = account.version + 1]

\* A credential never seen before: as a number, the version it comes with.
NewCredential == account.version + 1

\* The version a request goes by: of the row just read, or an update's If-Match,
\* which a client has been told and so is none later.  An earlier one is refused.
Seen == account.version

-----------------------------------------------------------------------------
\* CreateAccount: an API key comes with the row, a grant comes later.
CreateAccount(status, path) ==
  /\ account.status = "none"
  /\ Writes([account EXCEPT !.status = status, !.path = path,
               !.credential = IF account.kind = "api_key" THEN NewCredential ELSE NoCredential])
  /\ UNCHANGED <<egress, session, attempts, op, proved, cutShort>>

\* UpdateAccount reads the row before its transaction: the envelope and, as it
\* matters only for an active account, where that goes.
ReadForUpdate(o) ==
  /\ Is(o, "idle") /\ Exists
  /\ op' = [op EXCEPT ![o] = [Idle EXCEPT !.state = "update", !.version = Seen,
              !.credential = account.credential,
              !.path = IF account.status = "active" THEN account.path ELSE NoPath]]
  /\ UNCHANGED <<account, egress, session, attempts, proved, cutShort>>

\* An update may leave an active account active if nothing a probe has seen changes.
MayAsk(o, status, path, replace) ==
  /\ replace => account.kind = "api_key"
  /\ status = "active" => path = op[o].path /\ ~replace

SameVersion(o) == Exists /\ account.version = op[o].version

\* Mutant of UpdateAccount: the UPDATE does not compare the version.
UpdateAccountUnversioned(o, status, path, replace) ==
  /\ Is(o, "update")
  /\ Exists
  /\ MayAsk(o, status, path, replace)
  /\ Writes([account EXCEPT !.status = status, !.path = path,
               !.credential = IF replace THEN NewCredential ELSE op[o].credential])
  /\ Done(o)
  /\ UNCHANGED <<egress, session, attempts, proved, cutShort>>

UpdateAccount(o, status, path, replace) ==
  /\ Is(o, "update")
  /\ MayAsk(o, status, path, replace)
  /\ SameVersion(o)
  /\ Writes([account EXCEPT !.status = status, !.path = path,
               !.credential = IF replace THEN NewCredential ELSE op[o].credential])
  /\ Done(o)
  /\ UNCHANGED <<egress, session, attempts, proved, cutShort>>

\* DeleteAccount; the attempts go with the row (ON DELETE CASCADE).
DeleteAccount ==
  /\ Exists
  /\ account' = [account EXCEPT !.status = "deleted", !.credential = NoCredential,
                   !.path = NoPath, !.version = 0]
  /\ attempts' = [a \in Attempts |-> NoRow]
  /\ UNCHANGED <<egress, session, op, proved, cutShort>>

-----------------------------------------------------------------------------
\* Validate, after AccountCredentialState: BeginAccountValidation.
BeginValidation(o) ==
  /\ Is(o, "idle") /\ Exists
  /\ account.kind = "api_key" /\ account.credential # NoCredential
  /\ account.status # "validating"
  /\ Writes([account EXCEPT !.status = "validating"])
  /\ op' = [op EXCEPT ![o] = [Idle EXCEPT !.state = "load", !.version = account.version + 1]]
  /\ UNCHANGED <<egress, session, attempts, proved, cutShort>>

\* LoadAccount, whatever the row has become; without it the validation fails.
LoadForProbe(o) ==
  /\ Is(o, "load")
  /\ op' = IF Exists
           THEN [op EXCEPT ![o].state = "probe", ![o].credential = account.credential,
                           ![o].path = account.path]
           ELSE [op EXCEPT ![o] = Idle]
  /\ UNCHANGED <<account, egress, session, attempts, proved, cutShort>>

\* Mutant of MayFinish: any validation under way will do.
MayFinishAny(o) == account.status = "validating"

MayFinish(o) == SameVersion(o) /\ account.status = "validating"

\* FinishAccountValidation after the provider's list of models.
Accept(o) ==
  /\ Is(o, "probe")
  /\ MayFinish(o)
  /\ account.credential # NoCredential
  /\ Writes([account EXCEPT !.status = "active"])
  /\ proved' = [credential |-> op[o].credential, path |-> op[o].path]
  /\ Done(o)
  /\ UNCHANGED <<egress, session, attempts, cutShort>>

\* And after a refusal, no answer, or a disabled upstream or proxy.
Reject(o) ==
  /\ op[o].state \in {"load", "probe"}
  /\ MayFinish(o)
  /\ Writes([account EXCEPT !.status = "invalid"])
  /\ Done(o)
  /\ UNCHANGED <<egress, session, attempts, proved, cutShort>>

-----------------------------------------------------------------------------
\* CreateAttempt: LoadAccount, then a transaction that compares the version.
ReadForAttempt(o) ==
  /\ Is(o, "idle")
  /\ account.kind = "oauth" /\ account.status \in {"draft", "invalid", "reauth_required"}
  /\ op' = [op EXCEPT ![o] = [Idle EXCEPT !.state = "create", !.version = Seen,
              !.egress = egress]]
  /\ UNCHANGED <<account, egress, session, attempts, proved, cutShort>>

\* The exchange of a code that may still succeed.
Exchanging(a) == attempts[a].status = "exchanging" /\ ~attempts[a].expired

\* An identifier that no row and no request has.
Fresh(a) == attempts[a].status = "none" /\ \A o \in Operations : op[o].attempt # a

\* Mutant of CreateAttempt: an exchange under way is not looked for.
CreateAttemptBesideExchange(o, a) ==
  /\ Is(o, "create")
  /\ Fresh(a)
  /\ SameVersion(o)
  /\ attempts' = [b \in Attempts |->
       IF b = a THEN [status |-> "pending", expired |-> FALSE, session |-> session,
                      version |-> op[o].version, egress |-> op[o].egress]
       ELSE IF attempts[b].status = "pending" THEN Ended("cancelled")
       ELSE attempts[b]]
  /\ Done(o)
  /\ UNCHANGED <<account, egress, session, proved, cutShort>>

CreateAttempt(o, a) ==
  /\ Is(o, "create")
  /\ Fresh(a)
  /\ SameVersion(o)
  /\ \A b \in Attempts : ~Exchanging(b)
  /\ attempts' = [b \in Attempts |->
       IF b = a THEN [status |-> "pending", expired |-> FALSE, session |-> session,
                      version |-> op[o].version, egress |-> op[o].egress]
       ELSE IF attempts[b].status = "pending" THEN Ended("cancelled")
       ELSE attempts[b]]
  /\ Done(o)
  /\ UNCHANGED <<account, egress, session, proved, cutShort>>

\* CancelAttempt, by the session that created it.
CancelAttempt(a) ==
  /\ attempts[a].status = "pending" /\ attempts[a].session = session
  /\ attempts' = [attempts EXCEPT ![a] = Ended("cancelled")]
  /\ UNCHANGED <<account, egress, session, op, proved, cutShort>>

\* Mutant of ReadForClaim: the account is taken as it is now.
ReadForClaimUnbound(o, a) ==
  /\ Is(o, "idle")
  /\ attempts[a].status = "pending" /\ ~attempts[a].expired
  /\ attempts[a].session = session
  /\ op' = [op EXCEPT ![o] = [Idle EXCEPT !.state = "claim", !.version = account.version,
              !.egress = egress, !.path = account.path, !.attempt = a]]
  /\ UNCHANGED <<account, egress, session, attempts, proved, cutShort>>

\* claimAttempt: the attempt with its session, then the account, which must
\* have the fingerprint of the creation.
ReadForClaim(o, a) ==
  /\ Is(o, "idle")
  /\ attempts[a].status = "pending" /\ ~attempts[a].expired
  /\ attempts[a].session = session
  /\ account.version = attempts[a].version /\ egress = attempts[a].egress
  /\ op' = [op EXCEPT ![o] = [Idle EXCEPT !.state = "claim", !.version = account.version,
              !.egress = egress, !.path = account.path, !.attempt = a]]
  /\ UNCHANGED <<account, egress, session, attempts, proved, cutShort>>

\* Mutant of Claimable: the UPDATE trusts the status that was read.
ClaimableTwice(a) == attempts[a].status \in {"pending", "exchanging"} /\ attempts[a].session = session

\* The UPDATE that one of several callbacks wins; its clock is that of the read.
Claimable(a) == attempts[a].status = "pending" /\ attempts[a].session = session

ClaimAttempt(o) ==
  /\ Is(o, "claim")
  /\ Claimable(op[o].attempt)
  /\ attempts' = [attempts EXCEPT ![op[o].attempt].status = "exchanging"]
  /\ Goes(o, "exchange")
  /\ UNCHANGED <<account, egress, session, proved, cutShort>>

\* What is left is failAttempt.
Fails(o) == op' = [op EXCEPT ![o] = [Idle EXCEPT !.state = "fail", !.attempt = op[o].attempt]]

\* exchangeToken and probeGoogle, over the egress that was claimed; then the
\* account once more.  A refusal of any of them fails the attempt.
ExchangeToken(o) ==
  /\ Is(o, "exchange")
  /\ \/ SameVersion(o) /\ egress = op[o].egress /\ Goes(o, "complete")
     \/ Fails(o)
  /\ UNCHANGED <<account, egress, session, attempts, proved, cutShort>>

\* CompleteOAuthAccount: the account and the attempt in one transaction.
MayComplete(o) ==
  /\ SameVersion(o)
  /\ account.kind = "oauth" /\ account.status # "disabled"
  /\ Exchanging(op[o].attempt)

CompleteOAuthAccount(o) ==
  /\ Is(o, "complete")
  /\ MayComplete(o)
  /\ Writes([account EXCEPT !.status = "active", !.credential = NewCredential])
  /\ attempts' = [attempts EXCEPT ![op[o].attempt] = Ended("consumed")]
  /\ proved' = [credential |-> NewCredential, path |-> op[o].path]
  /\ Done(o)
  /\ UNCHANGED <<egress, session, cutShort>>

\* Refused as the rows have changed, or for the models, or a statement fails.
CompletionRefused(o) ==
  /\ Is(o, "complete")
  /\ Fails(o)
  /\ UNCHANGED <<account, egress, session, attempts, proved, cutShort>>

Live == {"pending", "exchanging"}

FailAttempt(o) ==
  /\ Is(o, "fail")
  /\ attempts' = [attempts EXCEPT ![op[o].attempt] = IF @.status \in Live THEN Ended("failed") ELSE @]
  /\ Done(o)
  /\ UNCHANGED <<account, egress, session, proved, cutShort>>

-----------------------------------------------------------------------------
\* A request whose write finds the row changed, or that is refused, ends.
Superseded(o) ==
  /\ \/ op[o].state \in {"update", "create"}
     \/ Is(o, "claim")
     \/ op[o].state \in {"load", "probe"} /\ ~MayFinish(o)
  /\ Done(o)
  /\ UNCHANGED <<account, egress, session, attempts, proved, cutShort>>

\* The client leaves: every later statement fails with the request's context.
ClientLeaves(o) ==
  /\ ~Is(o, "idle")
  /\ cutShort' = TRUE
  /\ Done(o)
  /\ UNCHANGED <<account, egress, session, attempts, proved>>

\* The last statement of a request fails: FinishAccountValidation for a list of
\* more than a thousand models or for the database, failAttempt for the latter.
\* The row stays as it is.
FinishFails(o) ==
  /\ op[o].state \in {"load", "probe", "fail"}
  /\ cutShort' = TRUE
  /\ Done(o)
  /\ UNCHANGED <<account, egress, session, attempts, proved>>

\* The refresher stores the successor of a grant (module CredentialRefresh).
RefreshCredential ==
  /\ account.kind = "oauth" /\ account.status = "active"
  /\ Writes([account EXCEPT !.credential = NewCredential])
  /\ proved' = [proved EXCEPT !.credential = NewCredential]
  /\ UNCHANGED <<egress, session, attempts, op, cutShort>>

\* RecordFailure after a 401, and markReauthRequired.
RequireReauth ==
  /\ account.status = "active"
  /\ Writes([account EXCEPT !.status = "reauth_required"])
  /\ UNCHANGED <<egress, session, attempts, op, proved, cutShort>>

\* An update of the upstream or of the proxy; only attempts compare it.
ChangeEgress ==
  /\ account.kind = "oauth"
  /\ egress < MaxEgress
  /\ egress' = egress + 1
  /\ UNCHANGED <<account, session, attempts, op, proved, cutShort>>

\* The session ends and the administrator logs in again; the same holds.
NewSession ==
  /\ account.kind = "oauth"
  /\ session < MaxSession
  /\ session' = session + 1
  /\ UNCHANGED <<account, egress, attempts, op, proved, cutShort>>

Expire(a) ==
  /\ attempts[a].status # "none" /\ ~attempts[a].expired
  /\ attempts' = [attempts EXCEPT ![a].expired = TRUE]
  /\ UNCHANGED <<account, egress, session, op, proved, cutShort>>

\* cleanupExpiredAttempts, by the refresher.
Unexpired == [a \in Attempts |-> IF attempts[a].expired THEN NoRow ELSE attempts[a]]

CleanupAttempts ==
  /\ \E a \in Attempts : attempts[a].expired
  /\ attempts' = Unexpired
  /\ UNCHANGED <<account, egress, session, op, proved, cutShort>>

\* Mutant of Recovered: only the expired exchanges are ended.
RecoveredIfExpired(a) == Unexpired[a]

\* RecoverInterrupted: exchanges fail, the expired go, validations are invalid.
Recovered(a) ==
  IF Unexpired[a].status = "exchanging" THEN Ended("failed")
  ELSE Unexpired[a]

RestartAccounts ==
  /\ op' = [o \in Operations |-> Idle]
  /\ cutShort' = FALSE
  /\ attempts' = [a \in Attempts |-> Recovered(a)]
  /\ IF account.status = "validating"
     THEN Writes([account EXCEPT !.status = "invalid"])
     ELSE UNCHANGED account
  /\ UNCHANGED <<egress, session, proved>>

Operation(o) ==
  \/ ReadForUpdate(o)
  \/ \E status \in {"draft", "disabled", "active"}, path \in Paths, replace \in BOOLEAN :
       UpdateAccount(o, status, path, replace)
  \/ BeginValidation(o) \/ LoadForProbe(o) \/ Accept(o) \/ Reject(o)
  \/ ReadForAttempt(o)
  \/ \E a \in Attempts : CreateAttempt(o, a) \/ ReadForClaim(o, a)
  \/ ClaimAttempt(o) \/ ExchangeToken(o)
  \/ CompleteOAuthAccount(o) \/ CompletionRefused(o) \/ FailAttempt(o)
  \/ Superseded(o) \/ ClientLeaves(o) \/ FinishFails(o)

AccountsNext ==
  \/ \E status \in {"draft", "disabled"}, path \in Paths : CreateAccount(status, path)
  \/ DeleteAccount
  \/ \E o \in Operations : Operation(o)
  \/ \E a \in Attempts : CancelAttempt(a) \/ Expire(a)
  \/ RefreshCredential \/ RequireReauth \/ ChangeEgress \/ NewSession
  \/ CleanupAttempts \/ RestartAccounts

AccountsSpec == AccountsInit /\ [][AccountsNext]_accountsVars

-----------------------------------------------------------------------------
(***************************************************************************)
(* A row that is busy, an account being validated or an attempt being      *)
(* exchanged, has a request that will finish it, as long as no client has  *)
(* left and no last statement has failed (accountvalidate.Service.Validate *)
(* and Service.failAttempt try nothing else).  A restart, which ends the   *)
(* requests, frees these rows (oauth.Service.RecoverInterrupted).          *)
(***************************************************************************)
BusyRowsAreOwned ==
  ~cutShort =>
    /\ account.status = "validating" =>
         \E o \in Operations : op[o].state \in {"load", "probe"} /\ SameVersion(o)
    /\ \A a \in Attempts : attempts[a].status = "exchanging" =>
         \E o \in Operations :
           op[o].attempt = a /\ op[o].state \in {"exchange", "complete", "fail"}

(***************************************************************************)
(* An account is being connected by one attempt at most: a new one cancels *)
(* the pending one and is refused during an exchange (CreateAttempt).      *)
(***************************************************************************)
OneAttemptLives ==
  \A a, b \in {c \in Attempts : attempts[c].status = "pending" \/ Exchanging(c)} : a = b

(***************************************************************************)
(* Of the callbacks that carry the state of an attempt, one exchanges its  *)
(* code (the UPDATE of claimAttempt).                                      *)
(***************************************************************************)
CodeIsExchangedOnce ==
  \A o, p \in Operations :
    {op[o].state, op[p].state} \subseteq {"exchange", "complete"}
      /\ op[o].attempt = op[p].attempt => o = p

(***************************************************************************)
(* A grant is stored in the account as it was when the administrator was   *)
(* sent to the provider, and was fetched and tried over the egress of that *)
(* moment (egressFingerprint).                                             *)
(***************************************************************************)
ConnectedAsConsented ==
  [][\A a \in Attempts, o \in Operations :
       op[o].attempt = a /\ attempts[a].status = "exchanging" /\ attempts'[a].status = "consumed"
         => account.version = attempts[a].version /\ op[o].egress = attempts[a].egress]_accountsVars

(***************************************************************************)
(* An account is active only with the credential and over the path with    *)
(* which a probe has succeeded: a validation that was overtaken by an      *)
(* update does not activate what the update has put there, and an update   *)
(* that keeps an account active keeps both.                                *)
(***************************************************************************)
ActiveIsProved ==
  account.status = "active" =>
    proved = [credential |-> account.credential, path |-> account.path]

(***************************************************************************)
(* An account never returns to a credential it had before: an update reads *)
(* the envelope outside the transaction that writes it back, and a refresh *)
(* or a new consent in between must survive.                               *)
(***************************************************************************)
CredentialNeverReturns ==
  [][account'.status # "deleted" => account'.credential >= account.credential]_accountsVars
=============================================================================
