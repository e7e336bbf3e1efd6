-------------------------- MODULE CredentialRefresh --------------------------
(***************************************************************************)
(* EnsureCredential (internal/oauth/refresh.go) for one OAuth account: the *)
(* requests and the refresher sweep that find its token due or refused,    *)
(* the single flight they share, the exchange at the token endpoint, and   *)
(* the compare-and-swap on credential_version against an administrator who *)
(* disables or re-authorises the account meanwhile.                        *)
(*                                                                         *)
(* How old a token is is not modelled: whether it is due, or still valid,  *)
(* is a choice where the code asks.  A refresh token is a number; accepted *)
(* are those the provider takes.                                           *)
(***************************************************************************)
EXTENDS Naturals, FiniteSets

CONSTANTS Callers,             \* requests, and the refresher
          Interventions,       \* what happens besides: subset of the below
          MaxToken,            \* bound on the refresh tokens ever issued
          MaxVersion,          \* no call starts on a later credential_version
          NoCaller

AllInterventions == {"cancel", "disable", "reauthorize", "revoke"}

ASSUME RefreshAssumption ==
    /\ NoCaller \notin Callers
    /\ Interventions \subseteq AllInterventions
    /\ MaxToken \in Nat \ {0} /\ MaxVersion \in Nat

VARIABLES
    status, version, token,    \* accounts.status, credential_version, the refresh token
    accepted, issued,          \* the provider: tokens it takes, tokens it gave out
    flight,                    \* who leads the call in Service.refreshes
    pc,                        \* where each caller is
    force, selected,           \* its arguments: force, candidate.CredentialVersion
    readVersion, readToken,    \* what its refresh has read of the account
    result                     \* what EnsureCredential returns to it

account == <<status, version, token>>
provider == <<accepted, issued>>
args == <<force, selected>>
read == <<readVersion, readToken>>
vars == <<account, provider, flight, pc, args, read, result>>

Statuses == {"active", "disabled", "reauth_required"}
Leading == {"loading", "reading", "exchanging", "saving", "reloading", "marking", "publishing"}
Places == {"idle", "selected", "waiting", "returned"} \cup Leading

Error(code) == [code |-> code, version |-> 0]
Ok(v) == [code |-> "ok", version |-> v]
Codes == {"ok", "reauth_required", "oauth_refresh_unavailable", "oauth_config_invalid", "canceled"}
NoResult == Error("ok")
Results == [code : Codes, version : Nat]

Init ==
    /\ status = "active" /\ version = 1 /\ token = 1
    /\ accepted = {1} /\ issued = 1
    /\ flight = NoCaller
    /\ pc = [p \in Callers |-> "idle"]
    /\ force = [p \in Callers |-> FALSE]
    /\ selected = [p \in Callers |-> 0]
    /\ readVersion = [p \in Callers |-> 0]
    /\ readToken = [p \in Callers |-> 0]
    /\ result = [p \in Callers |-> NoResult]

GoTo(p, place) == pc' = [pc EXCEPT ![p] = place]

\* The work of the leader is over; what is left is to publish.
Conclude(p, outcome) ==
    /\ GoTo(p, "publishing")
    /\ result' = [result EXCEPT ![p] = outcome]
-----------------------------------------------------------------------------
(***************************************************************************)
(* The callers.                                                            *)
(***************************************************************************)
\* Plan, or the sweep's SELECT, loads the candidate of an active account.
Select(p) ==
    /\ pc[p] = "idle" /\ status = "active" /\ version <= MaxVersion
    /\ GoTo(p, "selected")
    /\ selected' = [selected EXCEPT ![p] = version]
    /\ \E f \in BOOLEAN : force' = [force EXCEPT ![p] = f]
    /\ UNCHANGED <<account, provider, flight, read, result>>

NotDue(p) ==
    /\ pc[p] = "selected" /\ ~force[p]
    /\ GoTo(p, "returned")
    /\ result' = [result EXCEPT ![p] = Ok(selected[p])]
    /\ UNCHANGED <<account, provider, flight, args, read>>

\* Mutant of Enter: the map is written but not looked at.
EnterAlways(p) ==
    /\ pc[p] = "selected"
    /\ flight' = p /\ GoTo(p, "loading")
    /\ UNCHANGED <<account, provider, args, read, result>>

\* The first to come leads, the others wait for its call to be done.
Enter(p) ==
    /\ pc[p] = "selected"
    /\ IF flight = NoCaller
       THEN flight' = p /\ GoTo(p, "loading")
       ELSE UNCHANGED flight /\ GoTo(p, "waiting")
    /\ UNCHANGED <<account, provider, args, read, result>>

\* A waiter whose client leaves; a leader learns it from its next statement.
CancelWaiter(p) ==
    /\ "cancel" \in Interventions
    /\ pc[p] = "waiting"
    /\ GoTo(p, "returned")
    /\ result' = [result EXCEPT ![p] = Error("canceled")]
    /\ UNCHANGED <<account, provider, flight, args, read>>

CancelLeader(p) ==
    /\ "cancel" \in Interventions
    /\ pc[p] \in {"loading", "reading", "saving", "reloading"}
    /\ Conclude(p, Error("canceled"))
    /\ UNCHANGED <<account, provider, flight, args, read>>

\* Mutant of Publish: after an error the call stays in the map.
PublishKeepsFailed(p) ==
    LET waiters == {q \in Callers : pc[q] = "waiting"} IN
    /\ pc[p] = "publishing"
    /\ flight' = IF result[p].code = "ok" THEN NoCaller ELSE flight
    /\ pc' = [q \in Callers |-> IF q \in waiters \cup {p} THEN "returned" ELSE pc[q]]
    /\ result' = [q \in Callers |-> IF q \in waiters THEN result[p] ELSE result[q]]
    /\ UNCHANGED <<account, provider, args, read>>

\* The call leaves the map and everyone who waits for it has its result.
Publish(p) ==
    LET waiters == {q \in Callers : pc[q] = "waiting"} IN
    /\ pc[p] = "publishing"
    /\ flight' = NoCaller
    /\ pc' = [q \in Callers |-> IF q \in waiters \cup {p} THEN "returned" ELSE pc[q]]
    /\ result' = [q \in Callers |-> IF q \in waiters THEN result[p] ELSE result[q]]
    /\ UNCHANGED <<account, provider, args, read>>

Finish(p) ==
    /\ pc[p] = "returned"
    /\ GoTo(p, "idle")
    /\ force' = [force EXCEPT ![p] = FALSE]
    /\ selected' = [selected EXCEPT ![p] = 0]
    /\ readVersion' = [readVersion EXCEPT ![p] = 0]
    /\ readToken' = [readToken EXCEPT ![p] = 0]
    /\ result' = [result EXCEPT ![p] = NoResult]
    /\ UNCHANGED <<account, provider, flight>>
-----------------------------------------------------------------------------
(***************************************************************************)
(* refreshCredential, by the leader.                                       *)
(***************************************************************************)
\* LoadAccount: gone, or replaced since it was selected.
Load(p) ==
    /\ pc[p] = "loading"
    /\ IF status # "active" THEN Conclude(p, Error("reauth_required"))
       ELSE IF version # selected[p] THEN Conclude(p, Ok(version))
       ELSE GoTo(p, "reading") /\ UNCHANGED result
    /\ UNCHANGED <<account, provider, flight, args, read>>

\* The envelope, in a second SELECT; then the reasons not to refresh: it holds
\* no refresh token, it is not due after all, there is no client to ask for.
Read(p) ==
    /\ pc[p] = "reading"
    /\ IF status # "active"
       THEN Conclude(p, Error("reauth_required")) /\ UNCHANGED read
       ELSE /\ readVersion' = [readVersion EXCEPT ![p] = version]
            /\ readToken' = [readToken EXCEPT ![p] = token]
            /\ \/ GoTo(p, "exchanging") /\ UNCHANGED result
               \/ ~force[p] /\ Conclude(p, Ok(selected[p]))
               \/ \E code \in {"reauth_required", "oauth_config_invalid"} : Conclude(p, Error(code))
    /\ UNCHANGED <<account, provider, flight, args>>

\* The provider takes the token and may replace it, or refuses it.
Exchange(p) ==
    /\ pc[p] = "exchanging"
    /\ IF readToken[p] \in accepted
       THEN /\ GoTo(p, "saving")
            /\ \/ UNCHANGED <<provider, readToken>>
               \/ /\ issued < MaxToken
                  /\ issued' = issued + 1
                  /\ accepted' = (accepted \ {readToken[p]}) \cup {issued + 1}
                  /\ readToken' = [readToken EXCEPT ![p] = issued + 1]
       ELSE GoTo(p, "marking") /\ UNCHANGED <<provider, readToken>>
    /\ UNCHANGED <<account, flight, args, readVersion, result>>

\* No answer, or none that helps: a token still valid is used on.
Unavailable(p) ==
    /\ pc[p] = "exchanging"
    /\ \/ ~force[p] /\ Conclude(p, Ok(selected[p]))
       \/ Conclude(p, Error("oauth_refresh_unavailable"))
    /\ UNCHANGED <<account, provider, flight, args, read>>

\* Mutant of Save: no comparison with the version read.
SaveUnconditionally(p) ==
    /\ pc[p] = "saving"
    /\ version' = version + 1
    /\ token' = readToken[p]
    /\ GoTo(p, "reloading")
    /\ UNCHANGED <<status, provider, flight, args, read, result>>

Save(p) ==
    /\ pc[p] = "saving"
    /\ IF status = "active" /\ version = readVersion[p]
       THEN /\ version' = version + 1
            /\ token' = readToken[p]
            /\ GoTo(p, "reloading")
            /\ UNCHANGED result
       ELSE /\ Conclude(p, Error("reauth_required"))
            /\ UNCHANGED <<version, token>>
    /\ UNCHANGED <<status, provider, flight, args, read>>

\* LoadAccount again, whatever the account has become.
Reload(p) ==
    /\ pc[p] = "reloading"
    /\ Conclude(p, Ok(version))
    /\ UNCHANGED <<account, provider, flight, args, read>>

\* Mutant of Mark: the account is marked whatever its credential.
MarkAnyVersion(p) ==
    /\ pc[p] = "marking"
    /\ status' = IF status = "active" THEN "reauth_required" ELSE status
    /\ Conclude(p, Error("reauth_required"))
    /\ UNCHANGED <<version, token, provider, flight, args, read>>

\* markReauthRequired; its errors are ignored.
Mark(p) ==
    /\ pc[p] = "marking"
    /\ \/ status' = IF status = "active" /\ version = readVersion[p]
                    THEN "reauth_required" ELSE status
       \/ "cancel" \in Interventions /\ UNCHANGED status
    /\ Conclude(p, Error("reauth_required"))
    /\ UNCHANGED <<version, token, provider, flight, args, read>>
-----------------------------------------------------------------------------
(***************************************************************************)
(* The administrator and the provider's user.                              *)
(***************************************************************************)
Disable ==
    /\ "disable" \in Interventions /\ status # "disabled"
    /\ status' = "disabled"
    /\ UNCHANGED <<version, token, provider, flight, pc, args, read, result>>

\* CompleteOAuthAccount after a new consent; a disabled account first goes
\* back to draft, where it is as inactive as before.
Reauthorize ==
    /\ "reauthorize" \in Interventions /\ issued < MaxToken
    /\ status' = "active"
    /\ version' = version + 1
    /\ token' = issued + 1
    /\ issued' = issued + 1
    /\ accepted' = accepted \cup {issued + 1}
    /\ UNCHANGED <<flight, pc, args, read, result>>

Revoke ==
    /\ "revoke" \in Interventions
    /\ \E t \in accepted : accepted' = accepted \ {t}
    /\ UNCHANGED <<account, issued, flight, pc, args, read, result>>

Step(p) ==
    \/ NotDue(p) \/ Enter(p) \/ Load(p) \/ Read(p) \/ Exchange(p) \/ Unavailable(p)
    \/ Save(p) \/ Reload(p) \/ Mark(p) \/ Publish(p)

Next ==
    \/ \E p \in Callers : Select(p) \/ Step(p) \/ Finish(p) \/ CancelWaiter(p) \/ CancelLeader(p)
    \/ Disable \/ Reauthorize \/ Revoke

Spec == Init /\ [][Next]_vars

\* The token endpoint answers or the leader's client leaves.
FairSpec == Spec /\ \A p \in Callers : WF_vars(Step(p))
-----------------------------------------------------------------------------
TypeOK ==
    /\ status \in Statuses
    /\ version \in Nat /\ token \in 1..issued /\ issued \in 1..MaxToken
    /\ accepted \subseteq 1..issued
    /\ flight \in Callers \cup {NoCaller}
    /\ pc \in [Callers -> Places]
    /\ force \in [Callers -> BOOLEAN] /\ selected \in [Callers -> Nat]
    /\ readVersion \in [Callers -> Nat] /\ readToken \in [Callers -> 0..issued]
    /\ result \in [Callers -> Results]

(***************************************************************************)
(* At most one caller refreshes at a time, and while one does everyone     *)
(* who comes finds it in the map (EnsureCredential's refreshes).           *)
(***************************************************************************)
LeaderIsInFlight == \A p \in Callers : pc[p] \in Leading <=> flight = p

(***************************************************************************)
(* Only a credential that is really dead takes an account out: a refusal   *)
(* that comes back after the administrator authorised the account anew     *)
(* leaves it active (markReauthRequired's credential_version).             *)
(***************************************************************************)
OnlyDeadTokensMarked ==
    status = "reauth_required" => token \notin accepted

(***************************************************************************)
(* The row never goes back to an older refresh token: a refresh that was   *)
(* under way with the old credential does not overwrite a new grant (the   *)
(* UPDATE's credential_version).                                           *)
(***************************************************************************)
TokenNeverGoesBack ==
    [][token' >= token]_vars

(***************************************************************************)
(* Nobody waits for ever: every EnsureCredential returns, also when the    *)
(* leader it waits for fails (EnsureCredential's delete and close).        *)
(***************************************************************************)
EveryCallReturns ==
    \A p \in Callers : pc[p] = "selected" ~> pc[p] = "returned"

(***************************************************************************)
(* docs/detailed-design.md section 10.5: a rotated refresh token replaces  *)
(* the old one.  Between refreshes the row holds a token the provider      *)
(* takes.                                                                  *)
(***************************************************************************)
RotatedTokenKept ==
    (\A p \in Callers : pc[p] # "saving") => token \in accepted
=============================================================================
