------------------------------- MODULE Gateway -------------------------------
(***************************************************************************)
(* gateway.Service.Execute from the first byte of an invocation to its     *)
(* usage event, on top of Scheduler: plan, credential, Prepare, one or two *)
(* upstream calls, the copying of the answer, the verdict that is recorded *)
(* for the account, the deferred release and the deferred event.           *)
(*                                                                         *)
(* An upstream call and the reading of a body end when the upstream or the *)
(* client makes them end; EnsureCredential returns what CredentialRefresh  *)
(* may return.  What the router does is Scheduler's actions.               *)
(***************************************************************************)
EXTENDS Scheduler

CONSTANTS NoAccount            \* the account of an empty Candidate

VARIABLES
    stage,                     \* where each execution is
    candidate,                 \* Execute's candidate: account, UpstreamModelID
    ensured,                   \* what its last EnsureCredential returned
    calls,                     \* transport.Do calls it made
    answer,                    \* class of the last upstream answer
    verdict                    \* what it will record, and for which account

gatewayVars == <<stage, candidate, ensured, calls, answer, verdict>>
gvars == <<vars, gatewayVars>>

Stages == {"idle", "planning", "ensuring", "preparing", "calling", "answered", "refreshing",
           "copying", "recording", "releasing", "reporting"}

\* Classes of HTTP status upstreamError tells apart; a 429 with and without
\* a Retry-After.
Statuses2xx == {"ok"}
ErrorStatuses == {"401", "403", "429", "429_reset", "5xx", "4xx"}

\* GatewayCodes of EnsureCredential's errors; canceled has none.
EnsureErrors == {"reauth_required", "oauth_refresh_unavailable", "oauth_config_invalid",
                 "capability_not_supported", "canceled"}

EmptyCandidate == [account |-> NoAccount, model |-> ""]
NoVerdict == [kind |-> "none", account |-> NoAccount]

GatewayInit ==
    /\ Init
    /\ stage = [p \in Requests |-> "idle"]
    /\ candidate = [p \in Requests |-> EmptyCandidate]
    /\ ensured = [p \in Requests |-> "none"]
    /\ calls = [p \in Requests |-> 0]
    /\ answer = [p \in Requests |-> "none"]
    /\ verdict = [p \in Requests |-> NoVerdict]

GoTo(p, s) == stage' = [stage EXCEPT ![p] = s]

IsOAuth(p) == candidate[p].account \in OAuthAccounts
-----------------------------------------------------------------------------
(***************************************************************************)
(* Execute, up to the first call.                                          *)
(***************************************************************************)
\* The body is inspected; from here on the event is owed.
Begin(p) ==
    /\ stage[p] = "idle"
    /\ \/ GoTo(p, "planning")
       \/ GoTo(p, "reporting")
    /\ UNCHANGED <<vars, candidate, ensured, calls, answer, verdict>>

PlanStep(p) ==
    /\ stage[p] = "planning"
    /\ Plan(p)
    /\ IF phase'[p] = "leased"
       THEN /\ GoTo(p, "ensuring")
            /\ candidate' = [candidate EXCEPT
                 ![p] = [account |-> lease'[p].account, model |-> "configured"]]
       ELSE /\ GoTo(p, IF phase'[p] = "idle" THEN "reporting" ELSE "planning")
            /\ UNCHANGED candidate
    /\ UNCHANGED <<ensured, calls, answer, verdict>>

\* The end of the work: what is to be recorded, for which account.
Decide(p, kind, account) ==
    /\ GoTo(p, "recording")
    /\ verdict' = [verdict EXCEPT ![p] = [kind |-> kind, account |-> account]]

\* EnsureCredential of an API key, or of a token that is not due: the
\* candidate comes back as it went in.
KeepCredential(p) ==
    /\ stage[p] = "ensuring"
    /\ ensured' = [ensured EXCEPT ![p] = "kept"]
    /\ GoTo(p, "preparing")
    /\ UNCHANGED <<vars, candidate, calls, answer, verdict>>

\* EnsureCredential of a due token: "reloaded" is a candidate that LoadAccount
\* built, which knows the account but no route, with a refreshed token or with
\* the one there was; otherwise an error and an empty candidate.
EnsureCredential(p) ==
    /\ stage[p] = "ensuring" /\ IsOAuth(p)
    /\ \/ /\ ensured' = [ensured EXCEPT ![p] = "reloaded"]
          /\ candidate' = [candidate EXCEPT ![p].model = ""]
          /\ GoTo(p, "preparing")
          /\ UNCHANGED verdict
       \/ /\ \E code \in EnsureErrors : ensured' = [ensured EXCEPT ![p] = code]
          /\ candidate' = [candidate EXCEPT ![p] = EmptyCandidate]
          /\ Decide(p, "none", NoAccount)
    /\ UNCHANGED <<vars, calls, answer>>

\* Unknown adapter, a body the provider refuses, a wrong stream mode; the
\* Google adapter refuses an empty model.
Prepare(p) ==
    /\ stage[p] = "preparing"
    /\ \/ /\ candidate[p].model # ""
          /\ GoTo(p, "calling")
          /\ UNCHANGED verdict
       \/ Decide(p, "none", NoAccount)
    /\ UNCHANGED <<vars, candidate, ensured, calls, answer>>
-----------------------------------------------------------------------------
(***************************************************************************)
(* The upstream.                                                           *)
(***************************************************************************)
\* transport.Do: an answer's header, or an error (refused, timed out, or the
\* client has gone).
Call(p) ==
    /\ stage[p] = "calling"
    /\ calls' = [calls EXCEPT ![p] = @ + 1]
    /\ \/ /\ \E s \in Statuses2xx \cup ErrorStatuses : answer' = [answer EXCEPT ![p] = s]
          /\ GoTo(p, "answered")
          /\ UNCHANGED verdict
       \/ /\ answer' = [answer EXCEPT ![p] = "no_answer"]
          /\ Decide(p, "network", candidate[p].account)
    /\ UNCHANGED <<vars, candidate, ensured>>

\* Mutant of Failure: a 4xx falls through to the network errors.
FailureFallsThrough(code) ==
    CASE code \in {"401", "403"} -> "unauthorized"
      [] code = "429_reset"      -> "reset"
      [] code = "429"            -> "rate_limited"
      [] OTHER                     -> "network"

\* What upstreamError records for a status.
Failure(code) ==
    CASE code \in {"401", "403"} -> "unauthorized"
      [] code = "429_reset"      -> "reset"
      [] code = "429"            -> "rate_limited"
      [] code = "5xx"            -> "network"
      [] code = "4xx"            -> "none"

\* A 2xx answer is copied to the client.
Accepted(p) ==
    /\ stage[p] = "answered"
    /\ answer[p] \in Statuses2xx
    /\ GoTo(p, "copying")
    /\ UNCHANGED <<vars, candidate, ensured, calls, answer, verdict>>

\* Mutant of Refused: a 401 is final for every account.
RefusedWithoutRefresh(p) ==
    /\ stage[p] = "answered"
    /\ answer[p] \in ErrorStatuses
    /\ Decide(p, Failure(answer[p]), candidate[p].account)
    /\ UNCHANGED <<vars, candidate, ensured, calls, answer>>

\* Mutant of Refused: every 401 is retried.
RefusedAlwaysRetries(p) ==
    /\ stage[p] = "answered"
    /\ answer[p] \in ErrorStatuses
    /\ IF answer[p] = "401" /\ IsOAuth(p)
       THEN GoTo(p, "refreshing") /\ UNCHANGED verdict
       ELSE Decide(p, Failure(answer[p]), candidate[p].account)
    /\ UNCHANGED <<vars, candidate, ensured, calls, answer>>

\* Any other answer's body is read and dropped.  The first 401 of an OAuth
\* account is followed by a forced refresh; every other error ends the work.
Refused(p) ==
    /\ stage[p] = "answered"
    /\ answer[p] \in ErrorStatuses
    /\ IF answer[p] = "401" /\ IsOAuth(p) /\ calls[p] = 1
       THEN GoTo(p, "refreshing") /\ UNCHANGED verdict
       ELSE Decide(p, Failure(answer[p]), candidate[p].account)
    /\ UNCHANGED <<vars, candidate, ensured, calls, answer>>

\* Mutant of ForceRefresh: the candidate that came back is the one recorded.
ForceRefreshForgetsSelected(p) ==
    /\ stage[p] = "refreshing"
    /\ \/ /\ ensured' = [ensured EXCEPT ![p] = "reloaded"]
          /\ candidate' = [candidate EXCEPT ![p].model = ""]
          /\ GoTo(p, "calling")
          /\ UNCHANGED verdict
       \/ \E code \in EnsureErrors :
          /\ ensured' = [ensured EXCEPT ![p] = code]
          /\ candidate' = [candidate EXCEPT ![p] = EmptyCandidate]
          /\ Decide(p, IF code = "reauth_required" THEN "unauthorized" ELSE "network", NoAccount)
    /\ UNCHANGED <<vars, calls, answer>>

\* EnsureCredential with force: a reloaded credential for the second call, which
\* is the refused one where the call joined a flight that was not forced, or a
\* failure recorded for the account that was selected.
ForceRefresh(p) ==
    LET selected == candidate[p].account IN
    /\ stage[p] = "refreshing"
    /\ \/ /\ ensured' = [ensured EXCEPT ![p] = "reloaded"]
          /\ candidate' = [candidate EXCEPT ![p].model = ""]
          /\ GoTo(p, "calling")
          /\ UNCHANGED verdict
       \/ \E code \in EnsureErrors :
          /\ ensured' = [ensured EXCEPT ![p] = code]
          /\ Decide(p, IF code = "reauth_required" THEN "unauthorized" ELSE "network", selected)
          /\ UNCHANGED candidate
    /\ UNCHANGED <<vars, calls, answer>>

\* nonStream and stream.  A body of the wrong form is recorded without a
\* status, which RecordFailure ignores; so is a stream whose client left.
Copy(p) ==
    /\ stage[p] = "copying"
    /\ \E kind \in {"success", "network", "none"} : Decide(p, kind, candidate[p].account)
    /\ UNCHANGED <<vars, candidate, ensured, calls, answer>>
-----------------------------------------------------------------------------
(***************************************************************************)
(* The end: the verdict, the deferred release, the deferred event.         *)
(***************************************************************************)
Write(p) ==
    LET kind == verdict[p].kind IN
    \/ kind = "success" /\ RecordSuccess(p)
    \/ kind = "reset" /\ \E delay \in Resets : RecordReset(p, delay)
    \/ kind = "rate_limited" /\ RecordBackoff(p, "rate_limited", RateBackoff)
    \/ kind = "network" /\ RecordBackoff(p, "network", NetworkBackoff)
    \/ kind = "unauthorized" /\ (MarkReauth(p) \/ RecordRuntimeError(p))
    \/ Unrecorded(p)

RecordVerdict(p) ==
    /\ stage[p] = "recording"
    /\ Write(p)
    /\ GoTo(p, IF phase'[p] = "settled" THEN "releasing" ELSE "recording")
    /\ UNCHANGED <<candidate, ensured, calls, answer, verdict>>

\* Mutant of ReleaseLease: only the paths that recorded something release.
ReleaseLeaseIfRecorded(p) ==
    /\ stage[p] = "releasing"
    /\ verdict[p].kind # "none"
    /\ Release(p)
    /\ GoTo(p, "reporting")
    /\ UNCHANGED <<candidate, ensured, calls, answer, verdict>>

ReleaseLease(p) ==
    /\ stage[p] = "releasing"
    /\ Release(p)
    /\ GoTo(p, "reporting")
    /\ UNCHANGED <<candidate, ensured, calls, answer, verdict>>

\* The usage event; what the execution knew goes with it.
Report(p) ==
    /\ stage[p] = "reporting"
    /\ GoTo(p, "idle")
    /\ candidate' = [candidate EXCEPT ![p] = EmptyCandidate]
    /\ ensured' = [ensured EXCEPT ![p] = "none"]
    /\ calls' = [calls EXCEPT ![p] = 0]
    /\ answer' = [answer EXCEPT ![p] = "none"]
    /\ verdict' = [verdict EXCEPT ![p] = NoVerdict]
    /\ UNCHANGED vars

RestartGateway ==
    /\ Restart
    /\ stage' = [p \in Requests |-> "idle"]
    /\ candidate' = [p \in Requests |-> EmptyCandidate]
    /\ ensured' = [p \in Requests |-> "none"]
    /\ calls' = [p \in Requests |-> 0]
    /\ answer' = [p \in Requests |-> "none"]
    /\ verdict' = [p \in Requests |-> NoVerdict]

Execute(p) ==
    \/ Begin(p) \/ PlanStep(p) \/ KeepCredential(p) \/ EnsureCredential(p) \/ Prepare(p)
    \/ Call(p) \/ Accepted(p) \/ Refused(p) \/ ForceRefresh(p) \/ Copy(p)
    \/ RecordVerdict(p) \/ ReleaseLease(p) \/ Report(p)

GatewayNext ==
    \/ \E p \in Requests : Execute(p)
    \/ \E a \in Accounts : Administer(a) /\ UNCHANGED gatewayVars
    \/ RestartGateway
    \/ Tick /\ UNCHANGED gatewayVars

GatewaySpec == GatewayInit /\ [][GatewayNext]_gvars
-----------------------------------------------------------------------------
(***************************************************************************)
(* Fairness.  The gateway's own steps end: the database calls have a busy  *)
(* timeout, transport.Do one for dialling, TLS and the answer's header.    *)
(* Reading a body, of an answer or of the token endpoint, has none: it     *)
(* ends when the peer sends or the client leaves.                          *)
(***************************************************************************)
OwnStep(p) ==
    \/ PlanStep(p) \/ KeepCredential(p) \/ Prepare(p) \/ Call(p) \/ Accepted(p)
    \/ RecordVerdict(p) \/ ReleaseLease(p) \/ Report(p)

BodyRead(p) == EnsureCredential(p) \/ Refused(p) \/ ForceRefresh(p) \/ Copy(p)

GatewayFairSpec == GatewaySpec /\ \A p \in Requests : WF_gvars(OwnStep(p))

BodiesEndSpec == GatewayFairSpec /\ \A p \in Requests : WF_gvars(BodyRead(p))
-----------------------------------------------------------------------------
LeaseStages == {"ensuring", "preparing", "calling", "answered", "refreshing", "copying",
                "recording", "releasing"}

(***************************************************************************)
(* Types, and the shape of an execution: it holds a lease from the plan    *)
(* until the deferred release, on every early return, and the event is     *)
(* written when nothing is held any more (Execute's two defers).           *)
(***************************************************************************)
GatewayTypeOK ==
    /\ stage \in [Requests -> Stages]
    /\ candidate \in [Requests -> [account : Accounts \cup {NoAccount}, model : {"", "configured"}]]
    /\ ensured \in [Requests -> {"none", "kept", "reloaded"} \cup EnsureErrors]
    /\ calls \in [Requests -> Nat]
    /\ answer \in [Requests -> Statuses2xx \cup ErrorStatuses \cup {"none", "no_answer"}]
    /\ verdict \in [Requests ->
          [kind : {"none", "success", "network", "unauthorized", "reset", "rate_limited"},
           account : Accounts \cup {NoAccount}]]
    /\ \A p \in Requests : stage[p] \in LeaseStages <=> lease[p] # NoLease

(***************************************************************************)
(* A request stays with the account it was given: every call goes to the   *)
(* leased account, and what is recorded at the end is recorded for it,     *)
(* although EnsureCredential replaces the candidate, by an empty one when  *)
(* it fails (Execute's `selected`).                                        *)
(***************************************************************************)
OneAccountPerRequest ==
    \A p \in Requests :
        /\ stage[p] \in {"calling", "answered", "refreshing", "copying"} =>
              candidate[p].account = lease[p].account
        /\ stage[p] = "recording" /\ verdict[p].kind # "none" =>
              verdict[p].account = lease[p].account

(***************************************************************************)
(* A request asks the upstream again at most once, only for an OAuth       *)
(* account, and only after the forced EnsureCredential that its refused    *)
(* token brought about has returned without an error: so never on the      *)
(* candidate the plan gave it, nor after a refresh that failed (Execute).  *)
(* The second token is what EnsureCredential returned; it may be the       *)
(* refused one, where the call joined a flight that was not forced.        *)
(***************************************************************************)
AtMostOneRetry ==
    \A p \in Requests :
        /\ calls[p] <= 2
        /\ calls[p] = 2 /\ lease[p] # NoLease => /\ lease[p].account \in OAuthAccounts
                                                 /\ ensured[p] = "reloaded"

(***************************************************************************)
(* The gateway marks an account for re-authentication only on a 403, the   *)
(* 401 of an account with an API key, the second 401 of an OAuth account,  *)
(* after an EnsureCredential that returned no error, or a 401 after which  *)
(* EnsureCredential asked for re-authentication; a refresh that failed for *)
(* another reason marks nothing (Execute, upstreamError).                  *)
(***************************************************************************)
ReauthIsEarned ==
    [][\A p \in Requests :
         phase[p] = "leased" /\ phase'[p] = "marked" =>
            \/ answer[p] = "403"
            \/ /\ answer[p] = "401"
               /\ lease[p].account \in OAuthAccounts =>
                     calls[p] = 2 \/ ensured[p] = "reauth_required"]_gvars

(***************************************************************************)
(* An error of the caller costs the account nothing: an execution whose    *)
(* last answer is another 4xx ends with the account's status, streak,      *)
(* cooldown and quota time as they were (upstreamError, RecordFailure).    *)
(***************************************************************************)
CallerErrorsDoNotPunish ==
    [][\A p \in Requests :
         answer[p] = "4xx" /\ stage[p] = "recording" /\ stage'[p] # "recording"
         /\ stage'[p] # "idle" =>
            UNCHANGED <<status, runtimeVars>>]_gvars

(***************************************************************************)
(* Every slot comes back (Execute's deferred release), provided that every *)
(* body ends, for which the code has no timeout.                           *)
(***************************************************************************)
SlotsReturned ==
    \A p \in Requests : lease[p] # NoLease ~> lease[p] = NoLease

(***************************************************************************)
(* A request that goes on to Prepare after EnsureCredential still knows    *)
(* the upstream model it was routed to, also when the candidate was        *)
(* reloaded from the database (EnsureCredential, LoadAccount).             *)
(***************************************************************************)
UpstreamModelKept ==
    \A p \in Requests : stage[p] = "preparing" => candidate[p].model # ""
=============================================================================
