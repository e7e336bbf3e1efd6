------------------------------ MODULE Scheduler ------------------------------
(***************************************************************************)
(* The account scheduler (internal/routing) with everything that moves its *)
(* state: the requests that plan, hold and release leases and report what  *)
(* the upstream answered, the administrator who changes accounts and       *)
(* validates them, the OAuth refresher, restarts of the process, time.     *)
(*                                                                         *)
(* A plan is three steps, as the code takes them: one SELECT (a snapshot   *)
(* of the database), the reading of the clock with which its rows are      *)
(* filtered, and the choice under the mutex, where the snapshot may be old *)
(* but the counters are not.  Every other step is one SQL statement or     *)
(* transaction, or one critical section.                                   *)
(*                                                                         *)
(* The columns of a row that no action below changes are those of a row    *)
(* that matches the request; RoutingScan varies them.                      *)
(***************************************************************************)
EXTENDS RoutingRules

CONSTANTS Accounts, Requests, Routes,
          CandidatesOf,        \* accounts of a route's candidates, ORDER BY c.id
          OAuthAccounts,       \* accounts with auth_kind = 'oauth'
          Limits, Priorities,  \* values of max_concurrency and priority
          NetworkBackoff,      \* [base, maximum] after a network or server error
          RateBackoff,         \* the same after a 429 without a reset
          Resets,              \* Retry-After delays of a 429, parsed
          QuotaMin, QuotaMax,  \* what RecordFailure clamps them to
          CursorModulus,       \* cursors are uint64
          NoLease

CONSTANTS Outcomes,            \* what may come of a request
          Interventions,       \* what may happen besides requests
          AdminStatuses,       \* statuses an update may ask for
          MaxTime, MaxStreak   \* bounds on the clock and on failure streaks

AllOutcomes == {"success", "unauthorized", "reset", "rate_limited", "network", "unrecorded"}

AllInterventions == {"update", "validate", "authorize", "refresh", "restart"}

Statuses == {"draft", "disabled", "validating", "active", "invalid", "reauth_required"}

\* Limits of validateAccountInput, of Retry-After and of the two backoffs (2 and
\* 15 minutes in RecordFailure); uint64 in reduced form.
ASSUME SchedulerAssumption ==
    /\ IsFiniteSet(Requests)
    /\ Routes # {} /\ CandidatesOf \in [Routes -> Seq(Accounts)]
    /\ OAuthAccounts \subseteq Accounts
    /\ Limits \subseteq Nat \ {0} /\ Limits # {} /\ Priorities \subseteq Nat
    /\ NetworkBackoff.base \in Nat \ {0} /\ NetworkBackoff.maximum \in Nat \ {0}
    /\ RateBackoff.base \in Nat \ {0} /\ RateBackoff.maximum \in Nat
    /\ NetworkBackoff.maximum <= RateBackoff.maximum
    /\ Resets \subseteq Nat \ {0} /\ QuotaMax \in Nat /\ QuotaMin \in 1..QuotaMax
    /\ CursorModulus \in Nat \ {0}
    /\ NoLease \notin [account : Accounts, limit : Limits]
    /\ Outcomes \subseteq AllOutcomes /\ Interventions \subseteq AllInterventions
    /\ AdminStatuses \subseteq {"draft", "disabled", "active"}
    /\ MaxTime \in Nat \ {0} /\ MaxStreak \in Nat

VARIABLES
    now,                       \* the clock
    status, limit, priority,   \* columns of accounts
    streak, cooldown, quota,   \* columns of account_runtime
    inFlight, cursor,          \* Service.states and Service.cursors
    phase,                     \* how far each request is
    route, rows, eligible,     \* its plan: the route, the snapshot, what passed the filter
    lease                      \* the candidate it was granted

accountVars == <<status, limit, priority>>
runtimeVars == <<streak, cooldown, quota>>
planVars == <<route, rows, eligible>>
vars == <<now, accountVars, runtimeVars, inFlight, cursor, phase, planVars, lease>>

Phases == {"idle", "queried", "inspected", "leased", "marked", "settled"}

Request == [protocol |-> "openai", capabilities |-> {"text"}]

RowOf(a) ==
    [account |-> a, priority |-> priority[a], limit |-> limit[a], enabled |-> TRUE,
     provider |-> "openai", protocols |-> {"openai"}, capabilities |-> {"text"},
     status |-> status[a], credential |-> TRUE, oauth |-> a \in OAuthAccounts,
     expiry |-> NoTime, cooldown |-> cooldown[a], quota |-> quota[a]]

Leases == [account : Accounts, limit : Limits]

Holders(a) == {p \in Requests : lease[p] # NoLease /\ lease[p].account = a}
-----------------------------------------------------------------------------
Init ==
    /\ now = 1
    /\ status = [a \in Accounts |-> "active"]
    /\ limit \in [Accounts -> Limits]
    /\ priority \in [Accounts -> Priorities]
    /\ streak = [a \in Accounts |-> 0]
    /\ cooldown = [a \in Accounts |-> NoTime]
    /\ quota = [a \in Accounts |-> NoTime]
    /\ inFlight = [a \in Accounts |-> 0]
    /\ cursor = [r \in Routes |-> 0]
    /\ phase = [p \in Requests |-> "idle"]
    /\ route = [p \in Requests |-> CHOOSE r \in Routes : TRUE]
    /\ rows = [p \in Requests |-> <<>>]
    /\ eligible = [p \in Requests |-> {}]
    /\ lease = [p \in Requests |-> NoLease]
-----------------------------------------------------------------------------
(***************************************************************************)
(* Plan.  A plan that fails leaves nothing behind.                         *)
(***************************************************************************)
\* The SELECT over route, candidates, accounts and runtime.
Query(p, r) ==
    /\ phase[p] = "idle"
    /\ phase' = [phase EXCEPT ![p] = "queried"]
    /\ route' = [route EXCEPT ![p] = r]
    /\ rows' = [rows EXCEPT ![p] = [i \in DOMAIN CandidatesOf[r] |-> RowOf(CandidatesOf[r][i])]]
    /\ UNCHANGED <<now, accountVars, runtimeVars, inFlight, cursor, eligible, lease>>

GiveUp(p) ==
    /\ phase' = [phase EXCEPT ![p] = "idle"]
    /\ rows' = [rows EXCEPT ![p] = <<>>]
    /\ eligible' = [eligible EXCEPT ![p] = {}]
    /\ UNCHANGED <<now, accountVars, runtimeVars, inFlight, cursor, route, lease>>

\* The rows are filtered with one reading of the clock.
Inspect(p) ==
    /\ phase[p] = "queried"
    /\ EligibleRows(rows[p], Request, now) # {}
    /\ phase' = [phase EXCEPT ![p] = "inspected"]
    /\ eligible' = [eligible EXCEPT ![p] = EligibleRows(rows[p], Request, now)]
    /\ UNCHANGED <<now, accountVars, runtimeVars, inFlight, cursor, route, rows, lease>>

NoneEligible(p) ==
    /\ phase[p] = "queried"
    /\ EligibleRows(rows[p], Request, now) = {}
    /\ GiveUp(p)

\* Mutant of Saturated: the first eligible account was counted before the check.
SaturatedAfterCounting(p) ==
    LET first == rows[p][Least(eligible[p])].account IN
    /\ phase[p] = "inspected"
    /\ WithCapacity(rows[p], eligible[p], inFlight) = {}
    /\ phase' = [phase EXCEPT ![p] = "idle"]
    /\ rows' = [rows EXCEPT ![p] = <<>>]
    /\ eligible' = [eligible EXCEPT ![p] = {}]
    /\ inFlight' = [inFlight EXCEPT ![first] = @ + 1]
    /\ UNCHANGED <<now, accountVars, runtimeVars, cursor, route, lease>>

Saturated(p) ==
    /\ phase[p] = "inspected"
    /\ WithCapacity(rows[p], eligible[p], inFlight) = {}
    /\ GiveUp(p)

\* Mutant of Grant: one cursor for all routes.
GrantWithSharedCursor(p, i) ==
    /\ phase[p] = "inspected"
    /\ i \in Tie(rows[p], eligible[p], inFlight)
    /\ PickedBy(cursor[route[p]], Tie(rows[p], eligible[p], inFlight), i)
    /\ phase' = [phase EXCEPT ![p] = "leased"]
    /\ lease' = [lease EXCEPT ![p] = [account |-> rows[p][i].account, limit |-> rows[p][i].limit]]
    /\ inFlight' = [inFlight EXCEPT ![rows[p][i].account] = @ + 1]
    /\ cursor' = [r \in Routes |-> (cursor[r] + 1) % CursorModulus]
    /\ rows' = [rows EXCEPT ![p] = <<>>]
    /\ eligible' = [eligible EXCEPT ![p] = {}]
    /\ UNCHANGED <<now, accountVars, runtimeVars, route>>

\* Under the mutex: choose, advance the route's cursor, take a slot.
Grant(p, i) ==
    /\ phase[p] = "inspected"
    /\ i \in Tie(rows[p], eligible[p], inFlight)
    /\ PickedBy(cursor[route[p]], Tie(rows[p], eligible[p], inFlight), i)
    /\ phase' = [phase EXCEPT ![p] = "leased"]
    /\ lease' = [lease EXCEPT ![p] = [account |-> rows[p][i].account, limit |-> rows[p][i].limit]]
    /\ inFlight' = [inFlight EXCEPT ![rows[p][i].account] = @ + 1]
    /\ cursor' = [cursor EXCEPT ![route[p]] = (@ + 1) % CursorModulus]
    /\ rows' = [rows EXCEPT ![p] = <<>>]
    /\ eligible' = [eligible EXCEPT ![p] = {}]
    /\ UNCHANGED <<now, accountVars, runtimeVars, route>>

Plan(p) ==
    \/ \E r \in Routes : Query(p, r)
    \/ Inspect(p)
    \/ NoneEligible(p)
    \/ Saturated(p)
    \/ \E i \in eligible[p] : Grant(p, i)
-----------------------------------------------------------------------------
(***************************************************************************)
(* What a request that holds a lease reports, at most once.                *)
(***************************************************************************)
Settle(p, outcome) ==
    /\ outcome \in Outcomes
    /\ phase[p] = "leased"
    /\ phase' = [phase EXCEPT ![p] = "settled"]
    /\ UNCHANGED <<now, accountVars, inFlight, cursor, planVars, lease>>

\* Mutant of RecordSuccess: the quota time is cleared with the cooldown.
RecordSuccessClearsQuota(p) ==
    /\ Settle(p, "success")
    /\ streak' = [streak EXCEPT ![lease[p].account] = 0]
    /\ cooldown' = [cooldown EXCEPT ![lease[p].account] = NoTime]
    /\ quota' = [quota EXCEPT ![lease[p].account] = NoTime]

RecordSuccess(p) ==
    /\ Settle(p, "success")
    /\ streak' = [streak EXCEPT ![lease[p].account] = 0]
    /\ cooldown' = [cooldown EXCEPT ![lease[p].account] = NoTime]
    /\ UNCHANGED quota

\* Mutant of RecordReset: the delay is believed as it comes.
RecordResetUnclamped(p, delay) ==
    LET a == lease[p].account IN
    /\ Settle(p, "reset")
    /\ streak[a] < MaxStreak
    /\ streak' = [streak EXCEPT ![a] = @ + 1]
    /\ quota' = [quota EXCEPT ![a] = now + delay]
    /\ UNCHANGED cooldown

\* A 429 with a reset: recordRuntimeError with a quota time.
RecordReset(p, delay) ==
    LET a == lease[p].account IN
    /\ Settle(p, "reset")
    /\ streak[a] < MaxStreak
    /\ streak' = [streak EXCEPT ![a] = @ + 1]
    /\ quota' = [quota EXCEPT ![a] = now + Clamp(delay, QuotaMin, QuotaMax)]
    /\ UNCHANGED cooldown

\* recordBackoff: the cooldown is drawn below the cap and replaces the last.
RecordBackoff(p, outcome, backoff) ==
    LET a == lease[p].account IN
    /\ Settle(p, outcome)
    /\ streak[a] < MaxStreak
    /\ streak' = [streak EXCEPT ![a] = @ + 1]
    /\ \E jitter \in 0..(BackoffCap(backoff.base, backoff.maximum, streak[a] + 1) - 1) :
          cooldown' = [cooldown EXCEPT ![a] = now + jitter]
    /\ UNCHANGED quota

\* A 401 or 403 is two statements; the first only touches an active account.
MarkReauth(p) ==
    LET a == lease[p].account IN
    /\ "unauthorized" \in Outcomes
    /\ phase[p] = "leased"
    /\ phase' = [phase EXCEPT ![p] = "marked"]
    /\ status' = [status EXCEPT ![a] = IF @ = "active" THEN "reauth_required" ELSE @]
    /\ UNCHANGED <<now, limit, priority, runtimeVars, inFlight, cursor, planVars, lease>>

RecordRuntimeError(p) ==
    LET a == lease[p].account IN
    /\ phase[p] = "marked"
    /\ streak[a] < MaxStreak
    /\ phase' = [phase EXCEPT ![p] = "settled"]
    /\ streak' = [streak EXCEPT ![a] = @ + 1]
    /\ UNCHANGED <<now, accountVars, cooldown, quota, inFlight, cursor, planVars, lease>>

\* Nothing is to be recorded, or the write fails and is logged.
Unrecorded(p) ==
    /\ "unrecorded" \in Outcomes
    /\ phase[p] \in {"leased", "marked"}
    /\ phase' = [phase EXCEPT ![p] = "settled"]
    /\ UNCHANGED <<now, accountVars, runtimeVars, inFlight, cursor, planVars, lease>>

Record(p) ==
    \/ RecordSuccess(p)
    \/ \E delay \in Resets : RecordReset(p, delay)
    \/ RecordBackoff(p, "rate_limited", RateBackoff)
    \/ RecordBackoff(p, "network", NetworkBackoff)
    \/ MarkReauth(p)
    \/ RecordRuntimeError(p)
    \/ Unrecorded(p)

\* Lease.Release, deferred by the holder; sync.Once makes it happen once.
Release(p) ==
    LET a == lease[p].account IN
    /\ phase[p] = "settled"
    /\ phase' = [phase EXCEPT ![p] = "idle"]
    /\ lease' = [lease EXCEPT ![p] = NoLease]
    /\ inFlight' = [inFlight EXCEPT ![a] = IF @ > 0 THEN @ - 1 ELSE @]
    /\ UNCHANGED <<now, accountVars, runtimeVars, cursor, planVars>>
-----------------------------------------------------------------------------
(***************************************************************************)
(* The administrator, the refresher, the process and time.                 *)
(***************************************************************************)
\* UpdateAccount: the version check makes it one step on the row it read.
UpdateAccount(a, newStatus, newLimit, newPriority) ==
    /\ "update" \in Interventions
    /\ newStatus = "active" => status[a] = "active"
    /\ status' = [status EXCEPT ![a] = newStatus]
    /\ limit' = [limit EXCEPT ![a] = newLimit]
    /\ priority' = [priority EXCEPT ![a] = newPriority]
    /\ UNCHANGED <<now, runtimeVars, inFlight, cursor, phase, planVars, lease>>

BeginAccountValidation(a) ==
    /\ "validate" \in Interventions
    /\ a \notin OAuthAccounts /\ status[a] # "validating"
    /\ status' = [status EXCEPT ![a] = "validating"]
    /\ UNCHANGED <<now, limit, priority, runtimeVars, inFlight, cursor, phase, planVars, lease>>

\* Activation forgets the account's failures.
Activate(a) ==
    /\ status' = [status EXCEPT ![a] = "active"]
    /\ streak' = [streak EXCEPT ![a] = 0]
    /\ cooldown' = [cooldown EXCEPT ![a] = NoTime]
    /\ quota' = [quota EXCEPT ![a] = NoTime]
    /\ UNCHANGED <<now, limit, priority, inFlight, cursor, phase, planVars, lease>>

FinishAccountValidation(a) ==
    /\ status[a] = "validating"
    /\ \/ Activate(a)
       \/ /\ status' = [status EXCEPT ![a] = "invalid"]
          /\ UNCHANGED <<now, limit, priority, runtimeVars, inFlight, cursor, phase, planVars, lease>>

CompleteOAuthAccount(a) ==
    /\ "authorize" \in Interventions
    /\ a \in OAuthAccounts /\ status[a] # "disabled"
    /\ Activate(a)

\* markReauthRequired, after the provider refused a refresh token.
RefreshRefused(a) ==
    /\ "refresh" \in Interventions
    /\ a \in OAuthAccounts /\ status[a] = "active"
    /\ status' = [status EXCEPT ![a] = "reauth_required"]
    /\ UNCHANGED <<now, limit, priority, runtimeVars, inFlight, cursor, phase, planVars, lease>>

\* The process stops anywhere and starts again: its memory is gone, the
\* database stays, interrupted validations are recovered.
Restart ==
    /\ "restart" \in Interventions
    /\ status' = [a \in Accounts |-> IF status[a] = "validating" THEN "invalid" ELSE status[a]]
    /\ inFlight' = [a \in Accounts |-> 0]
    /\ cursor' = [r \in Routes |-> 0]
    /\ phase' = [p \in Requests |-> "idle"]
    /\ rows' = [p \in Requests |-> <<>>]
    /\ eligible' = [p \in Requests |-> {}]
    /\ lease' = [p \in Requests |-> NoLease]
    /\ UNCHANGED <<now, limit, priority, runtimeVars, route>>

Tick ==
    /\ now < MaxTime
    /\ now' = now + 1
    /\ UNCHANGED <<accountVars, runtimeVars, inFlight, cursor, phase, planVars, lease>>

Administer(a) ==
    \/ \E s \in AdminStatuses, l \in Limits, n \in Priorities :
          UpdateAccount(a, s, l, n)
    \/ BeginAccountValidation(a)
    \/ FinishAccountValidation(a)
    \/ CompleteOAuthAccount(a)
    \/ RefreshRefused(a)

Next ==
    \/ \E p \in Requests : Plan(p) \/ Record(p) \/ Release(p)
    \/ \E a \in Accounts : Administer(a)
    \/ Restart
    \/ Tick

Spec == Init /\ [][Next]_vars
-----------------------------------------------------------------------------
TypeOK ==
    /\ now \in 1..MaxTime
    /\ status \in [Accounts -> Statuses]
    /\ limit \in [Accounts -> Limits]
    /\ priority \in [Accounts -> Priorities]
    /\ streak \in [Accounts -> Nat]
    /\ cooldown \in [Accounts -> Nat]
    /\ quota \in [Accounts -> Nat]
    /\ inFlight \in [Accounts -> Nat]
    /\ cursor \in [Routes -> 0..(CursorModulus - 1)]
    /\ phase \in [Requests -> Phases]
    /\ route \in [Requests -> Routes]
    /\ DOMAIN rows = Requests /\ DOMAIN eligible = Requests
    /\ \A p \in Requests : /\ eligible[p] \subseteq DOMAIN rows[p]
                           /\ phase[p] # "inspected" => eligible[p] = {}
                           /\ \A i \in DOMAIN rows[p] : /\ rows[p][i].account \in Accounts
                                                        /\ rows[p][i].limit \in Limits
    /\ lease \in [Requests -> Leases \cup {NoLease}]

\* Who holds a lease is told by the phase.
LeaseFollowsPhase ==
    \A p \in Requests : lease[p] # NoLease <=> phase[p] \in {"leased", "marked", "settled"}

(***************************************************************************)
(* The counter of an account is the number of leases on it, through every  *)
(* failure of a plan, every outcome, limit change and restart: no slot     *)
(* leaks and none is given back twice (Plan, Lease.Release).               *)
(***************************************************************************)
InFlightIsLeases ==
    \A a \in Accounts : inFlight[a] = Cardinality(Holders(a))

(***************************************************************************)
(* No account ever serves more requests than it may: of the leases on an   *)
(* account, those granted under a limit of at most m number at most m,     *)
(* although the limit of a lease is from a snapshot taken before the       *)
(* mutex and the administrator may lower it meanwhile (Plan).              *)
(***************************************************************************)
LimitRespected ==
    \A p \in Requests : lease[p] # NoLease =>
        LET within == {q \in Holders(lease[p].account) : lease[q].limit <= lease[p].limit}
        IN  Cardinality(within) <= lease[p].limit

(***************************************************************************)
(* The counter-based scheduler implements the pool that counts leases.     *)
(***************************************************************************)
Pool == INSTANCE LeasePool WITH held <- lease

ImplementsPool == Pool!Spec
=============================================================================
