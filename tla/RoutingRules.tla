---------------------------- MODULE RoutingRules ----------------------------
(***************************************************************************)
(* The decisions of internal/routing/routing.go that read no shared        *)
(* memory: which rows of the route query may be used, which rows with a    *)
(* free slot are best, which error a fruitless plan reports, how long an   *)
(* account rests after a failure.  Scheduler and Gateway are built on      *)
(* them; RoutingScan relates them to the loops of the code.                *)
(*                                                                         *)
(* A row is what scanRouteCandidate loads for one route candidate:         *)
(*   account, priority, limit     accounts.priority, accounts.max_concurrency *)
(*   enabled                      route, candidate, upstream and (if any)  *)
(*                                proxy are all enabled                    *)
(*   provider, protocols, capabilities                                     *)
(*   status, credential, oauth, expiry   accounts.status, credential_enc   *)
(*                                IS NOT NULL, auth_kind = 'oauth',        *)
(*                                credential_expires_at_ms                 *)
(*   cooldown, quota              account_runtime.cooldown_until_ms and    *)
(*                                quota_reset_at_ms                        *)
(* Times are naturals; NoTime is the SQL NULL.                             *)
(***************************************************************************)
EXTENDS Integers, FiniteSets, Sequences

NoTime == 0

\* The least element of a set of integers.
Least(S) == CHOOSE x \in S : \A y \in S : x <= y

(***************************************************************************)
(* Hard filtering (Service.filter): the first condition that holds names   *)
(* the reason; a row with no reason is eligible.                           *)
(***************************************************************************)
ProtocolMatches(row, protocol) ==
    \/ protocol \in row.protocols
    \/ /\ protocol = "openai"
       /\ row.provider = "xai"
       /\ "xai" \in row.protocols

Objections(row, request, now) == <<
    [holds |-> ~row.enabled,
     reason |-> "upstream_unavailable"],
    [holds |-> \/ ~ProtocolMatches(row, request.protocol)
               \/ ~(request.capabilities \subseteq row.capabilities),
     reason |-> "capability_not_supported"],
    [holds |-> row.status \in {"reauth_required", "invalid"},
     reason |-> "reauth_required"],
    [holds |-> row.status # "active",
     reason |-> "account_disabled"],
    [holds |-> ~row.credential,
     reason |-> "reauth_required"],
    [holds |-> row.expiry # NoTime /\ row.expiry <= now /\ ~row.oauth,
     reason |-> "reauth_required"],
    [holds |-> row.quota > now,
     reason |-> "quota_limited"],
    [holds |-> row.cooldown > now,
     reason |-> "account_cooldown"] >>

Filter(row, request, now) ==
    LET chain == Objections(row, request, now)
        raised == {i \in DOMAIN chain : chain[i].holds}
    IN  IF raised = {} THEN "" ELSE chain[Least(raised)].reason

EligibleRows(rows, request, now) ==
    {i \in DOMAIN rows : Filter(rows[i], request, now) = ""}

(***************************************************************************)
(* The error of a plan that finds no row (noCandidateError).               *)
(***************************************************************************)
\* Mutant of ErrorOrder: a quota to wait for is reported before the rest.
ErrorOrderQuotaFirst ==
    << "quota_limited", "reauth_required", "capability_not_supported",
       "all_accounts_saturated", "account_cooldown", "account_disabled" >>

ErrorOrder == << "reauth_required", "capability_not_supported", "quota_limited",
                 "all_accounts_saturated", "account_cooldown", "account_disabled" >>

NoCandidateError(reasons) ==
    LET present == {i \in DOMAIN ErrorOrder : ErrorOrder[i] \in reasons}
    IN  IF present = {} THEN "upstream_unavailable" ELSE ErrorOrder[Least(present)]

(***************************************************************************)
(* The choice made under the scheduler's mutex (second half of Plan), over *)
(* the indices of the eligible rows.  load is the number of requests in    *)
(* flight per account; ratios are compared by cross-multiplication.        *)
(***************************************************************************)
\* Mutant of WithCapacity: > for >=.
WithCapacityOneOver(rows, eligible, load) ==
    {i \in eligible : load[rows[i].account] <= rows[i].limit}

WithCapacity(rows, eligible, load) ==
    {i \in eligible : load[rows[i].account] < rows[i].limit}

TopPriority(rows, open) ==
    {i \in open : \A j \in open : rows[i].priority <= rows[j].priority}

LeastLoaded(rows, top, load) ==
    {i \in top : \A j \in top :
        load[rows[i].account] * rows[j].limit <= load[rows[j].account] * rows[i].limit}

\* Mutant of Tie: full accounts are not dropped.
TieWithFullAccounts(rows, eligible, load) ==
    LeastLoaded(rows, TopPriority(rows, eligible), load)

Tie(rows, eligible, load) ==
    LeastLoaded(rows, TopPriority(rows, WithCapacity(rows, eligible, load)), load)

\* Row i is the one available[cursor % len(available)] picks: rows keep the
\* order of the query (ORDER BY c.id).
PickedBy(cursor, tie, i) ==
    Cardinality({j \in tie : j < i}) = cursor % Cardinality(tie)

\* What the caller of Plan is told when the choice fails.
PlanError(rows, request, now, load) ==
    LET eligible == EligibleRows(rows, request, now) IN
    IF rows = <<>> THEN "model_not_configured"
    ELSE IF eligible = {}
         THEN NoCandidateError({Filter(rows[i], request, now) : i \in DOMAIN rows})
    ELSE IF WithCapacity(rows, eligible, load) = {} THEN "all_accounts_saturated"
    ELSE ""

(***************************************************************************)
(* Rest periods: clamp, and the cap of the jittered backoff after the      *)
(* streak-th failure in a row (recordBackoff doubles base up to maximum).  *)
(***************************************************************************)
Clamp(value, minimum, maximum) ==
    IF value < minimum THEN minimum ELSE IF value > maximum THEN maximum ELSE value

BackoffCap(base, maximum, streak) ==
    IF base * 2^(streak - 1) < maximum THEN base * 2^(streak - 1) ELSE maximum
=============================================================================
