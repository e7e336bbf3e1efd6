----------------------------- MODULE RoutingScan -----------------------------
(***************************************************************************)
(* The loops of Plan and noCandidateError as internal/routing/routing.go   *)
(* runs them, beside the set definitions of RoutingRules.  A behaviour     *)
(* builds a route table row by row, so its states are all the tables up to *)
(* MaxRows rows over RowKinds, each under every load and clock reading;    *)
(* the invariants compare loop and definition in all of them.  The inputs  *)
(* of RetryTimes are enumerated beside the tables, not with each of them.  *)
(***************************************************************************)
EXTENDS RetryTimes, SequencesExt

CONSTANTS RowKinds,    \* rows a table may hold
          Accounts,    \* the accounts they name
          Loads,       \* in-flight counts an account may have
          Clocks,      \* readings of the clock
          Request,     \* what the caller asks for
          MaxRows      \* bound on the length of a table

\* max_concurrency is at least 1 (0002_gateway.sql); NULL times are NoTime.
ASSUME ScanAssumption ==
    /\ Loads \subseteq Nat /\ Clocks \subseteq Nat /\ MaxRows \in Nat
    /\ \A row \in RowKinds :
         /\ row.account \in Accounts /\ row.limit \in Nat \ {0} /\ row.priority \in Int
         /\ row.quota \in Nat /\ row.cooldown \in Nat

VARIABLES rows,        \* the result of the route query, in its order
          load,        \* requests in flight per account
          now          \* the plan's reading of the clock

table == <<rows, load, now>>
vars == <<table, times>>

Init ==
    /\ rows = <<>>
    /\ load \in [Accounts -> Loads]
    /\ now \in Clocks
    /\ TimesInit

\* Two candidates of one account share the columns of that account.
AccountColumns(row) == [row EXCEPT !.enabled = TRUE, !.protocols = {}, !.capabilities = {}]

AddRow(row) ==
    /\ Len(rows) < MaxRows
    /\ \A i \in DOMAIN rows :
          rows[i].account = row.account => AccountColumns(rows[i]) = AccountColumns(row)
    /\ rows' = Append(rows, row)
    /\ UNCHANGED <<load, now>>

Next ==
    \/ \E row \in RowKinds : AddRow(row) /\ streak = 0 /\ UNCHANGED times
    \/ TimesNext /\ rows = <<>> /\ UNCHANGED table

Spec == Init /\ [][Next]_vars
-----------------------------------------------------------------------------
(***************************************************************************)
(* The selection loop.                                                     *)
(***************************************************************************)
Eligible == EligibleRows(rows, Request, now)

InFlight(i) == load[rows[i].account]

\* What a loop over s keeps, in its order.
Kept(s, keep) ==
    LET kept[k \in 0..Len(s)] ==
          IF k = 0 THEN <<>>
          ELSE IF s[k] \in keep THEN Append(kept[k - 1], s[k]) ELSE kept[k - 1]
    IN  kept[Len(s)]

CapacityScan ==
    Kept([i \in DOMAIN rows |-> i], {i \in Eligible : ~(InFlight(i) >= rows[i].limit)})

MinimumPriority(open) ==
    LET minimum[k \in 1..Len(open)] ==
          IF k = 1 THEN rows[open[1]].priority
          ELSE IF rows[open[k]].priority < minimum[k - 1] THEN rows[open[k]].priority
          ELSE minimum[k - 1]
    IN  minimum[Len(open)]

PriorityScan(open) ==
    LET minimumPriority == MinimumPriority(open)
    IN  Kept(open, {i \in DOMAIN rows : rows[i].priority = minimumPriority})

\* Mutant of LoadStep: the rows found before a better one are kept.
LoadStepKeepsWorse(best, i) ==
    IF best.available = <<>> \/ InFlight(i) * best.denominator <= best.numerator * rows[i].limit
    THEN [available |-> Append(best.available, i), numerator |-> InFlight(i),
          denominator |-> rows[i].limit]
    ELSE best

\* One turn of the loop over the best priority: best is the ratio to beat,
\* available the candidates that have it so far.
LoadStep(best, i) ==
    IF best.available = <<>> \/ InFlight(i) * best.denominator < best.numerator * rows[i].limit
    THEN [available |-> <<i>>, numerator |-> InFlight(i), denominator |-> rows[i].limit]
    ELSE IF InFlight(i) * best.denominator = best.numerator * rows[i].limit
    THEN [best EXCEPT !.available = Append(@, i)]
    ELSE best

LoadScan(top) ==
    LET best[k \in 0..Len(top)] ==
          IF k = 0 THEN [available |-> <<>>, numerator |-> 0, denominator |-> 1]
          ELSE LoadStep(best[k - 1], top[k])
    IN  best[Len(top)].available

(***************************************************************************)
(* The loop picks from the least-loaded rows of the best priority that     *)
(* have a free slot, and for every cursor value the same row as the        *)
(* definition Scheduler uses: no two ratios are confused by comparing      *)
(* numerators and denominators pairwise, no better row is dropped when the *)
(* best so far is replaced (Plan, the second half).                        *)
(***************************************************************************)
ScanFindsTie ==
    LET open == WithCapacity(rows, Eligible, load)
        tie == Tie(rows, Eligible, load)
        available == LoadScan(PriorityScan(CapacityScan))
    IN  /\ ToSet(CapacityScan) = open
        /\ open # {} =>
             /\ ToSet(available) = tie
             /\ \A cursor \in 0..(2 * MaxRows) :
                  PickedBy(cursor, tie, available[(cursor % Len(available)) + 1])
-----------------------------------------------------------------------------
(***************************************************************************)
(* The error and its Retry-After.                                          *)
(***************************************************************************)
\* What keeps row i from taking the request: a filter, or a full account.
RowReason(i) ==
    LET reason == Filter(rows[i], Request, now) IN
    IF reason # "" THEN reason
    ELSE IF InFlight(i) >= rows[i].limit THEN "all_accounts_saturated" ELSE ""

\* Mutant of EarlierPositive: nothing found yet counts as the earliest.
EarlierOrZero(current, candidate) ==
    IF candidate <= 0 \/ current <= candidate THEN current ELSE candidate

EarlierPositive(current, candidate) ==
    IF candidate <= 0 \/ (current > 0 /\ current <= candidate) THEN current ELSE candidate

\* When the rest that is this reason ends.
RestEnd(row, reason) == IF reason = "quota_limited" THEN row.quota ELSE row.cooldown

\* The running minimum Plan keeps while it reads the rows with this reason.
RetryAt(reason) ==
    LET earliest[k \in 0..Len(rows)] ==
          IF k = 0 THEN 0
          ELSE IF Filter(rows[k], Request, now) # reason THEN earliest[k - 1]
          ELSE EarlierPositive(earliest[k - 1], RestEnd(rows[k], reason))
    IN  earliest[Len(rows)]

RetryAfter(reason) ==
    IF RetryAt(reason) - now > 0 THEN RetryAt(reason) - now ELSE 0

Verdict == PlanError(rows, Request, now, load)

(***************************************************************************)
(* Retry-After is exact: a caller that comes back any earlier finds every  *)
(* row with the reported reason still resting, and one that comes back     *)
(* then finds at least one of them past it (noCandidateError with          *)
(* earlierPositive).                                                       *)
(***************************************************************************)
RetryAfterIsExact ==
    \A reason \in {"quota_limited", "account_cooldown"} :
      LET resting(t) == {i \in DOMAIN rows : /\ Filter(rows[i], Request, now) = reason
                                             /\ RestEnd(rows[i], reason) > t}
      IN  Verdict = reason =>
            /\ RetryAfter(reason) > 0
            /\ resting(now + RetryAfter(reason) - 1) = resting(now)
            /\ resting(now + RetryAfter(reason)) # resting(now)

\* docs/detailed-design.md section 12.2: most specific reason first.
DocumentedOrder ==
    << "reauth_required", "capability_not_supported", "quota_limited", "all_accounts_saturated" >>

MostSpecific(reasons) ==
    LET present == {k \in DOMAIN DocumentedOrder : DocumentedOrder[k] \in reasons}
    IN  present # {} => Verdict = DocumentedOrder[Least(present)]

(***************************************************************************)
(* When the hard filter alone removes every row, the error is the most     *)
(* specific reason in the documented order.                                *)
(***************************************************************************)
FilterErrorIsMostSpecific ==
    rows # <<>> /\ Eligible = {} => MostSpecific({RowReason(i) : i \in DOMAIN rows})
=============================================================================
