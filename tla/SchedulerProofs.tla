--------------------------- MODULE SchedulerProofs ---------------------------
(***************************************************************************)
(* Scheduler is correct for every set of accounts, requests and routes,    *)
(* every candidate list and every bound: its types, the agreement of its   *)
(* counters with the leases, the limit of every account, and that it       *)
(* implements LeasePool.  With the history of SchedulerHistory: rests end, *)
(* an account is left alone for as long as the upstream asked, and equally *)
(* good rows take turns.                                                   *)
(***************************************************************************)
EXTENDS SchedulerHistory, FiniteSetTheorems, WellFoundedInduction, TLAPS

(***************************************************************************)
(* Types.  The plan of a request is the only structured part: its rows are *)
(* rows of accounts, whatever is in the database, and what is eligible are *)
(* indices of them.                                                        *)
(***************************************************************************)
\* A row copied by the SELECT names an account and carries a legal limit.
LEMMA RowsOfAccounts ==
    ASSUME TypeOK, NEW r \in Routes
    PROVE  LET copy == [i \in DOMAIN CandidatesOf[r] |-> RowOf(CandidatesOf[r][i])]
           IN  \A i \in DOMAIN copy : /\ copy[i].account \in Accounts
                                      /\ copy[i].limit \in Limits
<1>1. CandidatesOf[r] \in Seq(Accounts)
  BY SchedulerAssumption
<1>2. \A i \in DOMAIN CandidatesOf[r] : CandidatesOf[r][i] \in Accounts
  BY <1>1
<1>3. \A a \in Accounts : RowOf(a).account = a /\ RowOf(a).limit = limit[a]
  BY DEF RowOf
<1>. QED
  BY <1>2, <1>3 DEF TypeOK

\* What passes the filter are rows of the snapshot.
LEMMA EligibleAreRows ==
    ASSUME NEW table, NEW request, NEW t
    PROVE  EligibleRows(table, request, t) \subseteq DOMAIN table
BY DEF EligibleRows

\* The tie is taken from the eligible rows, each with a free slot.
LEMMA TieHasCapacity ==
    ASSUME NEW table, NEW passed, NEW load, NEW i \in Tie(table, passed, load)
    PROVE  i \in passed /\ load[table[i].account] < table[i].limit
BY DEF Tie, LeastLoaded, TopPriority, WithCapacity

\* A clamped delay lies between the bounds it is clamped to.
LEMMA ClampIsNat ==
    ASSUME NEW d \in Nat, NEW low \in Nat, NEW high \in Nat
    PROVE  Clamp(d, low, high) \in Nat
BY DEF Clamp

LEMMA InitType == Init => TypeOK
<1>1. (CHOOSE r \in Routes : TRUE) \in Routes
  BY SchedulerAssumption
<1>. QED
  BY <1>1, SchedulerAssumption
  DEF Init, TypeOK, Statuses, Phases, NoTime, Leases

\* Every step of a plan.
LEMMA PlanType ==
    ASSUME TypeOK, NEW p \in Requests, Plan(p)
    PROVE  TypeOK'
<1>1. ASSUME NEW r \in Routes, Query(p, r) PROVE TypeOK'
  <2>. DEFINE copy == [i \in DOMAIN CandidatesOf[r] |-> RowOf(CandidatesOf[r][i])]
  <2>1. \A i \in DOMAIN copy : copy[i].account \in Accounts /\ copy[i].limit \in Limits
    BY RowsOfAccounts
  <2>2. rows' = [rows EXCEPT ![p] = copy]
    BY <1>1 DEF Query
  <2>. HIDE DEF copy
  <2>3. DOMAIN rows' = Requests /\ \A q \in Requests : rows'[q] = IF q = p THEN copy ELSE rows[q]
    BY <2>2 DEF TypeOK
  <2>4. \A q \in Requests : eligible'[q] = eligible[q] /\ (q = p => eligible[q] = {})
    BY <1>1 DEF Query, TypeOK
  <2>5. \A q \in Requests : /\ eligible'[q] \subseteq DOMAIN rows'[q]
                            /\ phase'[q] # "inspected" => eligible'[q] = {}
    BY <1>1, <2>3, <2>4 DEF Query, TypeOK
  <2>6. \A q \in Requests : \A i \in DOMAIN rows'[q] : /\ rows'[q][i].account \in Accounts
                                                        /\ rows'[q][i].limit \in Limits
    BY <2>1, <2>3 DEF TypeOK
  <2>. QED
    BY <1>1, <2>3, <2>5, <2>6 DEF Query, TypeOK, Phases, accountVars, runtimeVars
<1>2. CASE Inspect(p)
  <2>1. EligibleRows(rows[p], Request, now) \subseteq DOMAIN rows[p]
    BY EligibleAreRows
  <2>. QED
    BY <1>2, <2>1 DEF Inspect, TypeOK, Phases, accountVars, runtimeVars
<1>3. ASSUME GiveUp(p) PROVE TypeOK'
  BY <1>3 DEF GiveUp, TypeOK, Phases, accountVars, runtimeVars
<1>4. ASSUME NEW i \in eligible[p], Grant(p, i) PROVE TypeOK'
  <2>. DEFINE row == rows[p][i]
  <2>1. row.account \in Accounts /\ row.limit \in Limits
    BY DEF TypeOK
  <2>2. lease' \in [Requests -> Leases \cup {NoLease}]
    BY <1>4, <2>1 DEF Grant, TypeOK, Leases
  <2>3. inFlight' \in [Accounts -> Nat]
    BY <1>4, <2>1 DEF Grant, TypeOK
  <2>4. cursor' \in [Routes -> 0..(CursorModulus - 1)]
    <3>1. CursorModulus \in Nat /\ CursorModulus > 0
      BY SchedulerAssumption
    <3>2. \A n \in Nat : n % CursorModulus \in 0..(CursorModulus - 1)
      BY <3>1
    <3>3. \A r \in Routes : cursor[r] + 1 \in Nat
      BY <3>1 DEF TypeOK
    <3>. QED
      BY <1>4, <3>2, <3>3 DEF Grant, TypeOK
  <2>. QED
    BY <1>4, <2>2, <2>3, <2>4 DEF Grant, TypeOK, Phases, accountVars, runtimeVars
<1>. QED
  BY <1>1, <1>2, <1>3, <1>4 DEF Plan, NoneEligible, Saturated

\* What a request reports moves the clock's columns to naturals.
LEMMA RecordType ==
    ASSUME TypeOK, NEW p \in Requests, Record(p), lease[p] \in Leases
    PROVE  TypeOK'
<1>. DEFINE a == lease[p].account
<1>1. a \in Accounts /\ now \in Nat
  BY DEF Leases, TypeOK
<1>2. CASE RecordSuccess(p)
  BY <1>1, <1>2 DEF RecordSuccess, Settle, TypeOK, Phases, NoTime, accountVars, planVars
<1>3. ASSUME NEW delay \in Resets, RecordReset(p, delay) PROVE TypeOK'
  <2>0. delay \in Nat /\ QuotaMin \in Nat /\ QuotaMax \in Nat
    BY SchedulerAssumption
  <2>1. Clamp(delay, QuotaMin, QuotaMax) \in Nat
    BY <2>0, ClampIsNat
  <2>2. now + Clamp(delay, QuotaMin, QuotaMax) \in Nat
    BY <1>1, <2>1
  <2>. QED
    BY <1>1, <1>3, <2>2 DEF RecordReset, Settle, TypeOK, Phases, accountVars, planVars
<1>4. ASSUME NEW outcome, NEW backoff, RecordBackoff(p, outcome, backoff) PROVE TypeOK'
  <2>1. PICK jitter \in 0..(BackoffCap(backoff.base, backoff.maximum, streak[a] + 1) - 1) :
            cooldown' = [cooldown EXCEPT ![a] = now + jitter]
    BY <1>4 DEF RecordBackoff
  <2>2. now + jitter \in Nat
    BY <1>1
  <2>. QED
    BY <1>1, <1>4, <2>1, <2>2 DEF RecordBackoff, Settle, TypeOK, Phases, accountVars, planVars
<1>5. CASE MarkReauth(p)
  BY <1>1, <1>5 DEF MarkReauth, TypeOK, Phases, Statuses, runtimeVars, planVars
<1>6. CASE RecordRuntimeError(p)
  BY <1>1, <1>6 DEF RecordRuntimeError, TypeOK, Phases, accountVars, planVars
<1>7. CASE Unrecorded(p)
  BY <1>7 DEF Unrecorded, TypeOK, Phases, accountVars, runtimeVars, planVars
<1>. QED
  BY <1>2, <1>3, <1>4, <1>5, <1>6, <1>7 DEF Record

LEMMA ReleaseType ==
    ASSUME TypeOK, NEW p \in Requests, Release(p), lease[p] \in Leases
    PROVE  TypeOK'
<1>1. lease[p].account \in Accounts
  BY DEF Leases
<1>2. inFlight' \in [Accounts -> Nat]
  BY <1>1 DEF Release, TypeOK
<1>. QED
  BY <1>2 DEF Release, TypeOK, Phases, accountVars, runtimeVars, planVars

\* What the administrator, the refresher, the process and time do.
LEMMA AdministerType ==
    ASSUME TypeOK, NEW a \in Accounts, Administer(a)
    PROVE  TypeOK'
<1>1. ASSUME NEW s \in AdminStatuses, NEW l \in Limits, NEW n \in Priorities,
             UpdateAccount(a, s, l, n)
      PROVE  TypeOK'
  <2>1. s \in Statuses
    BY SchedulerAssumption DEF Statuses
  <2>. QED
    BY <1>1, <2>1 DEF UpdateAccount, TypeOK, runtimeVars, planVars
<1>2. CASE BeginAccountValidation(a)
  BY <1>2 DEF BeginAccountValidation, TypeOK, Statuses, runtimeVars, planVars
<1>3. ASSUME Activate(a) PROVE TypeOK'
  BY <1>3 DEF Activate, TypeOK, Statuses, NoTime, planVars
<1>4. CASE FinishAccountValidation(a)
  BY <1>3, <1>4 DEF FinishAccountValidation, TypeOK, Statuses, runtimeVars, planVars
<1>5. CASE CompleteOAuthAccount(a)
  BY <1>3, <1>5 DEF CompleteOAuthAccount
<1>6. CASE RefreshRefused(a)
  BY <1>6 DEF RefreshRefused, TypeOK, Statuses, runtimeVars, planVars
<1>. QED
  BY <1>1, <1>2, <1>4, <1>5, <1>6 DEF Administer

LEMMA RestartType == TypeOK /\ Restart => TypeOK'
<1>. SUFFICES ASSUME TypeOK, Restart PROVE TypeOK'
  OBVIOUS
<1>1. cursor' \in [Routes -> 0..(CursorModulus - 1)]
  BY SchedulerAssumption DEF Restart
<1>. QED
  BY <1>1 DEF Restart, TypeOK, Statuses, Phases, runtimeVars

LEMMA TickType == TypeOK /\ Tick => TypeOK'
BY SchedulerAssumption
DEF Tick, TypeOK, accountVars, runtimeVars, planVars
-----------------------------------------------------------------------------
(***************************************************************************)
(* Leases and counters.  All that a step can do to them is one of four     *)
(* things.                                                                 *)
(***************************************************************************)
Quiet == UNCHANGED <<lease, inFlight>> /\ LeaseFollowsPhase'

\* The leases on an account that were granted under a limit of at most m.
Within(a, m) == {q \in Holders(a) : lease[q].limit <= m}

\* LimitRespected for every limit, whether or not a lease carries it.
LimitInv == \A a \in Accounts, m \in Limits : Cardinality(Within(a, m)) <= m

IInv ==
    /\ TypeOK
    /\ LeaseFollowsPhase
    /\ InFlightIsLeases
    /\ LimitInv

LEMMA HeldLease ==
    ASSUME TypeOK, LeaseFollowsPhase, NEW p \in Requests,
           phase[p] \in {"leased", "marked", "settled"}
    PROVE  lease[p] \in Leases
BY DEF TypeOK, LeaseFollowsPhase

LEMMA LeaseSteps ==
    ASSUME TypeOK, LeaseFollowsPhase, [Next]_vars
    PROVE  \/ Quiet
           \/ \E p \in Requests : \E i \in eligible[p] : Grant(p, i)
           \/ \E p \in Requests : Release(p)
           \/ Restart
<1>1. ASSUME NEW p \in Requests, Plan(p)
      PROVE  Quiet \/ \E i \in eligible[p] : Grant(p, i)
  <2>1. ASSUME NEW r \in Routes, Query(p, r) PROVE Quiet
    BY <2>1 DEF Query, Quiet, LeaseFollowsPhase, TypeOK
  <2>2. CASE Inspect(p)
    BY <2>2 DEF Inspect, Quiet, LeaseFollowsPhase, TypeOK
  <2>3. CASE NoneEligible(p)
    BY <2>3 DEF NoneEligible, GiveUp, Quiet, LeaseFollowsPhase, TypeOK
  <2>4. CASE Saturated(p)
    BY <2>4 DEF Saturated, GiveUp, Quiet, LeaseFollowsPhase, TypeOK
  <2>. QED
    BY <1>1, <2>1, <2>2, <2>3, <2>4 DEF Plan
<1>2. ASSUME NEW p \in Requests, Record(p) PROVE Quiet
  <2>1. CASE RecordSuccess(p)
    BY <2>1 DEF RecordSuccess, Settle, Quiet, LeaseFollowsPhase, TypeOK
  <2>2. ASSUME NEW delay \in Resets, RecordReset(p, delay) PROVE Quiet
    BY <2>2 DEF RecordReset, Settle, Quiet, LeaseFollowsPhase, TypeOK
  <2>3. ASSUME NEW outcome, NEW backoff, RecordBackoff(p, outcome, backoff) PROVE Quiet
    BY <2>3 DEF RecordBackoff, Settle, Quiet, LeaseFollowsPhase, TypeOK
  <2>4. CASE MarkReauth(p)
    BY <2>4 DEF MarkReauth, Quiet, LeaseFollowsPhase, TypeOK
  <2>5. CASE RecordRuntimeError(p)
    BY <2>5 DEF RecordRuntimeError, Quiet, LeaseFollowsPhase, TypeOK
  <2>6. CASE Unrecorded(p)
    BY <2>6 DEF Unrecorded, Quiet, LeaseFollowsPhase, TypeOK
  <2>. QED
    BY <1>2, <2>1, <2>2, <2>3, <2>4, <2>5, <2>6 DEF Record
<1>3. ASSUME NEW a \in Accounts, Administer(a) PROVE Quiet
  BY <1>3
  DEF Administer, UpdateAccount, BeginAccountValidation, FinishAccountValidation,
      CompleteOAuthAccount, Activate, RefreshRefused, Quiet, LeaseFollowsPhase
<1>4. ASSUME Tick \/ UNCHANGED vars PROVE Quiet
  BY <1>4 DEF Tick, vars, Quiet, LeaseFollowsPhase
<1>. QED
  BY <1>1, <1>2, <1>3, <1>4 DEF Next

(***************************************************************************)
(* The leases on an account are a finite set.                              *)
(***************************************************************************)
LEMMA HoldersFinite ==
    ASSUME NEW S, S \subseteq Requests
    PROVE  IsFiniteSet(S) /\ Cardinality(S) \in Nat
BY FS_Subset, FS_CardinalityType, SchedulerAssumption

\* What a grant knows: the account's counter was below the limit it carries.
LEMMA GrantFacts ==
    ASSUME IInv, NEW p \in Requests, NEW i \in eligible[p], Grant(p, i)
    PROVE  \E l \in Leases :
              /\ lease[p] = NoLease
              /\ lease' = [lease EXCEPT ![p] = l]
              /\ inFlight[l.account] < l.limit
              /\ inFlight' = [inFlight EXCEPT ![l.account] = @ + 1]
<1>. DEFINE l == [account |-> rows[p][i].account, limit |-> rows[p][i].limit]
<1>1. l \in Leases
  BY DEF IInv, TypeOK, Leases
<1>2. lease[p] = NoLease
  BY DEF Grant, IInv, LeaseFollowsPhase
<1>3. inFlight[l.account] < l.limit
  BY TieHasCapacity DEF Grant
<1>. QED
  BY <1>1, <1>2, <1>3 DEF Grant

\* The holders of the granted account are one more, those of others the same.
LEMMA GrantHolders ==
    ASSUME IInv, NEW p \in Requests, NEW l \in Leases, lease[p] = NoLease,
           lease' = [lease EXCEPT ![p] = l]
    PROVE  /\ \A q \in Requests : lease'[q] = IF q = p THEN l ELSE lease[q]
           /\ Holders(l.account)' = Holders(l.account) \cup {p}
           /\ p \notin Holders(l.account)
           /\ \A b \in Accounts : b # l.account => Holders(b)' = Holders(b)
<1>1. \A q \in Requests : lease'[q] = IF q = p THEN l ELSE lease[q]
  BY DEF IInv, TypeOK
<1>2. l # NoLease
  BY SchedulerAssumption DEF Leases
<1>. QED
  BY <1>1, <1>2 DEF Holders

(***************************************************************************)
(* The limit argument.  A grant under limit l adds itself to Within(a, m)  *)
(* only when l <= m, and then all the leases on a, itself included, number *)
(* at most l.                                                              *)
(***************************************************************************)
LEMMA GrantKeepsInvariant ==
    ASSUME IInv, NEW p \in Requests, NEW i \in eligible[p], Grant(p, i), TypeOK'
    PROVE  IInv'
<1>1. PICK l \in Leases : /\ lease[p] = NoLease
                          /\ lease' = [lease EXCEPT ![p] = l]
                          /\ inFlight[l.account] < l.limit
                          /\ inFlight' = [inFlight EXCEPT ![l.account] = @ + 1]
  BY GrantFacts
<1>2. /\ \A q \in Requests : lease'[q] = IF q = p THEN l ELSE lease[q]
      /\ Holders(l.account)' = Holders(l.account) \cup {p}
      /\ p \notin Holders(l.account)
      /\ \A b \in Accounts : b # l.account => Holders(b)' = Holders(b)
  BY <1>1, GrantHolders
<1>3. l \in [account : Accounts, limit : Limits] /\ l # NoLease /\ l.limit \in Nat
  BY SchedulerAssumption DEF Leases
<1>4. LeaseFollowsPhase'
  BY <1>2, <1>3 DEF Grant, IInv, LeaseFollowsPhase, TypeOK
<1>5. IsFiniteSet(Holders(l.account)) /\ Cardinality(Holders(l.account)) \in Nat
  BY HoldersFinite DEF Holders
<1>6. Cardinality(Holders(l.account)') = Cardinality(Holders(l.account)) + 1
  BY <1>2, <1>5, FS_AddElement
<1>7. InFlightIsLeases'
  <2>. SUFFICES ASSUME NEW b \in Accounts
                PROVE  inFlight'[b] = Cardinality(Holders(b)')
    BY DEF InFlightIsLeases
  <2>1. CASE b = l.account
    BY <1>1, <1>6, <2>1 DEF IInv, InFlightIsLeases, TypeOK
  <2>2. CASE b # l.account
    BY <1>1, <1>2, <2>2 DEF IInv, InFlightIsLeases, TypeOK
  <2>. QED
    BY <2>1, <2>2
<1>8. Cardinality(Holders(l.account)') <= l.limit
  BY <1>1, <1>3, <1>5, <1>6 DEF IInv, InFlightIsLeases, TypeOK
<1>9. LimitInv'
  <2>. SUFFICES ASSUME NEW b \in Accounts, NEW m \in Limits
                PROVE  Cardinality(Within(b, m)') <= m
    BY DEF LimitInv
  <2>0. m \in Nat
    BY SchedulerAssumption
  <2>1. CASE b = l.account /\ l.limit <= m
    <3>1. Within(b, m)' \subseteq Holders(l.account)'
      BY <2>1 DEF Within
    <3>2. IsFiniteSet(Holders(l.account)') /\ Cardinality(Holders(l.account)') \in Nat
      BY <1>2, <1>5, FS_AddElement, FS_CardinalityType
    <3>3. Cardinality(Within(b, m)') <= Cardinality(Holders(l.account)')
      BY <3>1, <3>2, FS_Subset
    <3>4. Cardinality(Within(b, m)') \in Nat
      BY <3>1, <3>2, FS_Subset, FS_CardinalityType
    <3>. QED
      BY <1>3, <1>8, <2>0, <2>1, <3>2, <3>3, <3>4
  <2>2. CASE ~(b = l.account /\ l.limit <= m)
    <3>1. Within(b, m)' = Within(b, m)
      <4>1. CASE b # l.account
        BY <1>2, <4>1 DEF Within, Holders
      <4>2. CASE b = l.account
        BY <1>2, <2>2, <4>2 DEF Within, Holders
      <4>. QED
        BY <4>1, <4>2
    <3>. QED
      BY <3>1 DEF IInv, LimitInv
  <2>. QED
    BY <2>1, <2>2
<1>. QED
  BY <1>4, <1>7, <1>9 DEF IInv

(***************************************************************************)
(* A release takes its request out of one set of holders.                  *)
(***************************************************************************)
LEMMA ReleaseKeepsInvariant ==
    ASSUME IInv, NEW p \in Requests, Release(p), TypeOK'
    PROVE  IInv'
<1>0. lease[p] \in Leases /\ lease[p] # NoLease
  BY HeldLease, SchedulerAssumption DEF Release, IInv, Leases
<1>1. PICK a \in Accounts : a = lease[p].account
  BY <1>0 DEF Leases
<1>2. \A q \in Requests : lease'[q] = IF q = p THEN NoLease ELSE lease[q]
  BY DEF Release, IInv, TypeOK
<1>3. Holders(a)' = Holders(a) \ {p} /\ p \in Holders(a)
  BY <1>0, <1>1, <1>2 DEF Holders
<1>4. \A b \in Accounts : b # a => Holders(b)' = Holders(b)
  BY <1>0, <1>1, <1>2 DEF Holders
<1>5. LeaseFollowsPhase'
  BY <1>2 DEF Release, IInv, LeaseFollowsPhase, TypeOK
<1>6. InFlightIsLeases'
  <2>1. IsFiniteSet(Holders(a)) /\ Cardinality(Holders(a)) \in Nat
    BY HoldersFinite DEF Holders
  <2>2. Cardinality(Holders(a)') = Cardinality(Holders(a)) - 1
    BY <1>3, <2>1, FS_RemoveElement
  <2>3. Cardinality(Holders(a)) > 0
    BY <1>3, <2>1, FS_EmptySet
  <2>. SUFFICES ASSUME NEW b \in Accounts
                PROVE  inFlight'[b] = Cardinality(Holders(b)')
    BY DEF InFlightIsLeases
  <2>4. CASE b = a
    BY <1>1, <2>2, <2>3, <2>4 DEF Release, IInv, InFlightIsLeases, TypeOK
  <2>5. CASE b # a
    BY <1>1, <1>4, <2>5 DEF Release, IInv, InFlightIsLeases, TypeOK
  <2>. QED
    BY <2>4, <2>5
<1>7. LimitInv'
  <2>. SUFFICES ASSUME NEW b \in Accounts, NEW m \in Limits
                PROVE  Cardinality(Within(b, m)') <= m
    BY DEF LimitInv
  <2>1. m \in Nat
    BY SchedulerAssumption
  <2>2. Within(b, m)' \subseteq Within(b, m)
    BY <1>2 DEF Within, Holders
  <2>3. IsFiniteSet(Within(b, m)) /\ Cardinality(Within(b, m)) \in Nat
    BY HoldersFinite DEF Within, Holders
  <2>4. Cardinality(Within(b, m)') <= Cardinality(Within(b, m))
    BY <2>2, <2>3, FS_Subset
  <2>5. Cardinality(Within(b, m)') \in Nat
    BY <2>2, <2>3, FS_Subset, FS_CardinalityType
  <2>6. Cardinality(Within(b, m)) <= m
    BY DEF IInv, LimitInv
  <2>. QED
    BY <2>1, <2>3, <2>4, <2>5, <2>6
<1>. QED
  BY <1>5, <1>6, <1>7 DEF IInv

\* After a start of the process.
Empty ==
    /\ inFlight = [a \in Accounts |-> 0]
    /\ phase = [p \in Requests |-> "idle"]
    /\ lease = [p \in Requests |-> NoLease]

LEMMA EmptyInvariant == TypeOK /\ Empty => IInv
<1>. SUFFICES ASSUME TypeOK, Empty PROVE IInv
  OBVIOUS
<1>. USE DEF Empty
<1>1. \A a \in Accounts : Holders(a) = {}
  BY DEF Holders
<1>2. \A a \in Accounts, m \in Limits : Within(a, m) = {} /\ m \in Nat
  BY <1>1, SchedulerAssumption DEF Within
<1>3. LimitInv
  BY <1>2, FS_EmptySet DEF LimitInv
<1>. QED
  BY <1>1, <1>3, FS_EmptySet DEF IInv, LeaseFollowsPhase, InFlightIsLeases
-----------------------------------------------------------------------------
(***************************************************************************)
(* The theorems.                                                           *)
(***************************************************************************)
LEMMA InitInvariant == Init => IInv
<1>. SUFFICES ASSUME Init PROVE IInv
  OBVIOUS
<1>1. TypeOK
  BY InitType
<1>. QED
  BY <1>1, EmptyInvariant DEF Init, Empty

LEMMA NextType ==
    ASSUME TypeOK, LeaseFollowsPhase, [Next]_vars
    PROVE  TypeOK'
<1>1. ASSUME NEW p \in Requests, Record(p) PROVE lease[p] \in Leases
  <2>1. phase[p] \in {"leased", "marked"}
    BY <1>1
    DEF Record, RecordSuccess, RecordReset, RecordBackoff, Settle, MarkReauth,
        RecordRuntimeError, Unrecorded
  <2>. QED
    BY <2>1, HeldLease
<1>2. ASSUME NEW p \in Requests, Release(p) PROVE lease[p] \in Leases
  BY <1>2, HeldLease DEF Release
<1>3. CASE UNCHANGED vars
  BY <1>3 DEF vars, TypeOK, accountVars, runtimeVars, planVars
<1>. QED
  BY <1>1, <1>2, <1>3, PlanType, RecordType, ReleaseType, AdministerType, RestartType,
     TickType DEF Next

LEMMA NextInvariant == IInv /\ [Next]_vars => IInv'
<1>. SUFFICES ASSUME IInv, [Next]_vars PROVE IInv'
  OBVIOUS
<1>1. TypeOK'
  BY NextType DEF IInv
<1>2. CASE Quiet
  BY <1>1, <1>2 DEF Quiet, IInv, InFlightIsLeases, LimitInv, Within, Holders
<1>3. ASSUME NEW p \in Requests, NEW i \in eligible[p], Grant(p, i) PROVE IInv'
  BY <1>1, <1>3, GrantKeepsInvariant
<1>4. ASSUME NEW p \in Requests, Release(p) PROVE IInv'
  BY <1>1, <1>4, ReleaseKeepsInvariant
<1>5. CASE Restart
  <2>1. Empty'
    BY <1>5 DEF Restart, Empty
  <2>. QED
    BY <1>1, <2>1, EmptyInvariant, PTL
<1>. QED
  BY <1>2, <1>3, <1>4, <1>5, LeaseSteps DEF IInv

(***************************************************************************)
(* The inductive invariant: types, leases told by phases, counters equal   *)
(* to leases, limits.                                                      *)
(***************************************************************************)
THEOREM Invariance == Spec => []IInv
BY InitInvariant, NextInvariant, PTL DEF Spec

(***************************************************************************)
(* Every variable keeps its type through every step of requests,           *)
(* administrator, refresher and restarts.                                  *)
(***************************************************************************)
THEOREM TypeCorrect == Spec => []TypeOK
<1>1. IInv => TypeOK
  BY DEF IInv
<1>. QED
  BY <1>1, Invariance, PTL

(***************************************************************************)
(* No slot leaks and none is returned twice, for any number of requests    *)
(* and accounts (Plan, Lease.Release).                                     *)
(***************************************************************************)
THEOREM CountersExact == Spec => []InFlightIsLeases
<1>1. IInv => InFlightIsLeases
  BY DEF IInv
<1>. QED
  BY <1>1, Invariance, PTL

(***************************************************************************)
(* No account serves more requests than the limit it served them under.    *)
(***************************************************************************)
THEOREM LimitSafe == Spec => []LimitRespected
<1>1. IInv => LimitRespected
  <2>. SUFFICES ASSUME IInv, NEW p \in Requests, lease[p] # NoLease
                PROVE  Cardinality(Within(lease[p].account, lease[p].limit)) <= lease[p].limit
    BY DEF LimitRespected, Within
  <2>1. lease[p].account \in Accounts /\ lease[p].limit \in Limits
    BY DEF IInv, TypeOK, Leases
  <2>. QED
    BY <2>1 DEF IInv, LimitInv
<1>. QED
  BY <1>1, Invariance, PTL

(***************************************************************************)
(* A scheduler that compares counters with limits from an old snapshot     *)
(* implements the pool that counts the leases themselves.                  *)
(***************************************************************************)
THEOREM SchedulerImplementsPool == Spec => ImplementsPool
<1>1. Init => Pool!Init
  BY DEF Init, Pool!Init
<1>2. IInv /\ [Next]_vars => [Pool!Next]_lease
  <2>. SUFFICES ASSUME IInv, [Next]_vars PROVE [Pool!Next]_lease
    OBVIOUS
  <2>1. CASE Quiet
    BY <2>1 DEF Quiet
  <2>2. ASSUME NEW p \in Requests, NEW i \in eligible[p], Grant(p, i)
        PROVE  Pool!Next
    <3>1. PICK l \in Leases : /\ lease[p] = NoLease
                              /\ lease' = [lease EXCEPT ![p] = l]
                              /\ inFlight[l.account] < l.limit
      BY <2>2, GrantFacts
    <3>2. inFlight[l.account] = Cardinality(Holders(l.account))
      BY DEF IInv, InFlightIsLeases, Leases
    <3>3. Pool!Holders(l.account) = Holders(l.account)
      BY DEF Pool!Holders, Holders
    <3>4. Pool!Cardinality(Holders(l.account)) = Cardinality(Holders(l.account))
      BY DEF Pool!Cardinality, Cardinality
    <3>5. Pool!Acquire(p, l)
      BY <3>1, <3>2, <3>3, <3>4 DEF Pool!Acquire
    <3>. QED
      BY <3>5 DEF Pool!Next, Pool!Leases, Leases
  <2>3. ASSUME NEW p \in Requests, Release(p) PROVE Pool!Next
    <3>1. Pool!Release(p)
      BY <2>3 DEF Release, Pool!Release, IInv, LeaseFollowsPhase
    <3>. QED
      BY <3>1 DEF Pool!Next
  <2>4. CASE Restart
    BY <2>4 DEF Restart, Pool!Next, Pool!Crash
  <2>. QED
    BY <2>1, <2>2, <2>3, <2>4, LeaseSteps DEF IInv
<1>. QED
  BY <1>1, <1>2, Invariance, PTL DEF Spec, ImplementsPool, Pool!Spec
-----------------------------------------------------------------------------
(***************************************************************************)
(* Rest periods.                                                           *)
(***************************************************************************)
\* Neither the doubling nor the clamp passes its maximum.
LEMMA CapBelowMaximum ==
    ASSUME NEW base \in Nat, NEW maximum \in Nat, NEW failures \in Nat
    PROVE  /\ BackoffCap(base, maximum, failures) <= maximum
           /\ BackoffCap(base, maximum, failures) \in Int
<1>1. base * 2^(failures - 1) \in Int
  OBVIOUS
<1>. QED
  BY <1>1 DEF BackoffCap

LEMMA ClampBelowMaximum ==
    ASSUME NEW d \in Nat, NEW low \in Nat, NEW high \in Nat, low <= high
    PROVE  Clamp(d, low, high) \in low..high
BY DEF Clamp

\* A failure of a request draws its cooldown below the policy's maximum.
LEMMA BackoffRests ==
    ASSUME TypeOK, RestBounded, NEW p \in Requests, lease[p] \in Leases, NEW outcome,
           NEW backoff \in {RateBackoff, NetworkBackoff}, RecordBackoff(p, outcome, backoff)
    PROVE  RestBounded'
<1>. DEFINE a == lease[p].account
            cap == BackoffCap(backoff.base, backoff.maximum, streak[a] + 1)
<1>1. a \in Accounts
  BY DEF Leases
<1>2. /\ backoff.base \in Nat /\ backoff.maximum \in Nat
      /\ backoff.maximum <= RateBackoff.maximum /\ RateBackoff.maximum \in Nat
  BY SchedulerAssumption
<1>3. streak[a] + 1 \in Nat
  BY <1>1 DEF TypeOK
<1>4. cap <= backoff.maximum /\ cap \in Int
  BY <1>2, <1>3, CapBelowMaximum, Zenon
<1>. HIDE DEF cap
<1>5. PICK jitter \in 0..(cap - 1) : cooldown' = [cooldown EXCEPT ![a] = now + jitter]
  BY DEF RecordBackoff, cap
<1>6. now' = now /\ quota' = quota
  BY DEF RecordBackoff, Settle
<1>7. now \in Nat
  BY DEF TypeOK
<1>8. now + jitter < now + RateBackoff.maximum
  BY <1>2, <1>4, <1>5, <1>7
<1>. QED
  BY <1>1, <1>5, <1>6, <1>8 DEF RestBounded, TypeOK

LEMMA RestStep ==
    ASSUME TypeOK, LeaseFollowsPhase, RestBounded, [Next]_vars
    PROVE  RestBounded'
<1>. DEFINE Same == UNCHANGED <<now, cooldown, quota>>
<1>0. /\ now \in Nat /\ RateBackoff.maximum \in Nat /\ QuotaMax \in Nat
      /\ cooldown \in [Accounts -> Nat] /\ quota \in [Accounts -> Nat]
  BY SchedulerAssumption DEF TypeOK
<1>1. ASSUME Same PROVE RestBounded'
  BY <1>1 DEF RestBounded
<1>2. ASSUME NEW p \in Requests, Plan(p) \/ Release(p) PROVE Same
  BY <1>2
  DEF Plan, Query, Inspect, NoneEligible, Saturated, GiveUp, Grant, Release, runtimeVars
<1>3. ASSUME NEW p \in Requests, Record(p) PROVE RestBounded'
  <2>0. lease[p] \in Leases
    <3>1. phase[p] \in {"leased", "marked"}
      BY <1>3
      DEF Record, RecordSuccess, RecordReset, RecordBackoff, Settle, MarkReauth,
          RecordRuntimeError, Unrecorded
    <3>. QED
      BY <3>1, HeldLease
  <2>. DEFINE a == lease[p].account
  <2>1. a \in Accounts
    BY <2>0 DEF Leases
  <2>2. CASE RecordSuccess(p)
    <3>1. \A b \in Accounts : cooldown'[b] = IF b = a THEN NoTime ELSE cooldown[b]
      BY <1>0, <2>1, <2>2 DEF RecordSuccess
    <3>2. now' = now /\ quota' = quota /\ now > 0
      BY <2>2 DEF RecordSuccess, Settle, TypeOK
    <3>. QED
      BY <1>0, <3>1, <3>2 DEF RestBounded, NoTime
  <2>3. ASSUME NEW delay \in Resets, RecordReset(p, delay) PROVE RestBounded'
    <3>0. delay \in Nat /\ QuotaMin \in 1..QuotaMax /\ QuotaMax \in Nat
      BY SchedulerAssumption
    <3>1. Clamp(delay, QuotaMin, QuotaMax) \in QuotaMin..QuotaMax
      BY <3>0, ClampBelowMaximum
    <3>2. \A b \in Accounts : quota'[b] = IF b = a THEN now + Clamp(delay, QuotaMin, QuotaMax)
                                                   ELSE quota[b]
      BY <1>0, <2>1, <2>3 DEF RecordReset
    <3>3. now' = now /\ cooldown' = cooldown
      BY <2>3 DEF RecordReset, Settle
    <3>. QED
      BY <1>0, <3>0, <3>1, <3>2, <3>3 DEF RestBounded
  <2>4. CASE RecordBackoff(p, "rate_limited", RateBackoff)
    BY <2>0, <2>4, BackoffRests
  <2>5. CASE RecordBackoff(p, "network", NetworkBackoff)
    BY <2>0, <2>5, BackoffRests
  <2>6. CASE MarkReauth(p) \/ RecordRuntimeError(p) \/ Unrecorded(p)
    BY <1>1, <2>6 DEF MarkReauth, RecordRuntimeError, Unrecorded, runtimeVars
  <2>. QED
    BY <1>3, <2>2, <2>3, <2>4, <2>5, <2>6 DEF Record
<1>4. ASSUME NEW a \in Accounts, Administer(a) PROVE RestBounded'
  <2>1. ASSUME Activate(a) PROVE RestBounded'
    <3>1. \A b \in Accounts : /\ cooldown'[b] = IF b = a THEN NoTime ELSE cooldown[b]
                              /\ quota'[b] = IF b = a THEN NoTime ELSE quota[b]
      BY <1>0, <2>1 DEF Activate
    <3>2. now' = now /\ now > 0
      BY <2>1 DEF Activate, TypeOK
    <3>. QED
      BY <1>0, <3>1, <3>2 DEF RestBounded, NoTime
  <2>2. Activate(a) \/ Same
    BY <1>4
    DEF Administer, UpdateAccount, BeginAccountValidation, FinishAccountValidation,
        CompleteOAuthAccount, RefreshRefused, runtimeVars
  <2>. QED
    BY <1>1, <2>1, <2>2
<1>5. CASE Restart
  BY <1>1, <1>5 DEF Restart, runtimeVars
<1>6. CASE Tick
  BY <1>0, <1>6 DEF Tick, runtimeVars, RestBounded
<1>7. CASE UNCHANGED vars
  BY <1>1, <1>7 DEF vars, runtimeVars
<1>. QED
  BY <1>1, <1>2, <1>3, <1>4, <1>5, <1>6, <1>7 DEF Next

(***************************************************************************)
(* Every step of SchedulerHistory is a step of Scheduler, so what holds of *)
(* Scheduler holds of it; and of both, that rests are bounded.             *)
(***************************************************************************)
LEMMA HistoryStep == [HistoryNext]_hvars => [Next]_vars
<1>. SUFFICES ASSUME [HistoryNext]_hvars PROVE [Next]_vars
  OBVIOUS
<1>1. ASSUME NEW p \in Requests, PlanH(p) PROVE Plan(p)
  BY <1>1 DEF PlanH, Plan
<1>2. ASSUME NEW p \in Requests, RecordH(p) PROVE Record(p)
  BY <1>2 DEF RecordH, Record
<1>3. ASSUME NEW a \in Accounts, AdministerH(a) PROVE Administer(a)
  BY <1>3 DEF AdministerH, Administer
<1>. QED
  BY <1>1, <1>2, <1>3 DEF HistoryNext, hvars, Next

(***************************************************************************)
(* The history only watches: a scheduler with it is a scheduler, so what   *)
(* is proved of Scheduler (Plan, Release, Record...) holds of every        *)
(* behaviour the histories speak of.                                       *)
(***************************************************************************)
THEOREM HistoryImplementsScheduler == HistorySpec => Spec
<1>1. HistoryInit => Init
  BY DEF HistoryInit
<1>. QED
  BY <1>1, HistoryStep, PTL DEF HistorySpec, Spec

LEMMA HistoryInit_Rests == Init => RestBounded
BY SchedulerAssumption DEF Init, RestBounded, NoTime

(***************************************************************************)
(* The invariant of Scheduler, with bounded rests, along a history.        *)
(***************************************************************************)
THEOREM HistoryInvariance == HistorySpec => [](IInv /\ RestBounded)
<1>1. HistoryInit => IInv /\ RestBounded
  BY InitInvariant, HistoryInit_Rests DEF HistoryInit
<1>2. IInv /\ RestBounded /\ [HistoryNext]_hvars => (IInv /\ RestBounded)'
  BY HistoryStep, NextInvariant, RestStep DEF IInv
<1>. QED
  BY <1>1, <1>2, PTL DEF HistorySpec

(***************************************************************************)
(* No rest outlasts its policy, whatever failures and successes meet on an *)
(* account (recordBackoff, clamp).                                         *)
(***************************************************************************)
THEOREM RestsEnd == HistorySpec => []RestBounded
BY HistoryInvariance, PTL
-----------------------------------------------------------------------------
(***************************************************************************)
(* Pledges.  While an account is active its pledge is written in its quota *)
(* time; a snapshot of an active account carries the pledge known when it  *)
(* was taken; and what passes the filter rests no longer.                  *)
(***************************************************************************)
PledgeTypes == /\ pledge \in [Accounts -> Nat]
               /\ known \in [Requests -> [Accounts -> Nat]]

PledgedRest == \A a \in Accounts : status[a] = "active" => pledge[a] <= quota[a]

SnapshotKnows(p) ==
    \A i \in DOMAIN rows[p] :
        /\ rows[p][i].quota \in Nat
        /\ rows[p][i].status = "active" => known[p][rows[p][i].account] <= rows[p][i].quota

EligibleRested(p) ==
    \A i \in eligible[p] : rows[p][i].status = "active" /\ rows[p][i].quota <= now

PledgeInv ==
    /\ PledgeTypes
    /\ PledgedRest
    /\ \A p \in Requests : SnapshotKnows(p) /\ EligibleRested(p)

\* A nonempty set of naturals has a least element.
Before == {ss \in Nat \X Nat : ss[1] < ss[2]}

LEMMA LeastIsLeast ==
    ASSUME NEW T, T \subseteq Nat, T # {}
    PROVE  Least(T) \in T /\ \A m \in T : Least(T) <= m
<1>1. IsWellFoundedOn(Before, Nat)
  <2>1. Before = OpToRel(<, Nat)
    BY Zenon DEF OpToRel, Before
  <2>. QED
    BY <2>1, NatLessThanWellFounded, Zenon
<1>2. PICK x \in T : \A y \in T : <<y, x>> \notin Before
  BY <1>1, WFMin
<1>3. ASSUME NEW y \in T, y < x PROVE FALSE
  <2>1. <<y, x>> \in Before
    BY <1>3 DEF Before
  <2>. QED
    BY <1>2, <2>1
<1>4. \A y \in T : x <= y
  BY <1>2, <1>3
<1>. QED
  BY <1>4 DEF Least

\* The chain of objections: eight of them, each with a reason to give.
LEMMA ObjectionChain ==
    ASSUME NEW row, NEW request, NEW t
    PROVE  /\ DOMAIN Objections(row, request, t) = 1..8
           /\ Objections(row, request, t)[4].holds = (row.status # "active")
           /\ Objections(row, request, t)[7].holds = (row.quota > t)
BY DEF Objections

LEMMA ObjectionReasons ==
    ASSUME NEW row, NEW request, NEW t, NEW i \in 1..8
    PROVE  Objections(row, request, t)[i].reason # ""
<1>. DEFINE reason(k) == Objections(row, request, t)[k].reason
<1>1. reason(1) # "" /\ reason(2) # "" /\ reason(3) # "" /\ reason(4) # ""
  BY DEF Objections
<1>2. reason(5) # "" /\ reason(6) # "" /\ reason(7) # "" /\ reason(8) # ""
  BY DEF Objections
<1>3. i = 1 \/ i = 2 \/ i = 3 \/ i = 4 \/ i = 5 \/ i = 6 \/ i = 7 \/ i = 8
  OBVIOUS
<1>. HIDE DEF reason
<1>4. reason(i) # ""
  BY <1>1, <1>2, <1>3, Zenon
<1>. QED
  BY <1>4 DEF reason

\* The reason of a row is that of its first objection that holds.
LEMMA FilterNamesFirst ==
    ASSUME NEW row, NEW request, NEW t
    PROVE  LET chain == Objections(row, request, t)
               raised == {i \in 1..8 : chain[i].holds}
           IN  /\ raised = {} => Filter(row, request, t) = ""
               /\ raised # {} => /\ Least(raised) \in raised
                                 /\ Filter(row, request, t) = chain[Least(raised)].reason
<1>. DEFINE chain == Objections(row, request, t)
            raised == {i \in 1..8 : chain[i].holds}
<1>1. DOMAIN chain = 1..8
  BY ObjectionChain
<1>2. raised \subseteq Nat
  OBVIOUS
<1>3. Filter(row, request, t) = IF raised = {} THEN "" ELSE chain[Least(raised)].reason
  BY <1>1, Zenon DEF Filter
<1>. HIDE DEF chain, raised
<1>4. raised # {} => Least(raised) \in raised
  BY <1>2, LeastIsLeast
<1>5. /\ raised = {} => Filter(row, request, t) = ""
      /\ raised # {} => /\ Least(raised) \in raised
                        /\ Filter(row, request, t) = chain[Least(raised)].reason
  BY <1>3, <1>4, Zenon
<1>. QED
  BY <1>5, Zenon DEF chain, raised

\* A row without a reason has no objection that holds.
LEMMA FilterPasses ==
    ASSUME NEW row, NEW request, NEW t
    PROVE  Filter(row, request, t) = "" => row.status = "active" /\ ~(row.quota > t)
<1>. DEFINE chain == Objections(row, request, t)
            raised == {i \in 1..8 : chain[i].holds}
<1>1. chain[4].holds = (row.status # "active") /\ chain[7].holds = (row.quota > t)
  BY ObjectionChain, Zenon
<1>2. Filter(row, request, t) = "" => raised = {}
  <2>1. \A i \in 1..8 : chain[i].reason # ""
    BY ObjectionReasons, Zenon
  <2>. QED
    BY <2>1, FilterNamesFirst, Zenon
<1>3. 4 \in 1..8 /\ 7 \in 1..8
  OBVIOUS
<1>. QED
  BY <1>1, <1>2, <1>3, Zenon

LEMMA PledgeInit == HistoryInit => PledgeInv
<1>. SUFFICES ASSUME HistoryInit PROVE PledgeInv
  OBVIOUS
<1>1. PledgeTypes /\ PledgedRest
  BY DEF HistoryInit, Init, PledgeTypes, PledgedRest, NoPledges, NoTime
<1>2. \A p \in Requests : DOMAIN rows[p] = {} /\ eligible[p] = {}
  BY DEF HistoryInit, Init
<1>. QED
  BY <1>1, <1>2 DEF PledgeInv, SnapshotKnows, EligibleRested

\* A snapshot copies what the database says of each account.
LEMMA SnapshotCopies ==
    ASSUME TypeOK, PledgeTypes, PledgedRest, NEW r \in Routes
    PROVE  LET copy == [i \in DOMAIN CandidatesOf[r] |-> RowOf(CandidatesOf[r][i])]
           IN  \A i \in DOMAIN copy :
                  /\ copy[i].quota \in Nat
                  /\ copy[i].status = "active" => PledgesOf(r)[copy[i].account] <= copy[i].quota
<1>1. CandidatesOf[r] \in Seq(Accounts)
  BY SchedulerAssumption
<1>2. \A i \in DOMAIN CandidatesOf[r] : CandidatesOf[r][i] \in Accounts
  BY <1>1
<1>3. \A a \in Accounts : /\ RowOf(a).account = a
                          /\ RowOf(a).quota = quota[a] /\ RowOf(a).status = status[a]
  BY DEF RowOf
<1>4. \A i \in DOMAIN CandidatesOf[r] :
        PledgesOf(r)[CandidatesOf[r][i]] = pledge[CandidatesOf[r][i]]
  BY <1>2 DEF PledgesOf
<1>. QED
  BY <1>2, <1>3, <1>4 DEF TypeOK, PledgedRest

\* Steps that leave the pledges, the accounts and the plans alone.
LEMMA PledgeFrame ==
    ASSUME TypeOK, PledgeInv,
           UNCHANGED <<pledge, known, rows, eligible, quota>>, now' \in Nat, now <= now',
           \A a \in Accounts : status'[a] = "active" => status[a] = "active"
    PROVE  PledgeInv'
<1>1. PledgeTypes' /\ PledgedRest'
  BY DEF PledgeInv, PledgeTypes, PledgedRest
<1>2. \A p \in Requests : SnapshotKnows(p)'
  BY DEF PledgeInv, SnapshotKnows
<1>3. ASSUME NEW p \in Requests PROVE EligibleRested(p)'
  <2>1. \A i \in eligible[p] : rows[p][i].quota \in Nat
    BY DEF TypeOK, PledgeInv, SnapshotKnows
  <2>2. now \in Nat
    BY DEF TypeOK
  <2>. QED
    BY <2>1, <2>2 DEF PledgeInv, EligibleRested
<1>. QED
  BY <1>1, <1>2, <1>3 DEF PledgeInv

LEMMA PledgePlan ==
    ASSUME TypeOK, PledgeInv, NEW p \in Requests, PlanH(p)
    PROVE  PledgeInv'
<1>0. /\ DOMAIN rows = Requests /\ DOMAIN eligible = Requests
      /\ \A q \in Requests : eligible[q] \subseteq DOMAIN rows[q]
  BY DEF TypeOK
<1>1. UNCHANGED <<now, status, quota, pledge>>
  BY DEF PlanH, Query, Inspect, NoneEligible, Saturated, GiveUp, Grant, accountVars, runtimeVars,
         history
<1>2. PledgeTypes' /\ PledgedRest'
  <2>1. known' \in [Requests -> [Accounts -> Nat]]
    <3>1. \A r \in Routes : PledgesOf(r) \in [Accounts -> Nat]
      BY DEF PledgesOf, PledgeInv, PledgeTypes, NoTime
    <3>. QED
      BY <3>1 DEF PlanH, PledgeInv, PledgeTypes, NoPledges, NoTime, history
  <2>. QED
    BY <1>1, <2>1 DEF PledgeInv, PledgeTypes, PledgedRest
<1>3. \A q \in Requests : q # p => UNCHANGED <<rows[q], eligible[q], known[q]>>
  BY DEF PlanH, Query, Inspect, NoneEligible, Saturated, GiveUp, Grant, PledgeInv,
         PledgeTypes, TypeOK, history
<1>4. SnapshotKnows(p)' /\ EligibleRested(p)'
  <2>1. ASSUME NEW r \in Routes, Query(p, r), known' = [known EXCEPT ![p] = PledgesOf(r)]
        PROVE  SnapshotKnows(p)' /\ eligible'[p] = {}
    <3>. DEFINE copy == [i \in DOMAIN CandidatesOf[r] |-> RowOf(CandidatesOf[r][i])]
    <3>1. \A i \in DOMAIN copy :
             /\ copy[i].quota \in Nat
             /\ copy[i].status = "active" => PledgesOf(r)[copy[i].account] <= copy[i].quota
      BY SnapshotCopies DEF PledgeInv
    <3>2. rows' = [rows EXCEPT ![p] = copy]
      BY <2>1 DEF Query
    <3>. HIDE DEF copy
    <3>3. rows'[p] = copy /\ known'[p] = PledgesOf(r)
      BY <1>0, <2>1, <3>2 DEF PledgeInv, PledgeTypes
    <3>4. eligible'[p] = {}
      BY <2>1 DEF Query, TypeOK
    <3>. QED
      BY <3>1, <3>3, <3>4 DEF SnapshotKnows
  <2>2. ASSUME Inspect(p), UNCHANGED history
        PROVE  SnapshotKnows(p)' /\ EligibleRested(p)'
    <3>1. UNCHANGED <<rows, known, now>>
      BY <2>2 DEF Inspect, history
    <3>2. eligible'[p] = EligibleRows(rows[p], Request, now)
      BY <1>0, <2>2 DEF Inspect
    <3>3. \A i \in EligibleRows(rows[p], Request, now) :
             i \in DOMAIN rows[p] /\ Filter(rows[p][i], Request, now) = ""
      BY Zenon DEF EligibleRows
    <3>4. \A i \in eligible'[p] : /\ i \in DOMAIN rows[p]
                                  /\ rows[p][i].status = "active" /\ ~(rows[p][i].quota > now)
      BY <3>2, <3>3, FilterPasses, Zenon
    <3>5. SnapshotKnows(p)
      BY DEF PledgeInv
    <3>6. now \in Nat
      BY DEF TypeOK
    <3>. QED
      BY <3>1, <3>4, <3>5, <3>6 DEF SnapshotKnows, EligibleRested
  <2>3. ASSUME GiveUp(p) \/ \E i \in eligible[p] : Grant(p, i)
        PROVE  DOMAIN rows'[p] = {} /\ eligible'[p] = {}
    <3>1. rows' = [rows EXCEPT ![p] = <<>>] /\ eligible' = [eligible EXCEPT ![p] = {}]
      BY <2>3 DEF GiveUp, Grant
    <3>. QED
      BY <1>0, <3>1
  <2>. QED
    BY <2>1, <2>2, <2>3 DEF PlanH, NoneEligible, Saturated, SnapshotKnows, EligibleRested
<1>5. ASSUME NEW q \in Requests, q # p
      PROVE  SnapshotKnows(q)' /\ EligibleRested(q)'
  BY <1>1, <1>3, <1>5 DEF PledgeInv, SnapshotKnows, EligibleRested
<1>. QED
  BY <1>2, <1>4, <1>5 DEF PledgeInv

\* A reset is written in both places; a mark takes the account out of use.
LEMMA PledgeRecord ==
    ASSUME TypeOK, TypeOK', LeaseFollowsPhase, RestBounded, PledgeInv,
           NEW p \in Requests, RecordH(p)
    PROVE  PledgeInv'
<1>. DEFINE a == lease[p].account
<1>1. a \in Accounts
  <2>1. phase[p] \in {"leased", "marked"}
    BY DEF RecordH, RecordSuccess, RecordReset, RecordBackoff, Settle, MarkReauth,
           RecordRuntimeError, Unrecorded
  <2>. QED
    BY <2>1, HeldLease DEF Leases
<1>2. UNCHANGED <<now, known, rows, eligible>>
  BY DEF RecordH, RecordSuccess, RecordReset, RecordBackoff, Settle, MarkReauth,
         RecordRuntimeError, Unrecorded, planVars, history
<1>3. now \in Nat
  BY DEF TypeOK
<1>4. ASSUME UNCHANGED <<pledge, quota, status>> PROVE PledgeInv'
  BY <1>2, <1>3, <1>4, PledgeFrame
<1>5. \A q \in Requests : SnapshotKnows(q)' /\ EligibleRested(q)'
  BY <1>2 DEF PledgeInv, SnapshotKnows, EligibleRested
<1>6. ASSUME NEW delay \in Resets, RecordReset(p, delay),
             pledge' = [pledge EXCEPT ![a] = IF @ = Forever THEN @
                                             ELSE now + Clamp(delay, QuotaMin, QuotaMax)]
      PROVE  PledgeInv'
  <2>. DEFINE until == now + Clamp(delay, QuotaMin, QuotaMax)
  <2>1. until \in Nat
    <3>1. delay \in Nat /\ QuotaMin \in Nat /\ QuotaMax \in Nat
      BY SchedulerAssumption
    <3>2. Clamp(delay, QuotaMin, QuotaMax) \in Nat
      BY <3>1, ClampIsNat
    <3>. QED
      BY <1>3, <3>2
  <2>2. status' = status /\ quota' = [quota EXCEPT ![a] = until]
    BY <1>6 DEF RecordReset, Settle, accountVars
  <2>. HIDE DEF until
  <2>3. \A b \in Accounts : /\ quota'[b] = IF b = a THEN until ELSE quota[b]
                            /\ pledge'[b] =
                                 IF b # a \/ pledge[b] = Forever THEN pledge[b] ELSE until
    BY <1>1, <1>6, <2>2 DEF until, TypeOK, PledgeInv, PledgeTypes
  <2>4. pledge' \in [Accounts -> Nat]
    BY <1>1, <1>6, <2>1 DEF until, PledgeInv, PledgeTypes
  <2>5. status[a] = "active" => pledge[a] # Forever
    <3>1. /\ pledge[a] \in Nat /\ quota[a] \in Nat /\ QuotaMax \in Nat /\ MaxTime \in Nat
          /\ now <= MaxTime
      BY <1>1, SchedulerAssumption DEF TypeOK, PledgeInv, PledgeTypes
    <3>2. quota[a] <= now + QuotaMax
      BY <1>1 DEF RestBounded
    <3>3. status[a] = "active" => pledge[a] <= quota[a]
      BY <1>1 DEF PledgeInv, PledgedRest
    <3>. QED
      BY <1>3, <3>1, <3>2, <3>3 DEF Forever
  <2>6. PledgedRest'
    BY <2>1, <2>2, <2>3, <2>5 DEF PledgeInv, PledgedRest
  <2>. QED
    BY <1>2, <1>5, <2>4, <2>6 DEF PledgeInv, PledgeTypes
<1>7. ASSUME MarkReauth(p),
             pledge' = [pledge EXCEPT ![a] = IF status[a] = "active" THEN Forever ELSE @]
      PROVE  PledgeInv'
  <2>1. Forever \in Nat
    BY SchedulerAssumption DEF Forever
  <2>2. pledge' \in [Accounts -> Nat]
    BY <1>1, <1>7, <2>1 DEF PledgeInv, PledgeTypes
  <2>3. quota' = quota /\ \A b \in Accounts : status'[b] = "active" =>
           status[b] = "active" /\ pledge'[b] = pledge[b]
    BY <1>1, <1>7 DEF MarkReauth, runtimeVars, TypeOK, PledgeInv, PledgeTypes
  <2>. QED
    BY <1>2, <1>5, <2>2, <2>3 DEF PledgeInv, PledgeTypes, PledgedRest
<1>8. \/ UNCHANGED <<pledge, quota, status>>
      \/ \E delay \in Resets :
            /\ RecordReset(p, delay)
            /\ pledge' = [pledge EXCEPT ![a] = IF @ = Forever THEN @
                                               ELSE now + Clamp(delay, QuotaMin, QuotaMax)]
      \/ /\ MarkReauth(p)
         /\ pledge' = [pledge EXCEPT ![a] = IF status[a] = "active" THEN Forever ELSE @]
  BY DEF RecordH, RecordSuccess, RecordBackoff, Settle, RecordRuntimeError, Unrecorded,
         accountVars, runtimeVars, history
<1>. QED
  BY <1>4, <1>6, <1>7, <1>8

\* Only a validation that succeeds makes an account active, and clears it.
LEMMA PledgeAdminister ==
    ASSUME TypeOK, PledgeInv, NEW a \in Accounts, AdministerH(a)
    PROVE  PledgeInv'
<1>1. UNCHANGED <<now, known, rows, eligible>>
  BY DEF AdministerH, UpdateAccount, BeginAccountValidation, FinishAccountValidation,
         CompleteOAuthAccount, Activate, RefreshRefused, planVars, history
<1>2. now \in Nat
  BY DEF TypeOK
<1>3. \A q \in Requests : SnapshotKnows(q)' /\ EligibleRested(q)'
  BY <1>1 DEF PledgeInv, SnapshotKnows, EligibleRested
<1>4. ASSUME NEW s \in AdminStatuses, NEW l \in Limits, NEW n \in Priorities,
             UpdateAccount(a, s, l, n), UNCHANGED history
      PROVE  PledgeInv'
  <2>1. \A b \in Accounts : status'[b] = "active" => status[b] = "active"
    BY <1>4 DEF UpdateAccount, TypeOK
  <2>. QED
    BY <1>1, <1>2, <1>4, <2>1, PledgeFrame DEF UpdateAccount, runtimeVars, history
<1>5. ASSUME BeginAccountValidation(a), UNCHANGED history PROVE PledgeInv'
  <2>1. \A b \in Accounts : status'[b] = "active" => status[b] = "active"
    BY <1>5 DEF BeginAccountValidation, TypeOK
  <2>. QED
    BY <1>1, <1>2, <1>5, <2>1, PledgeFrame DEF BeginAccountValidation, runtimeVars, history
<1>6. ASSUME Activate(a),
             pledge' = [pledge EXCEPT ![a] = IF status'[a] = "active" THEN NoTime ELSE @]
      PROVE  PledgeInv'
  <2>1. /\ \A b \in Accounts : b # a => UNCHANGED <<status[b], quota[b], pledge[b]>>
        /\ quota'[a] = NoTime /\ pledge'[a] = NoTime /\ pledge' \in [Accounts -> Nat]
    BY <1>6 DEF Activate, TypeOK, PledgeInv, PledgeTypes, NoTime
  <2>. QED
    BY <1>1, <1>3, <2>1 DEF PledgeInv, PledgeTypes, PledgedRest, NoTime
<1>7. ASSUME status' = [status EXCEPT ![a] = "invalid"], UNCHANGED quota,
             pledge' = [pledge EXCEPT ![a] = IF status'[a] = "active" THEN NoTime ELSE @]
      PROVE  PledgeInv'
  <2>1. /\ \A b \in Accounts : status'[b] = "active" => status[b] = "active"
        /\ pledge' = pledge
    BY <1>7 DEF TypeOK, PledgeInv, PledgeTypes
  <2>. QED
    BY <1>1, <1>2, <1>7, <2>1, PledgeFrame
<1>8. ASSUME RefreshRefused(a), pledge' = [pledge EXCEPT ![a] = Forever] PROVE PledgeInv'
  <2>1. Forever \in Nat
    BY SchedulerAssumption DEF Forever
  <2>2. /\ quota' = quota /\ pledge' \in [Accounts -> Nat]
        /\ \A b \in Accounts : status'[b] = "active" => UNCHANGED <<status[b], pledge[b]>>
    BY <1>8, <2>1 DEF RefreshRefused, runtimeVars, TypeOK, PledgeInv, PledgeTypes
  <2>. QED
    BY <1>1, <1>3, <2>2 DEF PledgeInv, PledgeTypes, PledgedRest
<1>. QED
  BY <1>4, <1>5, <1>6, <1>7, <1>8
  DEF AdministerH, FinishAccountValidation, CompleteOAuthAccount, runtimeVars

LEMMA PledgeRestart ==
    ASSUME TypeOK, PledgeInv, Restart, UNCHANGED pledge,
           known' = [p \in Requests |-> NoPledges]
    PROVE  PledgeInv'
<1>1. PledgeTypes'
  BY DEF PledgeInv, PledgeTypes, NoPledges, NoTime
<1>2. \A a \in Accounts : status'[a] = "active" => status[a] = "active"
  BY DEF Restart, TypeOK
<1>3. PledgedRest'
  BY <1>2 DEF Restart, runtimeVars, PledgeInv, PledgedRest
<1>4. \A p \in Requests : DOMAIN rows'[p] = {} /\ eligible'[p] = {}
  BY DEF Restart
<1>. QED
  BY <1>1, <1>3, <1>4 DEF PledgeInv, SnapshotKnows, EligibleRested

LEMMA PledgeStep ==
    ASSUME IInv, RestBounded, PledgeInv, [HistoryNext]_hvars, TypeOK'
    PROVE  PledgeInv'
<1>0. TypeOK /\ LeaseFollowsPhase
  BY DEF IInv
<1>1. now \in Nat
  BY DEF IInv, TypeOK
<1>2. ASSUME NEW p \in Requests, Release(p), UNCHANGED history PROVE PledgeInv'
  BY <1>0, <1>1, <1>2, PledgeFrame
  DEF Release, accountVars, runtimeVars, planVars, history
<1>3. ASSUME Tick, UNCHANGED history PROVE PledgeInv'
  BY <1>0, <1>1, <1>3, PledgeFrame DEF Tick, accountVars, runtimeVars, planVars, history
<1>4. CASE UNCHANGED hvars
  BY <1>0, <1>1, <1>4, PledgeFrame
  DEF hvars, vars, accountVars, runtimeVars, planVars, history
<1>5. ASSUME Restart, known' = [p \in Requests |-> NoPledges], UNCHANGED pledge
      PROVE  PledgeInv'
  BY <1>0, <1>5, PledgeRestart
<1>. QED
  BY <1>0, <1>2, <1>3, <1>4, <1>5, PledgePlan, PledgeRecord, PledgeAdminister DEF HistoryNext

(***************************************************************************)
(* The upstream's wish is respected: a lease is only ever granted on an    *)
(* account whose pledge, as known when the plan read the database, is over *)
(* (Plan, filter, RecordFailure).                                          *)
(***************************************************************************)
THEOREM PledgesKept == HistorySpec => PledgeKept
<1>1. HistoryInit => PledgeInv
  BY PledgeInit
<1>2. IInv /\ IInv' /\ RestBounded /\ PledgeInv /\ [HistoryNext]_hvars => PledgeInv'
  BY PledgeStep DEF IInv
<1>3. ASSUME IInv, PledgeInv, [HistoryNext]_hvars, NEW p \in Requests,
             lease[p] = NoLease, lease'[p] # NoLease
      PROVE  known[p][lease'[p].account] <= now
  <2>1. PICK q \in Requests : \E i \in eligible[q] : Grant(q, i)
    <3>1. \/ Quiet
          \/ \E q \in Requests : \E i \in eligible[q] : Grant(q, i)
          \/ \E q \in Requests : Release(q)
          \/ Restart
      BY <1>3, HistoryStep, LeaseSteps DEF IInv
    <3>. QED
      BY <1>3, <3>1 DEF Quiet, Release, Restart, IInv, TypeOK
  <2>2. PICK i \in eligible[q] : Grant(q, i)
    BY <2>1
  <2>3. p = q /\ lease'[p].account = rows[p][i].account
    BY <1>3, <2>2 DEF Grant, IInv, TypeOK
  <2>4. /\ i \in DOMAIN rows[p] /\ rows[p][i].account \in Accounts
        /\ rows[p][i].status = "active" /\ rows[p][i].quota <= now
    BY <1>3, <2>2, <2>3 DEF IInv, TypeOK, PledgeInv, EligibleRested
  <2>5. /\ known[p][rows[p][i].account] <= rows[p][i].quota
        /\ rows[p][i].quota \in Nat /\ known[p][rows[p][i].account] \in Nat
    BY <1>3, <2>4 DEF PledgeInv, SnapshotKnows, PledgeTypes
  <2>6. now \in Nat
    BY <1>3 DEF IInv, TypeOK
  <2>. QED
    BY <2>3, <2>4, <2>5, <2>6
<1>4. IInv /\ PledgeInv /\ [HistoryNext]_hvars =>
         [\A p \in Requests : lease[p] = NoLease /\ lease'[p] # NoLease =>
             known[p][lease'[p].account] <= now]_hvars
  BY <1>3
<1>. QED
  BY <1>1, <1>2, <1>4, HistoryInvariance, PTL DEF HistorySpec, PledgeKept
-----------------------------------------------------------------------------
(***************************************************************************)
(* Turns.  The remainders that the cursors are reduced to.                 *)
(***************************************************************************)
\* Division with remainder, and its uniqueness.
LEMMA Division ==
    ASSUME NEW n \in Nat \ {0}, NEW x \in Nat
    PROVE  x \div n \in Nat /\ x % n \in 0..(n - 1) /\ x = n * (x \div n) + (x % n)
OBVIOUS

LEMMA Remainder ==
    ASSUME NEW n \in Nat \ {0}, NEW q \in Nat, NEW r \in 0..(n - 1)
    PROVE  (n * q + r) % n = r
OBVIOUS

LEMMA SmallRemainder ==
    ASSUME NEW n \in Nat \ {0}, NEW x \in 0..(n - 1)
    PROVE  x % n = x
OBVIOUS

\* A multiple of the modulus changes no remainder.
LEMMA AddMultiple ==
    ASSUME NEW n \in Nat \ {0}, NEW x \in Nat, NEW m \in Nat, m % n = 0
    PROVE  (x + m) % n = x % n
<1>. DEFINE a == x \div n
            b == m \div n
            r == x % n
<1>1. a \in Nat /\ b \in Nat /\ r \in 0..(n - 1) /\ x = n * a + r /\ m = n * b
  BY Division
<1>. HIDE DEF a, b, r
<1>2. x + m = n * (a + b) + r
  BY <1>1
<1>3. (n * (a + b) + r) % n = r
  BY <1>1, Remainder
<1>. QED
  BY <1>2, <1>3 DEF r

\* Less than n apart, equal remainders mean equal numbers.
LEMMA CloseRemainders ==
    ASSUME NEW n \in Nat \ {0}, NEW x \in Nat, NEW d \in 1..(n - 1)
    PROVE  (x + d) % n # x % n
<1>. SUFFICES ASSUME (x + d) % n = x % n PROVE FALSE
  OBVIOUS
<1>. DEFINE a == x \div n
            b == (x + d) \div n
            r == x % n
<1>1. x + d \in Nat
  OBVIOUS
<1>2. a \in Nat /\ b \in Nat /\ r \in 0..(n - 1) /\ x = n * a + r /\ x + d = n * b + r
  BY <1>1, Division
<1>. HIDE DEF a, b, r
<1>3. d = n * b - n * a
  BY <1>2
<1>4. CASE b <= a
  <2>1. n * b <= n * a
    BY <1>2, <1>4
  <2>. QED
    BY <1>2, <1>3, <2>1
<1>5. CASE b >= a + 1
  <2>1. n * b >= n * (a + 1)
    BY <1>2, <1>5
  <2>2. n * (a + 1) = n * a + n
    BY <1>2
  <2>. QED
    BY <1>2, <1>3, <2>1, <2>2
<1>. QED
  BY <1>2, <1>4, <1>5

\* A cursor advances by one, or wraps.
LEMMA NextCursor ==
    ASSUME NEW m \in Nat \ {0}, NEW c \in 0..(m - 1)
    PROVE  (c + 1) % m = IF c + 1 = m THEN 0 ELSE c + 1
<1>1. CASE c + 1 = m
  <2>1. (m * 1 + 0) % m = 0
    BY Remainder
  <2>. QED
    BY <1>1, <2>1
<1>2. CASE c + 1 # m
  BY <1>2, SmallRemainder
<1>. QED
  BY <1>1, <1>2

(***************************************************************************)
(* The recorded picks of a route, numbered by how many came since, are the *)
(* rows at the positions the cursor had: exactly so since the cursor last  *)
(* wrapped, and before that too when the tie's size divides the modulus.   *)
(***************************************************************************)
Rank(tie, i) == Cardinality({j \in tie : j < i})

InTurn(past, c) ==
    LET n == Cardinality(past.tie) IN
    /\ Len(past.picks) <= n
    /\ \A k \in 1..Len(past.picks) :
          LET since == Len(past.picks) - k IN
          /\ since < c => Rank(past.tie, past.picks[k]) = (c - 1 - since) % n
          /\ CursorModulus % n = 0 =>
                Rank(past.tie, past.picks[k]) = (c + CursorModulus - 1 - since) % n

Turns == [tie : {S \in SUBSET Nat : IsFiniteSet(S)}, picks : Seq(Nat)]

TurnInv ==
    /\ turn \in [Routes -> Turns]
    /\ \A r \in Routes : InTurn(turn[r], cursor[r])
    /\ \A p \in Requests : DOMAIN rows[p] \subseteq DOMAIN CandidatesOf[route[p]]

\* What recording a pick of row i does to the record.
Follows(past, after, tie, i) ==
    /\ after \in Turns /\ after.tie = tie
    /\ Len(after.picks) \in 1..Cardinality(tie)
    /\ after.picks[Len(after.picks)] = i
    /\ \A k \in 1..(Len(after.picks) - 1) :
          /\ past.tie = tie
          /\ \E l \in 1..Len(past.picks) :
                /\ after.picks[k] = past.picks[l]
                /\ Len(past.picks) - l + 1 = Len(after.picks) - k

LEMMA TurnAdds ==
    ASSUME NEW past \in Turns, Len(past.picks) <= Cardinality(past.tie),
           NEW tie \in SUBSET Nat, IsFiniteSet(tie), NEW i \in tie
    PROVE  Follows(past, Turn(past, tie, i), tie, i)
<1>. DEFINE old == past.picks
            n == Cardinality(tie)
            picks == IF past.tie = tie THEN Append(old, i) ELSE <<i>>
            kept == IF Len(picks) > n THEN Tail(picks) ELSE picks
<1>1. old \in Seq(Nat) /\ i \in Nat /\ Len(old) \in Nat
  BY DEF Turns
<1>2. n \in Nat /\ n >= 1
  BY FS_CardinalityType, FS_EmptySet
<1>3. Turn(past, tie, i) = [tie |-> tie, picks |-> kept]
  BY DEF Turn
<1>a. ASSUME kept \in Seq(Nat), past.tie = tie, Len(kept) \in 1..n, kept[Len(kept)] = i,
             \A k \in 1..(Len(kept) - 1) :
                \E l \in 1..Len(old) : /\ kept[k] = old[l]
                                      /\ Len(old) - l + 1 = Len(kept) - k
      PROVE  Follows(past, Turn(past, tie, i), tie, i)
  <2>. DEFINE after == Turn(past, tie, i)
  <2>. HIDE DEF kept, old, n
  <2>1. after.tie = tie /\ after.picks = kept /\ after = [tie |-> tie, picks |-> kept]
    BY <1>3
  <2>2. after \in Turns
    BY <1>a, <2>1 DEF Turns
  <2>. QED
    BY <1>a, <2>1, <2>2 DEF Follows, old, n
<1>4. CASE past.tie # tie
  <2>1. picks = <<i>>
    BY <1>4
  <2>. HIDE DEF picks
  <2>2. kept = <<i>>
    BY <1>2, <2>1
  <2>. HIDE DEF kept, n
  <2>3. kept \in Seq(Nat) /\ Len(kept) = 1 /\ kept[1] = i
    BY <1>1, <2>2
  <2>4. Turn(past, tie, i).picks = kept /\ Turn(past, tie, i).tie = tie
    BY <1>3
  <2>5. Turn(past, tie, i) \in Turns
    BY <1>3, <2>3 DEF Turns
  <2>6. Len(kept) \in 1..n /\ kept[Len(kept)] = i /\ 1..(Len(kept) - 1) = {}
    BY <1>2, <2>3
  <2>. QED
    BY <2>4, <2>5, <2>6 DEF Follows, n
<1>5. CASE past.tie = tie
  <2>1. picks = Append(old, i)
    BY <1>5
  <2>2. /\ picks \in Seq(Nat) /\ Len(picks) = Len(old) + 1 /\ picks[Len(picks)] = i
        /\ \A k \in 1..Len(old) : picks[k] = old[k]
    BY <1>1, <2>1
  <2>. HIDE DEF picks
  <2>3. CASE Len(picks) <= n
    <3>1. kept = picks
      BY <1>1, <1>2, <2>2, <2>3
    <3>. HIDE DEF kept, old
    <3>2. ASSUME NEW k \in 1..(Len(kept) - 1)
          PROVE  \E l \in 1..Len(old) : kept[k] = old[l] /\ Len(old) - l + 1 = Len(kept) - k
      <4>1. Len(kept) = Len(old) + 1 /\ k \in 1..Len(old)
        BY <1>1, <2>2, <3>1
      <4>2. kept[k] = old[k]
        BY <2>2, <3>1, <4>1
      <4>3. Len(old) - k + 1 = Len(kept) - k
        BY <1>1, <4>1
      <4>. QED
        BY <4>1, <4>2, <4>3
    <3>3. kept \in Seq(Nat) /\ Len(kept) \in 1..n /\ kept[Len(kept)] = i
      BY <1>1, <1>2, <2>2, <2>3, <3>1
    <3>. QED
      BY <1>a, <1>5, <3>2, <3>3 DEF old
  <2>4. CASE Len(picks) > n
    <3>1. kept = Tail(picks) /\ Len(old) = n
      BY <1>1, <1>2, <1>5, <2>2, <2>4
    <3>2. /\ Tail(picks) \in Seq(Nat) /\ Len(Tail(picks)) = Len(old)
          /\ \A k \in 1..Len(old) : Tail(picks)[k] = picks[k + 1]
      BY <1>1, <1>2, <2>2, <3>1
    <3>. HIDE DEF kept, old
    <3>3. ASSUME NEW k \in 1..(Len(kept) - 1)
          PROVE  \E l \in 1..Len(old) : kept[k] = old[l] /\ Len(old) - l + 1 = Len(kept) - k
      <4>1. Len(kept) = Len(old) /\ k \in 1..Len(old) /\ k + 1 \in 1..Len(old)
        BY <1>1, <3>1, <3>2
      <4>2. kept[k] = old[k + 1]
        BY <2>2, <3>1, <3>2, <4>1
      <4>3. Len(old) - (k + 1) + 1 = Len(kept) - k
        BY <1>1, <4>1
      <4>. QED
        BY <4>1, <4>2, <4>3
    <3>4. kept \in Seq(Nat) /\ Len(kept) \in 1..n /\ kept[Len(kept)] = i
      BY <1>1, <1>2, <2>2, <3>1, <3>2
    <3>. QED
      BY <1>a, <1>5, <3>3, <3>4 DEF old
  <2>. QED
    BY <1>1, <1>2, <2>2, <2>3, <2>4
<1>. QED
  BY <1>4, <1>5

\* A pick at cursor c, after which the cursor is d: positions move back by one.
Advances(m, n, c, d) ==
    /\ d \in 0..(m - 1)
    /\ 0 < d => d - 1 = c
    /\ m % n = 0 => (d + m - 1) % n = c % n
    /\ \A s \in 0..(n - 2) :
          /\ s + 1 < d => s < c /\ d - 1 - (s + 1) = c - 1 - s
          /\ m % n = 0 => (d + m - 1 - (s + 1)) % n = (c + m - 1 - s) % n

LEMMA CursorPick ==
    ASSUME NEW m \in Nat \ {0}, NEW c \in 0..(m - 1), NEW n \in Nat \ {0}
    PROVE  Advances(m, n, c, (c + 1) % m)
<1>. DEFINE d == (c + 1) % m
<1>1. d = IF c + 1 = m THEN 0 ELSE c + 1
  BY NextCursor
<1>. HIDE DEF d
<1>2. m % n = 0 => (d + m - 1) % n = c % n
  <2>1. CASE c + 1 = m
    <3>1. d + m - 1 = c
      BY <1>1, <2>1
    <3>. QED
      BY <3>1
  <2>2. CASE c + 1 # m
    <3>1. d + m - 1 = c + m
      BY <1>1, <2>2
    <3>2. c \in Nat
      OBVIOUS
    <3>. QED
      BY <3>1, <3>2, AddMultiple
  <2>. QED
    BY <2>1, <2>2
<1>3. m % n = 0 => n <= m
  <2>. SUFFICES ASSUME m % n = 0, m < n PROVE FALSE
    OBVIOUS
  <2>1. m % n = m
    BY SmallRemainder
  <2>. QED
    BY <2>1
<1>4. ASSUME NEW s \in 0..(n - 2), m % n = 0
      PROVE  (d + m - 1 - (s + 1)) % n = (c + m - 1 - s) % n
  <2>1. CASE c + 1 = m
    <3>. DEFINE x == m - 2 - s
    <3>1. x \in Nat
      BY <1>3, <1>4
    <3>2. d + m - 1 - (s + 1) = x /\ c + m - 1 - s = x + m
      BY <1>1, <2>1
    <3>. HIDE DEF x
    <3>3. (x + m) % n = x % n
      BY <1>4, <3>1, AddMultiple
    <3>. QED
      BY <3>2, <3>3
  <2>2. CASE c + 1 # m
    <3>1. d + m - 1 - (s + 1) = c + m - 1 - s
      BY <1>1, <2>2
    <3>. QED
      BY <3>1
  <2>. QED
    BY <2>1, <2>2
<1>5. /\ d \in 0..(m - 1) /\ (0 < d => d - 1 = c)
      /\ \A s \in 0..(n - 2) : s + 1 < d => s < c /\ d - 1 - (s + 1) = c - 1 - s
  BY <1>1
<1>. QED
  BY <1>2, <1>4, <1>5 DEF d, Advances

LEMMA TurnKept ==
    ASSUME NEW past \in Turns, NEW c \in 0..(CursorModulus - 1), InTurn(past, c),
           NEW tie \in SUBSET Nat, IsFiniteSet(tie), NEW i \in tie,
           Rank(tie, i) = c % Cardinality(tie)
    PROVE  InTurn(Turn(past, tie, i), (c + 1) % CursorModulus)
<1>. DEFINE after == Turn(past, tie, i)
            old == past.picks
            new == after.picks
            n == Cardinality(tie)
            m == CursorModulus
            d == (c + 1) % m
<1>1. m \in Nat \ {0}
  BY SchedulerAssumption
<1>2. n \in Nat \ {0}
  BY FS_CardinalityType, FS_EmptySet
<1>3. Len(old) <= Cardinality(past.tie)
  BY DEF InTurn
<1>a. Follows(past, after, tie, i)
  BY <1>3, TurnAdds
<1>4. /\ after \in Turns /\ after.tie = tie
      /\ Len(new) \in 1..n /\ new[Len(new)] = i
      /\ \A k \in 1..(Len(new) - 1) :
            /\ past.tie = tie
            /\ \E l \in 1..Len(old) : new[k] = old[l] /\ Len(old) - l + 1 = Len(new) - k
  BY <1>a DEF Follows
<1>b. Advances(m, n, c, d)
  BY <1>1, <1>2, CursorPick
<1>5. /\ d \in 0..(m - 1)
      /\ 0 < d => d - 1 = c
      /\ m % n = 0 => (d + m - 1) % n = c % n
      /\ \A s \in 0..(n - 2) :
            /\ s + 1 < d => s < c /\ d - 1 - (s + 1) = c - 1 - s
            /\ m % n = 0 => (d + m - 1 - (s + 1)) % n = (c + m - 1 - s) % n
  BY <1>b DEF Advances
<1>6. \A l \in 1..Len(old) : past.tie = tie =>
         LET since == Len(old) - l IN
         /\ since < c => Rank(tie, old[l]) = (c - 1 - since) % n
         /\ m % n = 0 => Rank(tie, old[l]) = (c + m - 1 - since) % n
  BY DEF InTurn
<1>7. Rank(tie, i) = c % n
  OBVIOUS
<1>8. Len(old) \in Nat
  BY DEF Turns
<1>. HIDE DEF after, old, new, n, m, d
<1>9. ASSUME NEW k \in 1..Len(new)
      PROVE  LET since == Len(new) - k IN
             /\ since < d => Rank(tie, new[k]) = (d - 1 - since) % n
             /\ m % n = 0 => Rank(tie, new[k]) = (d + m - 1 - since) % n
  <2>1. CASE k = Len(new)
    <3>1. new[k] = i /\ Len(new) - k = 0
      BY <1>4, <2>1
    <3>2. d - 1 - 0 = d - 1 /\ d + m - 1 - 0 = d + m - 1
      BY <1>1, <1>5
    <3>. QED
      BY <1>5, <1>7, <3>1, <3>2
  <2>2. CASE k # Len(new)
    <3>1. k \in 1..(Len(new) - 1)
      BY <1>4, <2>2
    <3>2. past.tie = tie
      BY <1>4, <3>1
    <3>3. PICK l \in 1..Len(old) : new[k] = old[l] /\ Len(old) - l + 1 = Len(new) - k
      BY <1>4, <3>1
    <3>. DEFINE s == Len(old) - l
    <3>4. s + 1 = Len(new) - k /\ s \in 0..(n - 2)
      BY <1>2, <1>4, <1>8, <3>1, <3>3
    <3>5. /\ s < c => Rank(tie, old[l]) = (c - 1 - s) % n
          /\ m % n = 0 => Rank(tie, old[l]) = (c + m - 1 - s) % n
      BY <1>6, <3>2
    <3>. HIDE DEF s
    <3>6. /\ s + 1 < d => Rank(tie, new[k]) = (d - 1 - (s + 1)) % n
          /\ m % n = 0 => Rank(tie, new[k]) = (d + m - 1 - (s + 1)) % n
      BY <1>5, <3>3, <3>4, <3>5
    <3>. QED
      BY <3>4, <3>6
  <2>. QED
    BY <2>1, <2>2
<1>10. Len(new) <= n
  BY <1>2, <1>4
<1>. QED
  BY <1>4, <1>9, <1>10 DEF InTurn, after, new, n, m, d

\* Rows at different positions of a turn are different rows.
LEMMA TurnsDiffer ==
    ASSUME NEW past \in Turns, NEW c \in 0..(CursorModulus - 1), InTurn(past, c),
           \/ c >= Len(past.picks)
           \/ CursorModulus % Cardinality(past.tie) = 0
    PROVE  \A i, j \in DOMAIN past.picks : past.picks[i] = past.picks[j] => i = j
<1>. DEFINE picks == past.picks
            n == Cardinality(past.tie)
            m == CursorModulus
<1>1. DOMAIN picks = 1..Len(picks) /\ Len(picks) \in Nat /\ m \in Nat \ {0} /\ n \in Nat
  BY SchedulerAssumption, FS_CardinalityType DEF Turns
<1>2. Len(picks) <= n
  BY DEF InTurn
<1>3. \A k \in 1..Len(picks) :
         LET since == Len(picks) - k IN
         /\ since < c => Rank(past.tie, picks[k]) = (c - 1 - since) % n
         /\ m % n = 0 => Rank(past.tie, picks[k]) = (c + m - 1 - since) % n
  BY DEF InTurn
<1>4. c >= Len(picks) \/ m % n = 0
  OBVIOUS
<1>. HIDE DEF picks, n, m
<1>5. ASSUME NEW i \in 1..Len(picks), NEW j \in 1..Len(picks), i < j
      PROVE  picks[i] # picks[j]
  <2>1. n \in Nat \ {0} /\ j - i \in 1..(n - 1)
    BY <1>1, <1>2, <1>5
  <2>2. CASE c >= Len(picks)
    <3>. DEFINE x == c - 1 - (Len(picks) - i)
    <3>1. x \in Nat /\ c - 1 - (Len(picks) - j) = x + (j - i)
      BY <1>1, <2>2
    <3>2. Len(picks) - i < c /\ Len(picks) - j < c
      BY <1>1, <2>2
    <3>3. /\ Rank(past.tie, picks[i]) = x % n
          /\ Rank(past.tie, picks[j]) = (x + (j - i)) % n
      BY <1>3, <3>1, <3>2
    <3>. HIDE DEF x
    <3>. QED
      BY <2>1, <3>1, <3>3, CloseRemainders
  <2>3. CASE m % n = 0
    <3>. DEFINE x == c + m - 1 - (Len(picks) - i)
    <3>1. n <= m
      <4>. SUFFICES ASSUME m < n PROVE FALSE
        BY <1>1
      <4>1. m \in 0..(n - 1)
        BY <1>1, <2>1
      <4>2. m % n = m
        BY <2>1, <4>1, SmallRemainder
      <4>. QED
        BY <1>1, <2>3, <4>2
    <3>2. x \in Nat /\ c + m - 1 - (Len(picks) - j) = x + (j - i)
      BY <1>1, <1>2, <3>1
    <3>3. /\ Rank(past.tie, picks[i]) = x % n
          /\ Rank(past.tie, picks[j]) = (x + (j - i)) % n
      BY <1>3, <2>3, <3>2
    <3>. HIDE DEF x
    <3>. QED
      BY <2>1, <3>2, <3>3, CloseRemainders
  <2>. QED
    BY <1>4, <2>2, <2>3
<1>. QED
  BY <1>1, <1>5 DEF picks

\* A tie is a finite set of positions in the route's candidates.
LEMMA TieFinite ==
    ASSUME TypeOK, TurnInv, NEW p \in Requests
    PROVE  LET tie == Tie(rows[p], eligible[p], inFlight)
           IN  tie \in SUBSET Nat /\ IsFiniteSet(tie)
<1>1. CandidatesOf[route[p]] \in Seq(Accounts)
  BY SchedulerAssumption DEF TypeOK
<1>2. DOMAIN rows[p] \subseteq 1..Len(CandidatesOf[route[p]]) /\ Len(CandidatesOf[route[p]]) \in Nat
  BY <1>1 DEF TurnInv
<1>3. Tie(rows[p], eligible[p], inFlight) \subseteq eligible[p]
  BY DEF Tie, LeastLoaded, TopPriority, WithCapacity
<1>4. Tie(rows[p], eligible[p], inFlight) \subseteq 1..Len(CandidatesOf[route[p]])
  BY <1>2, <1>3 DEF TypeOK
<1>5. IsFiniteSet(1..Len(CandidatesOf[route[p]]))
  BY <1>2, FS_Interval
<1>. QED
  BY <1>2, <1>4, <1>5, FS_Subset

NoTurns ==
    /\ turn = [r \in Routes |-> [tie |-> {}, picks |-> <<>>]]
    /\ rows = [p \in Requests |-> <<>>]

LEMMA TurnsStart == NoTurns => TurnInv
<1>. SUFFICES ASSUME NoTurns PROVE TurnInv
  OBVIOUS
<1>. USE DEF NoTurns
<1>1. IsFiniteSet({}) /\ Cardinality({}) = 0
  BY FS_EmptySet
<1>2. \A r \in Routes : turn[r].tie = {} /\ turn[r].picks = <<>>
  OBVIOUS
<1>3. turn \in [Routes -> Turns]
  <2>0. {} \in {S \in SUBSET Nat : IsFiniteSet(S)} /\ <<>> \in Seq(Nat)
    BY <1>1
  <2>1. [tie |-> {}, picks |-> <<>>] \in Turns
    BY <2>0 DEF Turns
  <2>. QED
    BY <2>1
<1>4. ASSUME NEW r \in Routes PROVE InTurn(turn[r], cursor[r])
  <2>1. turn[r].tie = {} /\ turn[r].picks = <<>>
    BY <1>2
  <2>2. Len(<<>>) = 0 /\ 1..0 = {}
    OBVIOUS
  <2>. HIDE DEF NoTurns
  <2>. QED
    BY <1>1, <2>1, <2>2 DEF InTurn
<1>5. \A p \in Requests : DOMAIN rows[p] = {}
  OBVIOUS
<1>. QED
  BY <1>3, <1>4, <1>5 DEF TurnInv

LEMMA TurnGrant ==
    ASSUME TypeOK, TurnInv, NEW p \in Requests, NEW i \in eligible[p], Grant(p, i),
           turn' = [turn EXCEPT ![route[p]] = Turn(@, Tie(rows[p], eligible[p], inFlight), i)]
    PROVE  TurnInv'
<1>. DEFINE r == route[p]
            tie == Tie(rows[p], eligible[p], inFlight)
<1>1. r \in Routes /\ cursor[r] \in 0..(CursorModulus - 1)
  BY DEF TypeOK
<1>2. tie \in SUBSET Nat /\ IsFiniteSet(tie)
  BY TieFinite
<1>3. i \in tie /\ Rank(tie, i) = cursor[r] % Cardinality(tie)
  BY DEF Grant, PickedBy, Rank
<1>4. turn[r] \in Turns /\ InTurn(turn[r], cursor[r])
  BY <1>1 DEF TurnInv
<1>5. cursor' = [cursor EXCEPT ![r] = (@ + 1) % CursorModulus]
  BY DEF Grant
<1>. HIDE DEF r, tie
<1>6. InTurn(Turn(turn[r], tie, i), (cursor[r] + 1) % CursorModulus)
  BY <1>1, <1>2, <1>3, <1>4, TurnKept
<1>7. Turn(turn[r], tie, i) \in Turns
  <2>1. Len(turn[r].picks) <= Cardinality(turn[r].tie)
    BY <1>4 DEF InTurn
  <2>. QED
    BY <1>2, <1>3, <1>4, <2>1, TurnAdds DEF Follows
<1>8. turn' = [turn EXCEPT ![r] = Turn(@, tie, i)]
  BY DEF r, tie
<1>9. turn' \in [Routes -> Turns] /\ \A s \in Routes : InTurn(turn'[s], cursor'[s])
  BY <1>1, <1>5, <1>6, <1>7, <1>8 DEF TurnInv, TypeOK
<1>10. \A q \in Requests : DOMAIN rows'[q] \subseteq DOMAIN CandidatesOf[route'[q]]
  <2>1. route' = route /\ rows' = [rows EXCEPT ![p] = <<>>]
    BY DEF Grant
  <2>2. \A q \in Requests : DOMAIN rows'[q] = {} \/ rows'[q] = rows[q]
    BY <2>1 DEF TypeOK
  <2>. QED
    BY <2>1, <2>2 DEF TurnInv
<1>. QED
  BY <1>9, <1>10 DEF TurnInv

LEMMA TurnStep ==
    ASSUME TypeOK, TurnInv, [HistoryNext]_hvars
    PROVE  TurnInv'
<1>1. ASSUME UNCHANGED <<turn, cursor>>,
             \A p \in Requests : DOMAIN rows'[p] \subseteq DOMAIN CandidatesOf[route'[p]]
      PROVE  TurnInv'
  BY <1>1 DEF TurnInv
<1>2. ASSUME UNCHANGED <<turn, cursor, rows, route>> PROVE TurnInv'
  BY <1>2 DEF TurnInv
<1>3. ASSUME NEW p \in Requests, NEW r \in Routes, Query(p, r), UNCHANGED turn PROVE TurnInv'
  <2>. DEFINE copy == [i \in DOMAIN CandidatesOf[r] |-> RowOf(CandidatesOf[r][i])]
  <2>1. DOMAIN copy = DOMAIN CandidatesOf[r]
    OBVIOUS
  <2>2. /\ rows' = [rows EXCEPT ![p] = copy] /\ route' = [route EXCEPT ![p] = r]
        /\ UNCHANGED cursor
    BY <1>3 DEF Query
  <2>. HIDE DEF copy
  <2>3. \A q \in Requests : /\ rows'[q] = IF q = p THEN copy ELSE rows[q]
                            /\ route'[q] = IF q = p THEN r ELSE route[q]
    BY <2>2 DEF TypeOK
  <2>. QED
    BY <1>1, <1>3, <2>1, <2>2, <2>3 DEF TurnInv
<1>4. ASSUME NEW p \in Requests, GiveUp(p), UNCHANGED turn PROVE TurnInv'
  <2>1. UNCHANGED <<route, cursor>> /\ rows' = [rows EXCEPT ![p] = <<>>]
    BY <1>4 DEF GiveUp
  <2>2. \A q \in Requests : DOMAIN rows'[q] = {} \/ rows'[q] = rows[q]
    BY <2>1 DEF TypeOK
  <2>. QED
    BY <1>1, <1>4, <2>1, <2>2 DEF TurnInv
<1>5. ASSUME NEW p \in Requests, PlanH(p) PROVE TurnInv'
  BY <1>2, <1>3, <1>4, <1>5, TurnGrant
  DEF PlanH, Inspect, NoneEligible, Saturated, history
<1>6. ASSUME NEW p \in Requests, RecordH(p) \/ (Release(p) /\ UNCHANGED history) PROVE TurnInv'
  BY <1>2, <1>6
  DEF RecordH, RecordSuccess, RecordReset, RecordBackoff, Settle, MarkReauth,
      RecordRuntimeError, Unrecorded, Release, planVars, history
<1>7. ASSUME NEW a \in Accounts, AdministerH(a) PROVE TurnInv'
  BY <1>2, <1>7
  DEF AdministerH, UpdateAccount, BeginAccountValidation, FinishAccountValidation,
      CompleteOAuthAccount, Activate, RefreshRefused, planVars, history
<1>8. ASSUME Restart, turn' = [r \in Routes |-> [tie |-> {}, picks |-> <<>>]] PROVE TurnInv'
  <2>1. NoTurns'
    BY <1>8 DEF Restart, NoTurns
  <2>. QED
    BY <2>1, TurnsStart, PTL
<1>9. ASSUME (Tick /\ UNCHANGED history) \/ UNCHANGED hvars PROVE TurnInv'
  BY <1>2, <1>9 DEF Tick, planVars, history, hvars, vars
<1>. QED
  BY <1>5, <1>6, <1>7, <1>8, <1>9 DEF HistoryNext

(***************************************************************************)
(* Equally good rows take turns, for ties of every size and any number of  *)
(* routes that share rows (the cursors of Plan).                           *)
(***************************************************************************)
THEOREM TiesTakeTurns == HistorySpec => []TieTakesTurns
<1>1. HistoryInit => TurnInv
  BY TurnsStart DEF HistoryInit, Init, NoTurns
<1>2. IInv /\ TurnInv /\ [HistoryNext]_hvars => TurnInv'
  BY TurnStep DEF IInv
<1>3. IInv /\ TurnInv => TieTakesTurns
  <2>. SUFFICES ASSUME IInv, TurnInv, NEW r \in Routes,
                       \/ cursor[r] >= Len(turn[r].picks)
                       \/ CursorModulus % Cardinality(turn[r].tie) = 0
                PROVE  \A i, j \in DOMAIN turn[r].picks :
                          turn[r].picks[i] = turn[r].picks[j] => i = j
    BY DEF TieTakesTurns
  <2>1. turn[r] \in Turns /\ cursor[r] \in 0..(CursorModulus - 1) /\ InTurn(turn[r], cursor[r])
    BY DEF IInv, TypeOK, TurnInv
  <2>. QED
    BY <2>1, TurnsDiffer
<1>. QED
  BY <1>1, <1>2, <1>3, HistoryInvariance, PTL DEF HistorySpec
=============================================================================
