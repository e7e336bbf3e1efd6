------------------------------ MODULE LeasePool ------------------------------
(***************************************************************************)
(* What the scheduler promises about concurrency, without its counters,    *)
(* snapshots and errors: a request is given a lease on an account only     *)
(* while fewer requests hold one than the limit the lease was granted      *)
(* under, gives it back once, and a restart of the process takes them all. *)
(***************************************************************************)
EXTENDS Naturals, FiniteSets

CONSTANTS Accounts, Requests,
          Limits,              \* values of accounts.max_concurrency
          NoLease

VARIABLE held                  \* the lease of each request

Leases == [account : Accounts, limit : Limits]

Holders(a) == {p \in Requests : held[p] # NoLease /\ held[p].account = a}

Init == held = [p \in Requests |-> NoLease]

Acquire(p, grant) ==
    /\ held[p] = NoLease
    /\ Cardinality(Holders(grant.account)) < grant.limit
    /\ held' = [held EXCEPT ![p] = grant]

Release(p) ==
    /\ held[p] # NoLease
    /\ held' = [held EXCEPT ![p] = NoLease]

Crash == held' = [p \in Requests |-> NoLease]

Next ==
    \/ \E p \in Requests : \/ \E grant \in Leases : Acquire(p, grant)
                           \/ Release(p)
    \/ Crash

Spec == Init /\ [][Next]_held
=============================================================================
