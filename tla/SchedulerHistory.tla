-------------------------- MODULE SchedulerHistory --------------------------
(***************************************************************************)
(* Scheduler with a record of the past, for the properties that relate a   *)
(* grant to earlier grants and to earlier answers of the upstream.         *)
(***************************************************************************)
EXTENDS Scheduler

VARIABLES
    turn,    \* per route: the last tie and the latest picks from it, in order
    pledge,  \* per account: the end of the rest that was asked for last
    known    \* per request: the pledges when its plan read the database, while it plans

history == <<turn, pledge, known>>
hvars == <<vars, history>>

\* An account that needs the administrator has no time at which it is free.
Forever == MaxTime + QuotaMax + 1

NoPledges == [a \in Accounts |-> NoTime]

HistoryInit ==
    /\ Init
    /\ turn = [r \in Routes |-> [tie |-> {}, picks |-> <<>>]]
    /\ pledge = [a \in Accounts |-> NoTime]
    /\ known = [p \in Requests |-> NoPledges]

\* The picks from one and the same tie, the latest as many as it has rows.
Turn(past, tie, i) ==
    LET picks == IF past.tie = tie THEN Append(past.picks, i) ELSE <<i>> IN
    [tie |-> tie,
     picks |-> IF Len(picks) > Cardinality(tie) THEN Tail(picks) ELSE picks]

\* The pledges of the accounts a plan chooses from.
PledgesOf(r) ==
    [a \in Accounts |->
        IF \E i \in DOMAIN CandidatesOf[r] : CandidatesOf[r][i] = a THEN pledge[a] ELSE NoTime]

PlanH(p) ==
    \/ \E r \in Routes :
       /\ Query(p, r)
       /\ known' = [known EXCEPT ![p] = PledgesOf(r)]
       /\ UNCHANGED <<turn, pledge>>
    \/ Inspect(p) /\ UNCHANGED history
    \/ /\ NoneEligible(p) \/ Saturated(p)
       /\ known' = [known EXCEPT ![p] = NoPledges]
       /\ UNCHANGED <<turn, pledge>>
    \/ \E i \in eligible[p] :
       /\ Grant(p, i)
       /\ turn' = [turn EXCEPT ![route[p]] = Turn(@, Tie(rows[p], eligible[p], inFlight), i)]
       /\ known' = [known EXCEPT ![p] = NoPledges]
       /\ UNCHANGED pledge

\* The reset of a 429 takes the place of an earlier one, as it does in the
\* code, also where the later answer asked for less.
RecordH(p) ==
    LET a == lease[p].account IN
    \/ \E delay \in Resets :
       /\ RecordReset(p, delay)
       /\ pledge' = [pledge EXCEPT ![a] = IF @ = Forever THEN @
                                          ELSE now + Clamp(delay, QuotaMin, QuotaMax)]
       /\ UNCHANGED <<turn, known>>
    \/ /\ MarkReauth(p)
       /\ pledge' = [pledge EXCEPT ![a] = IF status[a] = "active" THEN Forever ELSE @]
       /\ UNCHANGED <<turn, known>>
    \/ /\ \/ RecordSuccess(p)
          \/ RecordBackoff(p, "rate_limited", RateBackoff)
          \/ RecordBackoff(p, "network", NetworkBackoff)
          \/ RecordRuntimeError(p)
          \/ Unrecorded(p)
       /\ UNCHANGED history

\* Only a validation that succeeds clears an account.
AdministerH(a) ==
    \/ /\ \/ \E s \in AdminStatuses, l \in Limits, n \in Priorities :
                UpdateAccount(a, s, l, n)
          \/ BeginAccountValidation(a)
       /\ UNCHANGED history
    \/ /\ FinishAccountValidation(a) \/ CompleteOAuthAccount(a)
       /\ pledge' = [pledge EXCEPT ![a] = IF status'[a] = "active" THEN NoTime ELSE @]
       /\ UNCHANGED <<turn, known>>
    \/ /\ RefreshRefused(a)
       /\ pledge' = [pledge EXCEPT ![a] = Forever]
       /\ UNCHANGED <<turn, known>>

HistoryNext ==
    \/ \E p \in Requests : \/ PlanH(p)
                           \/ RecordH(p)
                           \/ Release(p) /\ UNCHANGED history
    \/ \E a \in Accounts : AdministerH(a)
    \/ /\ Restart
       /\ turn' = [r \in Routes |-> [tie |-> {}, picks |-> <<>>]]
       /\ known' = [p \in Requests |-> NoPledges]
       /\ UNCHANGED pledge
    \/ Tick /\ UNCHANGED history

HistorySpec == HistoryInit /\ [][HistoryNext]_hvars
-----------------------------------------------------------------------------
(***************************************************************************)
(* Equally good rows take turns: as long as a route's tie stays the same,  *)
(* no row is picked again before every other one was, whatever other       *)
(* routes pick meanwhile (the cursor of Plan; docs/requirements.md         *)
(* ROUTE-007 asks for rotation, never always the first).  Only where the   *)
(* cursor wraps around, after 2^64 picks, may a tie whose size is no power *)
(* of two pick a row out of turn.                                          *)
(***************************************************************************)
TieTakesTurns ==
    \A r \in Routes :
        \/ cursor[r] >= Len(turn[r].picks)
        \/ CursorModulus % Cardinality(turn[r].tie) = 0
        => LET picks == turn[r].picks IN
           \A i, j \in DOMAIN picks : picks[i] = picks[j] => i = j

(***************************************************************************)
(* An account is left alone for as long as the upstream asked last: a      *)
(* request whose plan began after a 429 with a reset was recorded is not   *)
(* given the account before the end of that rest, and one whose plan began *)
(* after it was marked reauth_required is not given it at all.  Only two   *)
(* things end this sooner: a validation or authorisation that succeeds,    *)
(* and another such 429, of a request that was in flight already, whose    *)
(* shorter reset replaces the longer one.  Successes and other failures of *)
(* overlapping requests, updates by the administrator and restarts change  *)
(* nothing (RecordFailure, RecordSuccess, recordRuntimeError, filter).     *)
(***************************************************************************)
PledgeKept ==
    [][\A p \in Requests :
         lease[p] = NoLease /\ lease'[p] # NoLease => known[p][lease'[p].account] <= now]_hvars

(***************************************************************************)
(* No rest outlasts its policy: however failures and successes interleave, *)
(* a cooldown ends within the larger backoff maximum and a quota lock      *)
(* within QuotaMax from now, so no account is lost for good                *)
(* (recordBackoff, clamp).                                                 *)
(***************************************************************************)
RestBounded ==
    \A a \in Accounts :
        /\ cooldown[a] < now + RateBackoff.maximum
        /\ quota[a] <= now + QuotaMax
=============================================================================
