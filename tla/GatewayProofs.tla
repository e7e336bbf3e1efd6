---------------------------- MODULE GatewayProofs ----------------------------
(***************************************************************************)
(* Proofs about Gateway for any number of requests and accounts.  Every    *)
(* step of an execution is a step of Scheduler or leaves it alone, so what *)
(* SchedulerProofs shows holds here too; on top of it, what an execution   *)
(* knows agrees with the lease it holds, at every stage (Sound).           *)
(***************************************************************************)
EXTENDS Gateway, SchedulerProofs

Kinds == {"none", "success", "network", "unauthorized", "reset", "rate_limited"}
Answers == Statuses2xx \cup ErrorStatuses \cup {"none", "no_answer"}

\* The types of the variables an execution carries along.
Carried ==
    /\ stage \in [Requests -> Stages]
    /\ candidate \in [Requests -> [account : Accounts \cup {NoAccount}, model : {"", "configured"}]]
    /\ ensured \in [Requests -> {"none", "kept", "reloaded"} \cup EnsureErrors]
    /\ calls \in [Requests -> Nat]
    /\ answer \in [Requests -> Answers]
    /\ verdict \in [Requests -> [kind : Kinds, account : Accounts \cup {NoAccount}]]

\* Between the plan and the verdict.
Serving == {"ensuring", "preparing", "calling", "answered", "refreshing", "copying"}

\* The stage tells how far the scheduler is with the request.
InPhase(p) ==
    /\ stage[p] \in {"idle", "reporting"} => phase[p] = "idle"
    /\ stage[p] = "planning" => phase[p] \in {"idle", "queried", "inspected"}
    /\ stage[p] \in Serving => phase[p] = "leased"
    /\ stage[p] = "recording" => phase[p] \in {"leased", "marked"}
    /\ stage[p] = "releasing" => phase[p] = "settled"

\* The account of the candidate, and of the verdict, is the leased one.
SameAccount(p) ==
    /\ stage[p] \in Serving => candidate[p].account = lease[p].account
    /\ stage[p] = "recording" /\ verdict[p].kind # "none" => verdict[p].account = lease[p].account

\* A second call is that of an OAuth account whose credential was reloaded.
Retried(p) == lease[p].account \in OAuthAccounts /\ ensured[p] = "reloaded"

CallsMade(p) ==
    /\ stage[p] \in {"idle", "planning", "ensuring", "preparing"} => calls[p] = 0
    /\ stage[p] = "calling" => calls[p] = 0 \/ (calls[p] = 1 /\ Retried(p))
    /\ stage[p] = "answered" => calls[p] = 1 \/ (calls[p] = 2 /\ Retried(p))
    /\ stage[p] = "refreshing" =>
          calls[p] = 1 /\ answer[p] = "401" /\ lease[p].account \in OAuthAccounts
    /\ stage[p] \in {"copying", "recording", "releasing"} =>
          calls[p] <= 1 \/ (calls[p] = 2 /\ Retried(p))
    /\ stage[p] = "reporting" => calls[p] <= 2

\* What is recorded fits the answer.
Fair(p) ==
    /\ stage[p] \in {"idle", "planning", "ensuring", "preparing"} => answer[p] = "none"
    /\ stage[p] = "copying" => answer[p] \in Statuses2xx
    /\ stage[p] = "recording" =>
          /\ answer[p] = "4xx" => verdict[p].kind = "none"
          /\ verdict[p].kind = "unauthorized" =>
                \/ answer[p] = "403"
                \/ /\ answer[p] = "401"
                   /\ lease[p].account \in OAuthAccounts =>
                         calls[p] = 2 \/ ensured[p] = "reauth_required"

Sound(p) == InPhase(p) /\ SameAccount(p) /\ CallsMade(p) /\ Fair(p)

GInv == IInv /\ Carried /\ \A p \in Requests : Sound(p)

-----------------------------------------------------------------------------
(***************************************************************************)
(* The scheduler below.                                                    *)
(***************************************************************************)
\* What a verdict writes is one of the records the scheduler knows.
LEMMA WriteIsRecord ==
    ASSUME NEW p \in Requests, Write(p)
    PROVE  Record(p)
BY DEF Write, Record

LEMMA GatewayIsScheduler ==
    ASSUME [GatewayNext]_gvars
    PROVE  [Next]_vars
<1>1. ASSUME NEW p \in Requests, Execute(p) PROVE [Next]_vars
  <2>1. PlanStep(p) \/ RecordVerdict(p) \/ ReleaseLease(p) => Next
    BY WriteIsRecord DEF PlanStep, RecordVerdict, ReleaseLease, Next
  <2>2. QED
    BY <1>1, <2>1
    DEF Execute, Begin, KeepCredential, EnsureCredential, Prepare, Call, Accepted, Refused,
        ForceRefresh, Copy, Report
<1>2. QED
  BY <1>1 DEF GatewayNext, RestartGateway, Next, gvars

\* A plan, a record and a release touch the phase and the lease of their own
\* request alone.
LEMMA OwnPhase ==
    ASSUME TypeOK, LeaseFollowsPhase, NEW p \in Requests, Plan(p) \/ Record(p) \/ Release(p)
    PROVE  \A q \in Requests : q # p => phase'[q] = phase[q] /\ lease'[q] = lease[q]
<1>1. CASE Plan(p)
  BY <1>1 DEF Plan, Query, Inspect, NoneEligible, Saturated, GiveUp, Grant, TypeOK
<1>2. CASE Record(p)
  BY <1>2
  DEF Record, RecordSuccess, RecordReset, RecordBackoff, Settle, MarkReauth, RecordRuntimeError,
      Unrecorded, TypeOK
<1>3. CASE Release(p)
  BY <1>3 DEF Release, TypeOK
<1>4. QED
  BY <1>1, <1>2, <1>3

LEMMA RecordPhase ==
    ASSUME TypeOK, NEW p \in Requests, Record(p)
    PROVE  /\ lease' = lease
           /\ phase'[p] \in {"marked", "settled"}
BY DEF Record, RecordSuccess, RecordReset, RecordBackoff, Settle, MarkReauth, RecordRuntimeError,
       Unrecorded, TypeOK

LEMMA PlanPhase ==
    ASSUME TypeOK, NEW p \in Requests, Plan(p)
    PROVE  /\ phase'[p] \in {"idle", "queried", "inspected", "leased"}
           /\ phase[p] \in {"idle", "queried", "inspected"}
BY DEF Plan, Query, Inspect, NoneEligible, Saturated, GiveUp, Grant, TypeOK

-----------------------------------------------------------------------------
(***************************************************************************)
(* The types.                                                              *)
(***************************************************************************)
Candidates == [account : Accounts \cup {NoAccount}, model : {"", "configured"}]
Verdicts == [kind : Kinds, account : Accounts \cup {NoAccount}]

\* A lease that was just granted is one of an account.
LEMMA GrantedAccount ==
    IInv => \A p \in Requests : phase[p] = "leased" => lease[p].account \in Accounts
<1>. SUFFICES ASSUME IInv
              PROVE  \A p \in Requests : phase[p] = "leased" => lease[p].account \in Accounts
  OBVIOUS
<1>1. \A p \in Requests : phase[p] = "leased" => lease[p] \in Leases
  BY HeldLease DEF IInv
<1>2. QED
  BY <1>1 DEF Leases

LEMMA GrantedNext ==
    IInv' => \A p \in Requests : phase'[p] = "leased" => lease'[p].account \in Accounts
<1>1. (IInv => \A p \in Requests : phase[p] = "leased" => lease[p].account \in Accounts)'
  BY GrantedAccount, PTL
<1>2. QED
  BY <1>1

LEMMA RowTypes ==
    ASSUME NEW a \in Accounts \cup {NoAccount}
    PROVE  /\ \A m \in {"", "configured"} : [account |-> a, model |-> m] \in Candidates
           /\ \A kind \in Kinds : [kind |-> kind, account |-> a] \in Verdicts
BY DEF Candidates, Verdicts

LEMMA Reloaded ==
    ASSUME NEW c \in Candidates
    PROVE  /\ c.account \in Accounts \cup {NoAccount} /\ c.model \in {"", "configured"}
           /\ [c EXCEPT !.model = ""] \in Candidates
           /\ [c EXCEPT !.model = ""].account = c.account
BY DEF Candidates

LEMMA CandidateSet ==
    ASSUME Carried, NEW p \in Requests, NEW c \in Candidates,
           candidate' = [candidate EXCEPT ![p] = c]
    PROVE  /\ candidate' \in [Requests -> Candidates]
           /\ candidate'[p] = c /\ \A q \in Requests : q # p => candidate'[q] = candidate[q]
<1>1. candidate \in [Requests -> Candidates]
  BY DEF Carried, Candidates
<1>2. QED
  BY <1>1

LEMMA Decided ==
    ASSUME Carried, NEW p \in Requests, NEW kind \in Kinds,
           NEW a \in Accounts \cup {NoAccount}, Decide(p, kind, a)
    PROVE  /\ verdict' \in [Requests -> Verdicts]
           /\ verdict'[p] = [kind |-> kind, account |-> a]
           /\ verdict'[p].kind = kind /\ verdict'[p].account = a
           /\ \A q \in Requests : q # p => verdict'[q] = verdict[q]
<1>. DEFINE v == [kind |-> kind, account |-> a]
<1>1. v \in Verdicts /\ v.kind = kind /\ v.account = a
  BY RowTypes
<1>2. verdict \in [Requests -> Verdicts]
  BY DEF Carried, Verdicts
<1>3. verdict' = [verdict EXCEPT ![p] = v]
  BY DEF Decide
<1>. HIDE DEF v
<1>4. verdict' \in [Requests -> Verdicts] /\ verdict'[p] = v
      /\ \A q \in Requests : q # p => verdict'[q] = verdict[q]
  BY <1>1, <1>2, <1>3
<1>5. QED
  BY <1>1, <1>4 DEF v

LEMMA Gone ==
    ASSUME Carried, NEW p \in Requests, NEW s \in Stages, GoTo(p, s)
    PROVE  /\ stage' \in [Requests -> Stages] /\ stage'[p] = s
           /\ \A q \in Requests : q # p => stage'[q] = stage[q]
BY DEF Carried, GoTo

\* No execution touches what another one carries.
Own(p) ==
    \A q \in Requests : q # p =>
        /\ stage'[q] = stage[q] /\ candidate'[q] = candidate[q] /\ ensured'[q] = ensured[q]
        /\ calls'[q] = calls[q] /\ answer'[q] = answer[q] /\ verdict'[q] = verdict[q]

LEMMA PlanTypes ==
    ASSUME IInv, IInv', Carried, NEW p \in Requests, PlanStep(p)
    PROVE  Carried' /\ Own(p)
<1>1. \A s \in {"ensuring", "reporting", "planning"} : s \in Stages
  BY DEF Stages
<1>2. stage' \in [Requests -> Stages] /\ \A q \in Requests : q # p => stage'[q] = stage[q]
  BY <1>1, Gone DEF PlanStep
<1>3. candidate' \in [Requests -> Candidates]
      /\ \A q \in Requests : q # p => candidate'[q] = candidate[q]
  <2>1. CASE phase'[p] = "leased"
    <3> DEFINE c == [account |-> lease'[p].account, model |-> "configured"]
    <3>1. lease'[p].account \in Accounts
      BY <2>1, GrantedNext
    <3>2. c \in Candidates
      BY <3>1, RowTypes
    <3>3. candidate' = [candidate EXCEPT ![p] = c]
      BY <2>1 DEF PlanStep
    <3>. HIDE DEF c
    <3>4. QED
      BY <3>2, <3>3, CandidateSet
  <2>2. CASE phase'[p] # "leased"
    BY <2>2 DEF PlanStep, Carried, Candidates
  <2>3. QED
    BY <2>1, <2>2
<1>4. QED
  BY <1>2, <1>3 DEF PlanStep, Carried, Own, Candidates

LEMMA EnsureTypes ==
    ASSUME Carried, NEW p \in Requests, EnsureCredential(p) \/ ForceRefresh(p)
    PROVE  Carried' /\ Own(p)
<1>1. candidate[p] \in Candidates /\ EmptyCandidate \in Candidates
      /\ NoAccount \in Accounts \cup {NoAccount}
  BY RowTypes DEF Carried, Candidates, EmptyCandidate
<1>2. ensured' \in [Requests -> {"none", "kept", "reloaded"} \cup EnsureErrors]
      /\ \A q \in Requests : q # p => ensured'[q] = ensured[q]
  BY DEF Carried, EnsureCredential, ForceRefresh
<1>. DEFINE c == [candidate[p] EXCEPT !.model = ""]
            e == EmptyCandidate
<1>3. candidate' = candidate \/ candidate' = [candidate EXCEPT ![p] = c]
      \/ candidate' = [candidate EXCEPT ![p] = e]
  BY DEF EnsureCredential, ForceRefresh
<1>4. c \in Candidates /\ e \in Candidates
  BY <1>1, Reloaded
<1>. HIDE DEF c, e
<1>5. candidate' \in [Requests -> Candidates]
      /\ \A q \in Requests : q # p => candidate'[q] = candidate[q]
  BY <1>3, <1>4, CandidateSet DEF Carried, Candidates
<1>6. \/ UNCHANGED verdict /\ (GoTo(p, "preparing") \/ GoTo(p, "calling"))
      \/ \E kind \in Kinds : \E a \in Accounts \cup {NoAccount} : Decide(p, kind, a)
  BY <1>1, Reloaded DEF EnsureCredential, ForceRefresh, Kinds
<1>7. \A kind, a : Decide(p, kind, a) => GoTo(p, "recording")
  BY DEF Decide
<1>8. stage' \in [Requests -> Stages] /\ \A q \in Requests : q # p => stage'[q] = stage[q]
  <2>1. \A s \in {"preparing", "calling", "recording"} : s \in Stages
    BY DEF Stages
  <2>2. QED
    BY <1>6, <1>7, <2>1, Gone
<1>9. verdict' \in [Requests -> Verdicts] /\ \A q \in Requests : q # p => verdict'[q] = verdict[q]
  BY <1>6, Decided DEF Carried, Verdicts
<1>10. QED
  BY <1>2, <1>5, <1>8, <1>9 DEF EnsureCredential, ForceRefresh, Carried, Own, Candidates, Verdicts

LEMMA ExecuteTypes ==
    ASSUME IInv, IInv', Carried, NEW p \in Requests, Execute(p)
    PROVE  Carried' /\ Own(p)
<1>. USE DEF Carried, Own
<1>1. candidate[p].account \in Accounts \cup {NoAccount} /\ NoAccount \in Accounts \cup {NoAccount}
  BY Reloaded DEF Candidates
<1>2. \A s \in Stages : GoTo(p, s) =>
         /\ stage' \in [Requests -> Stages]
         /\ \A q \in Requests : q # p => stage'[q] = stage[q]
  BY Gone
<1>3. \A s \in {"idle", "planning", "preparing", "calling", "answered", "refreshing", "copying",
                "recording", "releasing", "reporting"} : s \in Stages
  BY DEF Stages
<1>4. \A kind \in Kinds : \A a \in Accounts \cup {NoAccount} : Decide(p, kind, a) =>
         /\ GoTo(p, "recording") /\ verdict' \in [Requests -> Verdicts]
         /\ \A q \in Requests : q # p => verdict'[q] = verdict[q]
  BY Decided DEF Decide
<1>5. \A s \in ErrorStatuses : Failure(s) \in Kinds
  BY DEF ErrorStatuses, Failure, Kinds
<1>6. \A k \in {"none", "success", "network"} : k \in Kinds
  BY DEF Kinds
<1>7. CASE Begin(p)
  BY <1>2, <1>3, <1>7 DEF Begin
<1>8. CASE PlanStep(p)
  BY <1>8, PlanTypes
<1>9. CASE KeepCredential(p)
  BY <1>2, <1>3, <1>9 DEF KeepCredential
<1>10. CASE EnsureCredential(p) \/ ForceRefresh(p)
  BY <1>10, EnsureTypes
<1>11. CASE Prepare(p)
  BY <1>1, <1>2, <1>3, <1>4, <1>6, <1>11 DEF Prepare, Verdicts
<1>12. CASE Call(p)
  <2>1. /\ calls' \in [Requests -> Nat] /\ answer' \in [Requests -> Answers]
        /\ \A q \in Requests : q # p => calls'[q] = calls[q] /\ answer'[q] = answer[q]
    <3>1. PICK s \in Answers : answer' = [answer EXCEPT ![p] = s]
      BY <1>12 DEF Call, Answers
    <3>2. calls' = [calls EXCEPT ![p] = calls[p] + 1]
      BY <1>12 DEF Call
    <3>3. calls' \in [Requests -> Nat] /\ \A q \in Requests : q # p => calls'[q] = calls[q]
      <4>0. calls[p] \in Nat
        OBVIOUS
      <4>1. calls[p] + 1 \in Nat
        BY ONLY <4>0
      <4>2. QED
        BY <3>2, <4>1
    <3>4. answer' \in [Requests -> Answers] /\ \A q \in Requests : q # p => answer'[q] = answer[q]
      BY <3>1
    <3>5. QED
      BY <3>3, <3>4
  <2>2. /\ stage' \in [Requests -> Stages] /\ verdict' \in [Requests -> Verdicts]
        /\ \A q \in Requests : q # p => stage'[q] = stage[q] /\ verdict'[q] = verdict[q]
    BY <1>1, <1>2, <1>3, <1>4, <1>6, <1>12 DEF Call, Verdicts
  <2>3. QED
    BY <1>12, <2>1, <2>2 DEF Call, Verdicts
<1>13. CASE Accepted(p)
  BY <1>2, <1>3, <1>13 DEF Accepted
<1>14. CASE Refused(p)
  BY <1>1, <1>2, <1>3, <1>4, <1>5, <1>14 DEF Refused, Verdicts
<1>15. CASE Copy(p)
  BY <1>1, <1>2, <1>3, <1>4, <1>6, <1>15 DEF Copy, Verdicts
<1>16. CASE RecordVerdict(p) \/ ReleaseLease(p)
  BY <1>2, <1>3, <1>16 DEF RecordVerdict, ReleaseLease
<1>17. CASE Report(p)
  <2>1. EmptyCandidate \in Candidates /\ NoVerdict \in Verdicts
    BY RowTypes DEF EmptyCandidate, NoVerdict, Kinds
  <2>2. candidate \in [Requests -> Candidates] /\ verdict \in [Requests -> Verdicts]
    BY DEF Candidates, Verdicts
  <2>3. candidate' \in [Requests -> Candidates] /\ verdict' \in [Requests -> Verdicts]
    BY <1>17, <2>1, <2>2 DEF Report
  <2>4. QED
    BY <1>2, <1>3, <1>17, <2>3 DEF Report, Candidates, Verdicts, Answers
<1>18. QED
  BY <1>7, <1>8, <1>9, <1>10, <1>11, <1>12, <1>13, <1>14, <1>15, <1>16, <1>17 DEF Execute

-----------------------------------------------------------------------------
(***************************************************************************)
(* The request that moves stays sound, stage by stage.                     *)
(***************************************************************************)
\* What is to be shown of a request that goes to the verdict.
Recordable(p) ==
    /\ stage[p] = "recording" /\ phase[p] = "leased"
    /\ verdict[p].kind # "none" => verdict[p].account = lease[p].account
    /\ calls[p] <= 1 \/ (calls[p] = 2 /\ Retried(p))
    /\ answer[p] = "4xx" => verdict[p].kind = "none"
    /\ verdict[p].kind = "unauthorized" =>
          \/ answer[p] = "403"
          \/ /\ answer[p] = "401"
             /\ lease[p].account \in OAuthAccounts => calls[p] = 2 \/ ensured[p] = "reauth_required"

LEMMA RecordableIsSound ==
    ASSUME NEW p \in Requests
    PROVE  Recordable(p)' => Sound(p)'
BY DEF Recordable, Sound, InPhase, SameAccount, CallsMade, Fair, Serving

LEMMA StartsSound ==
    ASSUME Carried, NEW p \in Requests, Sound(p),
           Begin(p) \/ KeepCredential(p) \/ Accepted(p) \/ Report(p)
    PROVE  Sound(p)'
<1>1. phase' = phase /\ lease' = lease
  BY DEF Begin, KeepCredential, Accepted, Report, vars
<1>2. CASE Begin(p)
  <2>1. phase[p] = "idle" /\ calls[p] = 0 /\ answer[p] = "none"
    BY <1>2 DEF Begin, Sound, InPhase, CallsMade, Fair
  <2>2. stage'[p] \in {"planning", "reporting"} /\ calls' = calls /\ answer' = answer
    BY <1>2 DEF Begin, GoTo, Carried
  <2>3. QED
    BY <1>1, <2>1, <2>2 DEF Sound, InPhase, SameAccount, CallsMade, Fair, Serving
<1>3. CASE KeepCredential(p)
  <2>1. /\ phase[p] = "leased" /\ calls[p] = 0 /\ answer[p] = "none"
        /\ candidate[p].account = lease[p].account
    BY <1>3 DEF KeepCredential, Sound, InPhase, SameAccount, CallsMade, Fair, Serving
  <2>2. stage'[p] = "preparing" /\ calls' = calls /\ answer' = answer /\ candidate' = candidate
    BY <1>3 DEF KeepCredential, GoTo, Carried
  <2>3. QED
    BY <1>1, <2>1, <2>2 DEF Sound, InPhase, SameAccount, CallsMade, Fair, Serving
<1>4. CASE Accepted(p)
  <2>1. /\ phase[p] = "leased" /\ candidate[p].account = lease[p].account
        /\ answer[p] \in Statuses2xx /\ (calls[p] = 1 \/ (calls[p] = 2 /\ Retried(p)))
    BY <1>4 DEF Accepted, Sound, InPhase, SameAccount, CallsMade, Serving
  <2>2. stage'[p] = "copying" /\ calls' = calls /\ answer' = answer /\ candidate' = candidate
        /\ Retried(p)' = Retried(p)
    BY <1>1, <1>4 DEF Accepted, GoTo, Carried, Retried
  <2>3. QED
    BY <1>1, <2>1, <2>2 DEF Sound, InPhase, SameAccount, CallsMade, Fair, Serving
<1>5. CASE Report(p)
  <2>1. phase[p] = "idle"
    BY <1>5 DEF Report, Sound, InPhase
  <2>2. stage'[p] = "idle" /\ calls'[p] = 0 /\ answer'[p] = "none"
    BY <1>5 DEF Report, GoTo, Carried
  <2>3. QED
    BY <1>1, <2>1, <2>2 DEF Sound, InPhase, SameAccount, CallsMade, Fair, Serving
<1>6. QED
  BY <1>2, <1>3, <1>4, <1>5

LEMMA PlanSound ==
    ASSUME IInv, Carried, NEW p \in Requests, Sound(p), PlanStep(p)
    PROVE  Sound(p)'
<1>1. phase'[p] \in {"idle", "queried", "inspected", "leased"}
  BY PlanPhase DEF PlanStep, IInv
<1>2. calls[p] = 0 /\ answer[p] = "none"
  BY DEF PlanStep, Sound, CallsMade, Fair
<1>3. calls' = calls /\ answer' = answer
  BY DEF PlanStep
<1>4. CASE phase'[p] = "leased"
  <2> DEFINE c == [account |-> lease'[p].account, model |-> "configured"]
  <2>1. candidate' = [candidate EXCEPT ![p] = c] /\ stage' = [stage EXCEPT ![p] = "ensuring"]
    BY <1>4 DEF PlanStep, GoTo
  <2>2. c.account = lease'[p].account
    OBVIOUS
  <2>. HIDE DEF c
  <2>3. candidate'[p].account = lease'[p].account /\ stage'[p] = "ensuring"
    BY <2>1, <2>2 DEF Carried
  <2>4. QED
    BY <1>2, <1>3, <1>4, <2>3 DEF Sound, InPhase, SameAccount, CallsMade, Fair, Serving
<1>5. CASE phase'[p] # "leased"
  <2>1. stage'[p] = IF phase'[p] = "idle" THEN "reporting" ELSE "planning"
    BY <1>5 DEF PlanStep, GoTo, Carried
  <2>2. QED
    BY <1>1, <1>2, <1>3, <1>5, <2>1 DEF Sound, InPhase, SameAccount, CallsMade, Fair, Serving
<1>6. QED
  BY <1>4, <1>5

\* What a decision writes, with the account of the candidate or with none.
LEMMA DecidedSame ==
    ASSUME Carried, NEW p \in Requests
    PROVE  \A kind \in Kinds : \A a \in {candidate[p].account, NoAccount} :
              Decide(p, kind, a) =>
                 /\ stage'[p] = "recording"
                 /\ verdict'[p].kind = kind /\ verdict'[p].account = a
<1>1. candidate[p] \in Candidates
  BY DEF Carried, Candidates
<1>2. candidate[p].account \in Accounts \cup {NoAccount}
  BY <1>1, Reloaded
<1>3. \A kind \in Kinds : \A a \in Accounts \cup {NoAccount} :
         Decide(p, kind, a) => verdict'[p].kind = kind /\ verdict'[p].account = a
  BY Decided
<1>4. \A kind, a : Decide(p, kind, a) => stage'[p] = "recording"
  BY DEF Decide, GoTo, Carried
<1>5. QED
  BY <1>2, <1>3, <1>4

\* A candidate loaded anew is one of the same account.
LEMMA ReloadedSame ==
    ASSUME Carried, NEW p \in Requests, candidate' = [candidate EXCEPT ![p].model = ""]
    PROVE  candidate'[p].account = candidate[p].account
<1>1. candidate[p] \in Candidates
  BY DEF Carried, Candidates
<1>. DEFINE c == [candidate[p] EXCEPT !.model = ""]
<1>2. c \in Candidates /\ c.account = candidate[p].account
  BY <1>1, Reloaded
<1>3. candidate' = [candidate EXCEPT ![p] = c]
  OBVIOUS
<1>. HIDE DEF c
<1>4. candidate'[p] = c
  BY <1>2, <1>3, CandidateSet
<1>5. QED
  BY <1>2, <1>4

LEMMA EnsureSound ==
    ASSUME Carried, NEW p \in Requests, Sound(p), EnsureCredential(p)
    PROVE  Sound(p)'
<1>1. phase' = phase /\ lease' = lease /\ calls' = calls /\ answer' = answer
  BY DEF EnsureCredential, vars
<1>2. /\ phase[p] = "leased" /\ calls[p] = 0 /\ answer[p] = "none"
      /\ candidate[p].account = lease[p].account
  BY DEF EnsureCredential, Sound, InPhase, SameAccount, CallsMade, Fair, Serving
<1>3. CASE GoTo(p, "preparing") /\ candidate' = [candidate EXCEPT ![p].model = ""]
  <2>1. stage'[p] = "preparing"
    BY <1>3 DEF GoTo, Carried
  <2>2. candidate'[p].account = lease[p].account
    BY <1>2, <1>3, ReloadedSame
  <2>3. QED
    BY <1>1, <1>2, <2>1, <2>2 DEF Sound, InPhase, SameAccount, CallsMade, Fair, Serving
<1>4. CASE Decide(p, "none", NoAccount)
  <2>1. stage'[p] = "recording" /\ verdict'[p].kind = "none"
    BY <1>4, DecidedSame DEF Kinds
  <2>2. Recordable(p)'
    BY <1>1, <1>2, <2>1 DEF Recordable
  <2>3. QED
    BY <2>2, RecordableIsSound
<1>5. QED
  BY <1>3, <1>4 DEF EnsureCredential

LEMMA RefreshSound ==
    ASSUME Carried, NEW p \in Requests, Sound(p), ForceRefresh(p)
    PROVE  Sound(p)'
<1>1. phase' = phase /\ lease' = lease /\ calls' = calls /\ answer' = answer
  BY DEF ForceRefresh, vars
<1>2. /\ phase[p] = "leased" /\ calls[p] = 1 /\ answer[p] = "401"
      /\ candidate[p].account = lease[p].account /\ lease[p].account \in OAuthAccounts
  BY DEF ForceRefresh, Sound, InPhase, SameAccount, CallsMade, Serving
<1>3. CASE /\ ensured' = [ensured EXCEPT ![p] = "reloaded"]
           /\ GoTo(p, "calling") /\ candidate' = [candidate EXCEPT ![p].model = ""]
  <2>1. stage'[p] = "calling" /\ ensured'[p] = "reloaded"
    BY <1>3 DEF GoTo, Carried
  <2>2. candidate'[p].account = lease[p].account
    BY <1>2, <1>3, ReloadedSame
  <2>3. QED
    BY <1>1, <1>2, <2>1, <2>2
    DEF Sound, InPhase, SameAccount, CallsMade, Retried, Fair, Serving
<1>4. ASSUME NEW code \in EnsureErrors,
             ensured' = [ensured EXCEPT ![p] = code],
             Decide(p, IF code = "reauth_required" THEN "unauthorized" ELSE "network",
                    candidate[p].account)
      PROVE  Sound(p)'
  <2>1. ensured'[p] = code
    BY <1>4 DEF Carried
  <2>2. /\ stage'[p] = "recording" /\ verdict'[p].account = lease[p].account
        /\ verdict'[p].kind = IF code = "reauth_required" THEN "unauthorized" ELSE "network"
    BY <1>2, <1>4, DecidedSame DEF Kinds
  <2>3. Recordable(p)'
    BY <1>1, <1>2, <2>1, <2>2 DEF Recordable
  <2>4. QED
    BY <2>3, RecordableIsSound
<1>5. QED
  BY <1>3, <1>4 DEF ForceRefresh

LEMMA CallSound ==
    ASSUME Carried, NEW p \in Requests, Sound(p), Prepare(p) \/ Call(p)
    PROVE  Sound(p)'
<1>1. phase' = phase /\ lease' = lease /\ candidate' = candidate /\ ensured' = ensured
  BY DEF Prepare, Call, vars
<1>2. phase[p] = "leased" /\ candidate[p].account = lease[p].account
  BY DEF Prepare, Call, Sound, InPhase, SameAccount, Serving
<1>3. CASE Prepare(p)
  <2>1. calls[p] = 0 /\ answer[p] = "none" /\ calls' = calls /\ answer' = answer
    BY <1>3 DEF Prepare, Sound, CallsMade, Fair
  <2>2. CASE GoTo(p, "calling")
    <3>1. stage'[p] = "calling"
      BY <2>2 DEF GoTo, Carried
    <3>2. QED
      BY <1>1, <1>2, <2>1, <3>1 DEF Sound, InPhase, SameAccount, CallsMade, Fair, Serving
  <2>3. CASE Decide(p, "none", NoAccount)
    <3>1. stage'[p] = "recording" /\ verdict'[p].kind = "none"
      BY <2>3, DecidedSame DEF Kinds
    <3>2. QED
      BY <1>1, <1>2, <2>1, <3>1, RecordableIsSound DEF Recordable
  <2>4. QED
    BY <1>3, <2>2, <2>3 DEF Prepare
<1>4. CASE Call(p)
  <2>1. calls[p] = 0 \/ (calls[p] = 1 /\ Retried(p))
    BY <1>4 DEF Call, Sound, CallsMade
  <2>2. calls'[p] = 1 \/ (calls'[p] = 2 /\ Retried(p)')
    <3>1. calls'[p] = calls[p] + 1
      BY <1>4 DEF Call, Carried
    <3>2. QED
      BY <1>1, <2>1, <3>1 DEF Retried
  <2>3. CASE GoTo(p, "answered")
    <3>1. stage'[p] = "answered"
      BY <2>3 DEF GoTo, Carried
    <3>2. QED
      BY <1>1, <1>2, <2>2, <3>1 DEF Sound, InPhase, SameAccount, CallsMade, Fair, Serving
  <2>4. CASE answer' = [answer EXCEPT ![p] = "no_answer"]
             /\ Decide(p, "network", candidate[p].account)
    <3>1. answer'[p] = "no_answer"
      BY <2>4 DEF Carried
    <3>2. /\ stage'[p] = "recording" /\ verdict'[p].kind = "network"
          /\ verdict'[p].account = lease[p].account
      BY <1>2, <2>4, DecidedSame DEF Kinds
    <3>3. QED
      BY <1>1, <1>2, <2>2, <3>1, <3>2, RecordableIsSound DEF Recordable
  <2>5. QED
    BY <1>4, <2>3, <2>4 DEF Call
<1>5. QED
  BY <1>3, <1>4

LEMMA AnswerSound ==
    ASSUME Carried, NEW p \in Requests, Sound(p), Refused(p) \/ Copy(p)
    PROVE  Sound(p)'
<1>1. /\ phase' = phase /\ lease' = lease /\ candidate' = candidate /\ ensured' = ensured
      /\ calls' = calls /\ answer' = answer
  BY DEF Refused, Copy, vars
<1>2. phase[p] = "leased" /\ candidate[p].account = lease[p].account
  BY DEF Refused, Copy, Sound, InPhase, SameAccount, Serving
<1>3. CASE Refused(p)
  <2>1. calls[p] = 1 \/ (calls[p] = 2 /\ Retried(p))
    BY <1>3 DEF Refused, Sound, CallsMade
  <2>2. CASE answer[p] = "401" /\ IsOAuth(p) /\ calls[p] = 1
    <3>1. stage'[p] = "refreshing"
      BY <1>3, <2>2 DEF Refused, GoTo, Carried
    <3>2. lease[p].account \in OAuthAccounts
      BY <1>2, <2>2 DEF IsOAuth
    <3>3. QED
      BY <1>1, <1>2, <2>2, <3>1, <3>2 DEF Sound, InPhase, SameAccount, CallsMade, Fair, Serving
  <2>3. CASE ~(answer[p] = "401" /\ IsOAuth(p) /\ calls[p] = 1)
    <3>1. answer[p] \in ErrorStatuses /\ Decide(p, Failure(answer[p]), candidate[p].account)
      BY <1>3, <2>3 DEF Refused
    <3>2. Failure(answer[p]) \in Kinds
      BY <3>1 DEF ErrorStatuses, Failure, Kinds
    <3>3. /\ stage'[p] = "recording" /\ verdict'[p].kind = Failure(answer[p])
          /\ verdict'[p].account = lease[p].account
      BY <1>2, <3>1, <3>2, DecidedSame
    <3>4. /\ answer[p] = "4xx" => Failure(answer[p]) = "none"
          /\ Failure(answer[p]) = "unauthorized" => answer[p] \in {"401", "403"}
      BY <3>1 DEF ErrorStatuses, Failure
    <3>5. answer[p] = "401" /\ lease[p].account \in OAuthAccounts => calls[p] = 2
      BY <1>2, <2>1, <2>3 DEF IsOAuth
    <3>6. Recordable(p)'
      BY <1>1, <1>2, <2>1, <3>3, <3>4, <3>5 DEF Recordable, Retried
    <3>7. QED
      BY <3>6, RecordableIsSound
  <2>4. QED
    BY <2>2, <2>3
<1>4. CASE Copy(p)
  <2>1. answer[p] \in Statuses2xx /\ (calls[p] <= 1 \/ (calls[p] = 2 /\ Retried(p)))
    BY <1>4 DEF Copy, Sound, CallsMade, Fair
  <2>2. PICK kind \in {"success", "network", "none"} : Decide(p, kind, candidate[p].account)
    BY <1>4 DEF Copy
  <2>3. /\ stage'[p] = "recording" /\ verdict'[p].kind = kind
        /\ verdict'[p].account = lease[p].account
    BY <1>2, <2>2, DecidedSame DEF Kinds
  <2>4. Recordable(p)'
    BY <1>1, <1>2, <2>1, <2>3 DEF Recordable, Retried, Statuses2xx
  <2>5. QED
    BY <2>4, RecordableIsSound
<1>5. QED
  BY <1>3, <1>4

LEMMA EndSound ==
    ASSUME IInv, Carried, NEW p \in Requests, Sound(p), RecordVerdict(p) \/ ReleaseLease(p)
    PROVE  Sound(p)'
<1>1. /\ candidate' = candidate /\ ensured' = ensured /\ calls' = calls /\ answer' = answer
      /\ verdict' = verdict
  BY DEF RecordVerdict, ReleaseLease
<1>2. CASE RecordVerdict(p)
  <2>1. lease' = lease /\ phase'[p] \in {"marked", "settled"}
    BY <1>2, WriteIsRecord, RecordPhase DEF RecordVerdict, IInv
  <2>2. stage'[p] = IF phase'[p] = "settled" THEN "releasing" ELSE "recording"
    BY <1>2 DEF RecordVerdict, GoTo, Carried
  <2>3. stage[p] = "recording"
    BY <1>2 DEF RecordVerdict
  <2>4. CASE phase'[p] = "settled"
    BY <1>1, <2>1, <2>2, <2>3, <2>4
    DEF Sound, InPhase, SameAccount, CallsMade, Retried, Fair, Serving
  <2>5. CASE phase'[p] = "marked"
    BY <1>1, <2>1, <2>2, <2>3, <2>5
    DEF Sound, InPhase, SameAccount, CallsMade, Retried, Fair, Serving
  <2>6. QED
    BY <2>1, <2>4, <2>5
<1>3. CASE ReleaseLease(p)
  <2>1. phase'[p] = "idle" /\ stage'[p] = "reporting"
    BY <1>3 DEF ReleaseLease, Release, GoTo, Carried, IInv, TypeOK
  <2>2. calls[p] <= 2
    <3>1. calls[p] \in Nat
      BY DEF Carried
    <3>2. calls[p] <= 1 \/ calls[p] = 2
      BY <1>3 DEF ReleaseLease, Sound, CallsMade
    <3>3. QED
      BY <3>1, <3>2
  <2>3. QED
    BY <1>1, <2>1, <2>2 DEF Sound, InPhase, SameAccount, CallsMade, Fair, Serving
<1>4. QED
  BY <1>2, <1>3

-----------------------------------------------------------------------------
(***************************************************************************)
(* Every step.                                                             *)
(***************************************************************************)
LEMMA ExecuteSound ==
    ASSUME IInv, IInv', Carried, NEW p \in Requests, Execute(p), \A q \in Requests : Sound(q)
    PROVE  \A q \in Requests : Sound(q)'
<1>1. Sound(p)'
  BY StartsSound, PlanSound, EnsureSound, RefreshSound, CallSound, AnswerSound, EndSound
  DEF Execute
<1>2. Own(p)
  BY ExecuteTypes
<1>3. \A q \in Requests : q # p => phase'[q] = phase[q] /\ lease'[q] = lease[q]
  <2>1. CASE PlanStep(p) \/ RecordVerdict(p) \/ ReleaseLease(p)
    BY <2>1, WriteIsRecord, OwnPhase DEF PlanStep, RecordVerdict, ReleaseLease, IInv
  <2>2. CASE UNCHANGED vars
    BY <2>2 DEF vars
  <2>3. QED
    BY <2>1, <2>2
    DEF Execute, Begin, KeepCredential, EnsureCredential, Prepare, Call, Accepted, Refused,
        ForceRefresh, Copy, Report
<1>4. ASSUME NEW q \in Requests, q # p PROVE Sound(q)'
  <2>1. Sound(q)
    OBVIOUS
  <2>2. QED
    BY <1>2, <1>3, <1>4, <2>1
    DEF Own, Sound, InPhase, SameAccount, CallsMade, Retried, Fair
<1>5. QED
  BY <1>1, <1>4

\* An execution that has not begun.
LEMMA IdleSound ==
    ASSUME NEW p \in Requests, stage[p] = "idle", phase[p] = "idle", calls[p] = 0,
           answer[p] = "none"
    PROVE  Sound(p)
BY DEF Sound, InPhase, SameAccount, CallsMade, Fair, Serving

LEMMA FreshTypes ==
    ASSUME stage = [p \in Requests |-> "idle"],
           candidate = [p \in Requests |-> EmptyCandidate],
           ensured = [p \in Requests |-> "none"],
           calls = [p \in Requests |-> 0],
           answer = [p \in Requests |-> "none"],
           verdict = [p \in Requests |-> NoVerdict]
    PROVE  Carried
<1>1. EmptyCandidate \in Candidates /\ NoVerdict \in Verdicts
  BY RowTypes DEF EmptyCandidate, NoVerdict, Kinds
<1>2. candidate \in [Requests -> Candidates] /\ verdict \in [Requests -> Verdicts]
  BY <1>1
<1>3. QED
  BY <1>2 DEF Carried, Candidates, Verdicts, Stages, Answers

Fresh == /\ stage = [p \in Requests |-> "idle"]
         /\ candidate = [p \in Requests |-> EmptyCandidate]
         /\ ensured = [p \in Requests |-> "none"]
         /\ calls = [p \in Requests |-> 0]
         /\ answer = [p \in Requests |-> "none"]
         /\ verdict = [p \in Requests |-> NoVerdict]
         /\ phase = [p \in Requests |-> "idle"]

LEMMA FreshIsSound == Fresh => Carried /\ \A p \in Requests : Sound(p)
BY FreshTypes, IdleSound DEF Fresh

LEMMA FreshNext == Fresh' => Carried' /\ \A p \in Requests : Sound(p)'
<1>1. (Fresh => Carried /\ \A p \in Requests : Sound(p))'
  BY FreshIsSound, PTL
<1>2. QED
  BY <1>1

LEMMA GatewayInitInvariant == GatewayInit => GInv
BY FreshIsSound, InitInvariant DEF GatewayInit, Init, Fresh, GInv

LEMMA GatewayNextInvariant == GInv /\ [GatewayNext]_gvars => GInv'
<1>. SUFFICES ASSUME GInv, [GatewayNext]_gvars PROVE GInv'
  OBVIOUS
<1>1. IInv'
  BY GatewayIsScheduler, NextInvariant DEF GInv
<1>2. CASE \E p \in Requests : Execute(p)
  BY <1>1, <1>2, ExecuteTypes, ExecuteSound DEF GInv
<1>3. CASE RestartGateway
  <2>1. Fresh'
    BY <1>3 DEF RestartGateway, Restart, Fresh
  <2>2. QED
    BY <1>1, <2>1, FreshNext DEF GInv
<1>4. CASE phase' = phase /\ lease' = lease /\ UNCHANGED gatewayVars
  BY <1>1, <1>4
  DEF GInv, gatewayVars, Carried, Sound, InPhase, SameAccount, CallsMade, Retried, Fair
<1>5. QED
  BY <1>2, <1>3, <1>4
  DEF GatewayNext, Administer, UpdateAccount, BeginAccountValidation, FinishAccountValidation,
      CompleteOAuthAccount, RefreshRefused, Activate, Tick, gvars, vars

-----------------------------------------------------------------------------
(***************************************************************************)
(* What an execution knows agrees with the lease it holds at every stage.  *)
(***************************************************************************)
THEOREM ExecutionsSound == GatewaySpec => []GInv
BY GatewayInitInvariant, GatewayNextInvariant, PTL DEF GatewaySpec

(***************************************************************************)
(* The executions stay well typed, and each holds a lease exactly from its *)
(* plan to its deferred release, on every early return (Execute).          *)
(***************************************************************************)
THEOREM LeaseHeldMeanwhile == GatewaySpec => []GatewayTypeOK
<1>1. ASSUME GInv, NEW p \in Requests PROVE stage[p] \in LeaseStages <=> lease[p] # NoLease
  <2>1. /\ stage[p] \in Stages /\ Sound(p)
        /\ (lease[p] # NoLease <=> phase[p] \in {"leased", "marked", "settled"})
    BY <1>1 DEF GInv, IInv, LeaseFollowsPhase, Carried
  <2>2. QED
    BY <2>1 DEF Sound, InPhase, Serving, Stages, LeaseStages
<1>2. GInv => GatewayTypeOK
  BY <1>1 DEF GInv, Carried, GatewayTypeOK, Kinds, Answers
<1>3. QED
  BY <1>2, ExecutionsSound, PTL

(***************************************************************************)
(* Every call goes to the leased account and the verdict is recorded for   *)
(* it, for any number of requests and accounts (Execute's `selected`).     *)
(***************************************************************************)
THEOREM OneAccount == GatewaySpec => []OneAccountPerRequest
<1>1. GInv => OneAccountPerRequest
  BY DEF GInv, Sound, SameAccount, Serving, OneAccountPerRequest
<1>2. QED
  BY <1>1, ExecutionsSound, PTL

(***************************************************************************)
(* An execution calls the upstream at most twice, the second time for an   *)
(* OAuth account whose forced EnsureCredential returned without an error,  *)
(* whether that refreshed the token or not (Execute).                      *)
(***************************************************************************)
THEOREM OneRetry == GatewaySpec => []AtMostOneRetry
<1>1. GInv => AtMostOneRetry
  <2>. SUFFICES ASSUME GInv, NEW p \in Requests
                PROVE  /\ calls[p] <= 2
                       /\ calls[p] = 2 /\ lease[p] # NoLease => Retried(p)
    BY DEF AtMostOneRetry, Retried
  <2>1. CallsMade(p) /\ InPhase(p) /\ stage[p] \in Stages /\ calls[p] \in Nat
    BY DEF GInv, Sound, Carried
  <2>2. phase[p] \notin {"leased", "marked", "settled"} => lease[p] = NoLease
    BY DEF GInv, IInv, LeaseFollowsPhase
  <2>3. CASE stage[p] \in {"idle", "planning", "reporting"}
    BY <2>1, <2>2, <2>3 DEF CallsMade, InPhase
  <2>4. CASE stage[p] \in {"ensuring", "preparing", "calling", "answered", "refreshing"}
    BY <2>1, <2>4 DEF CallsMade
  <2>5. CASE stage[p] \in {"copying", "recording", "releasing"}
    BY <2>1, <2>5 DEF CallsMade
  <2>6. QED
    BY <2>1, <2>3, <2>4, <2>5 DEF Stages
<1>2. QED
  BY <1>1, ExecutionsSound, PTL

\* Which steps mark an account, or end the recording.
LEMMA Recorders ==
    ASSUME GInv, [GatewayNext]_gvars, NEW p \in Requests,
           \/ phase[p] = "leased" /\ phase'[p] = "marked"
           \/ stage[p] = "recording" /\ stage'[p] # "recording" /\ stage'[p] # "idle"
    PROVE  RecordVerdict(p)
<1>1. CASE \E q \in Requests : Execute(q)
  <2>1. PICK q \in Requests : Execute(q)
    BY <1>1
  <2>2. CASE q # p
    <3>1. Own(q)
      BY <2>1, ExecuteTypes, GatewayNextInvariant DEF GInv
    <3>2. phase'[p] = phase[p]
      <4>1. CASE PlanStep(q) \/ RecordVerdict(q) \/ ReleaseLease(q)
        BY <2>2, <4>1, WriteIsRecord, OwnPhase
        DEF PlanStep, RecordVerdict, ReleaseLease, GInv, IInv
      <4>2. CASE UNCHANGED vars
        BY <4>2 DEF vars
      <4>3. QED
        BY <2>1, <4>1, <4>2
        DEF Execute, Begin, KeepCredential, EnsureCredential, Prepare, Call, Accepted, Refused,
            ForceRefresh, Copy, Report
    <3>3. stage'[p] = stage[p]
      BY <2>2, <3>1 DEF Own
    <3>4. QED
      BY <3>2, <3>3
  <2>3. CASE q = p
    <3>1. PlanStep(p) => stage[p] = "planning" /\ phase'[p] # "marked"
      BY PlanPhase DEF PlanStep, GInv, IInv
    <3>2. ReleaseLease(p) => stage[p] = "releasing" /\ phase'[p] # "marked"
      BY DEF ReleaseLease, Release, GInv, IInv, TypeOK
    <3>3. CASE UNCHANGED vars /\ stage[p] # "recording"
      BY <3>3 DEF vars
    <3>4. QED
      BY <2>1, <2>3, <3>1, <3>2, <3>3
      DEF Execute, Begin, KeepCredential, EnsureCredential, Prepare, Call, Accepted, Refused,
          ForceRefresh, Copy, Report
  <2>4. QED
    BY <2>2, <2>3
<1>2. CASE RestartGateway
  BY <1>2 DEF RestartGateway, Restart
<1>3. CASE phase' = phase /\ stage' = stage
  BY <1>3
<1>4. QED
  BY <1>1, <1>2, <1>3
  DEF GatewayNext, Administer, UpdateAccount, BeginAccountValidation, FinishAccountValidation,
      CompleteOAuthAccount, RefreshRefused, Activate, Tick, gvars, vars, gatewayVars

(***************************************************************************)
(* An account is marked for re-authentication only after a 403, the 401 of *)
(* an account with an API key, a second 401, or a 401 after which          *)
(* EnsureCredential asked for it, whatever else runs (upstreamError,       *)
(* Execute).                                                               *)
(***************************************************************************)
THEOREM ReauthEarned == GatewaySpec => ReauthIsEarned
<1>1. ASSUME GInv, [GatewayNext]_gvars, NEW p \in Requests,
             phase[p] = "leased", phase'[p] = "marked"
      PROVE  \/ answer[p] = "403"
             \/ /\ answer[p] = "401"
                /\ lease[p].account \in OAuthAccounts =>
                      calls[p] = 2 \/ ensured[p] = "reauth_required"
  <2>1. RecordVerdict(p)
    BY <1>1, Recorders
  <2>2. stage[p] = "recording" /\ Fair(p)
    BY <1>1, <2>1 DEF RecordVerdict, GInv, Sound
  <2>3. verdict[p].kind = "unauthorized"
    BY <1>1, <2>1
    DEF RecordVerdict, Write, RecordSuccess, RecordReset, RecordBackoff, Settle, Unrecorded,
        GInv, IInv, TypeOK
  <2>4. QED
    BY <2>2, <2>3 DEF Fair
<1>2. GInv /\ [GatewayNext]_gvars =>
        [\A p \in Requests :
           phase[p] = "leased" /\ phase'[p] = "marked" =>
              \/ answer[p] = "403"
              \/ /\ answer[p] = "401"
                 /\ lease[p].account \in OAuthAccounts =>
                       calls[p] = 2 \/ ensured[p] = "reauth_required"]_gvars
  BY <1>1
<1>3. QED
  BY <1>2, ExecutionsSound, PTL DEF GatewaySpec, ReauthIsEarned

(***************************************************************************)
(* An error of the caller leaves the account as it was (upstreamError,     *)
(* RecordFailure).                                                         *)
(***************************************************************************)
THEOREM CallersNotPunished == GatewaySpec => CallerErrorsDoNotPunish
<1>1. ASSUME GInv, [GatewayNext]_gvars, NEW p \in Requests, answer[p] = "4xx",
             stage[p] = "recording", stage'[p] # "recording", stage'[p] # "idle"
      PROVE  UNCHANGED <<status, runtimeVars>>
  <2>1. RecordVerdict(p)
    BY <1>1, Recorders
  <2>2. verdict[p].kind = "none"
    BY <1>1 DEF GInv, Sound, Fair
  <2>3. QED
    BY <2>1, <2>2 DEF RecordVerdict, Write, Unrecorded, accountVars
<1>2. GInv /\ [GatewayNext]_gvars =>
        [\A p \in Requests :
           answer[p] = "4xx" /\ stage[p] = "recording" /\ stage'[p] # "recording"
           /\ stage'[p] # "idle" =>
              UNCHANGED <<status, runtimeVars>>]_gvars
  BY <1>1
<1>3. QED
  BY <1>2, ExecutionsSound, PTL DEF GatewaySpec, CallerErrorsDoNotPunish

-----------------------------------------------------------------------------
(***************************************************************************)
(* An execution is a client of the scheduler and nothing more: whatever    *)
(* holds of Scheduler, the counters, the limits and the lease pool, holds  *)
(* under any number of executions (Execute's calls of Plan, Record... and  *)
(* Release).                                                               *)
(***************************************************************************)
THEOREM GatewayImplementsScheduler == GatewaySpec => Spec
<1>1. GatewayInit => Init
  BY DEF GatewayInit
<1>2. [GatewayNext]_gvars => [Next]_vars
  BY GatewayIsScheduler
<1>3. QED
  BY <1>1, <1>2, PTL DEF GatewaySpec, Spec

\* The executions with a call to the account's upstream under way, or its
\* response open.
AtUpstream(a) ==
    {p \in Requests : stage[p] \in {"calling", "answered", "copying"} /\ candidate[p].account = a}

UpstreamWithinLimit ==
    \A a \in Accounts, m \in Limits :
        Cardinality({p \in AtUpstream(a) : lease[p].limit <= m}) <= m

(***************************************************************************)
(* No upstream account ever has more calls of the program at work than its *)
(* limit allows: the account of a candidate is the leased one through      *)
(* every refresh, and a lease outlives the response it was taken for       *)
(* (Execute's deferred Release, Plan's acquisition).                       *)
(***************************************************************************)
THEOREM UpstreamLimited == GatewaySpec => []UpstreamWithinLimit
<1>1. GInv => UpstreamWithinLimit
  <2>. SUFFICES ASSUME GInv, NEW a \in Accounts, NEW m \in Limits
                PROVE  Cardinality({p \in AtUpstream(a) : lease[p].limit <= m}) <= m
    BY DEF UpstreamWithinLimit
  <2>. DEFINE S == {p \in AtUpstream(a) : lease[p].limit <= m}
  <2>1. S \subseteq Within(a, m)
    <3>1. ASSUME NEW p \in S PROVE p \in Within(a, m)
      <4>1. p \in Requests /\ Sound(p) /\ stage[p] \in Serving /\ candidate[p].account = a
        BY <3>1 DEF GInv, AtUpstream, Serving
      <4>2. lease[p].account = a /\ phase[p] = "leased"
        BY <4>1 DEF Sound, SameAccount, InPhase
      <4>3. lease[p] # NoLease
        BY <4>1, <4>2 DEF GInv, IInv, LeaseFollowsPhase
      <4>4. QED
        BY <3>1, <4>1, <4>2, <4>3 DEF Within, Holders
    <3>2. QED
      BY <3>1
  <2>2. Within(a, m) \subseteq Requests
    BY DEF Within, Holders
  <2>3. /\ Cardinality(S) <= Cardinality(Within(a, m))
        /\ Cardinality(S) \in Nat /\ Cardinality(Within(a, m)) \in Nat
    BY <2>1, <2>2, HoldersFinite, FS_Subset
  <2>4. Cardinality(Within(a, m)) <= m /\ m \in Nat
    BY SchedulerAssumption DEF GInv, IInv, LimitInv
  <2>5. QED
    BY <2>3, <2>4
<1>2. QED
  BY <1>1, ExecutionsSound, PTL
=============================================================================
