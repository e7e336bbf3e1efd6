----------------------- MODULE CredentialRefreshProofs -----------------------
(***************************************************************************)
(* The theorems about CredentialRefresh, for any number of callers, with   *)
(* every intervention and every bound.                                     *)
(***************************************************************************)
EXTENDS CredentialRefresh, TLAPS

(***************************************************************************)
(* What a leader has read against what the row holds now.  A credential    *)
(* changes only together with its version, so a version that is still the  *)
(* one read vouches for the token read; a token that was refused stays     *)
(* refused, for the provider only ever takes tokens it has just issued.    *)
(***************************************************************************)
ReadingIsFaithful ==
    \A p \in Callers :
        /\ pc[p] \in {"exchanging", "saving", "marking"} => readVersion[p] <= version
        /\ pc[p] \in {"exchanging", "marking"} /\ readVersion[p] = version =>
              readToken[p] = token
        /\ pc[p] = "saving" /\ readVersion[p] = version => token <= readToken[p]
        /\ pc[p] = "marking" => readToken[p] \notin accepted

IInv == TypeOK /\ LeaderIsInFlight /\ ReadingIsFaithful /\ OnlyDeadTokensMarked

LEMMA InitIInv == Init => IInv
  BY RefreshAssumption
  DEF Init, IInv, TypeOK, LeaderIsInFlight, ReadingIsFaithful, OnlyDeadTokensMarked,
      Statuses, Places, Leading, Results, Codes, NoResult, Error

LEMMA ResultsAreTyped ==
    /\ \A c \in Codes : Error(c) \in Results
    /\ \A v \in Nat : Ok(v) \in Results
    /\ NoResult \in Results
  BY DEF Results, Codes, Error, Ok, NoResult

USE DEF Statuses, Places, Leading, Codes, GoTo, Conclude, account, provider, args, read

LEMMA NextTypeOK == IInv /\ [Next]_vars => TypeOK'
<1> SUFFICES ASSUME IInv, [Next]_vars PROVE TypeOK'
  OBVIOUS
<1> USE RefreshAssumption, ResultsAreTyped DEF TypeOK, IInv
<1>1. ASSUME NEW p \in Callers, Select(p) PROVE TypeOK'
  BY <1>1 DEF Select
<1>2. ASSUME NEW p \in Callers, NotDue(p) PROVE TypeOK'
  BY <1>2 DEF NotDue
<1>3. ASSUME NEW p \in Callers, Enter(p) PROVE TypeOK'
  BY <1>3 DEF Enter
<1>4. ASSUME NEW p \in Callers, CancelWaiter(p) PROVE TypeOK'
  BY <1>4 DEF CancelWaiter
<1>5. ASSUME NEW p \in Callers, CancelLeader(p) PROVE TypeOK'
  BY <1>5 DEF CancelLeader
<1>6. ASSUME NEW p \in Callers, Load(p) PROVE TypeOK'
  BY <1>6 DEF Load
<1>7. ASSUME NEW p \in Callers, Read(p) PROVE TypeOK'
  BY <1>7 DEF Read
<1>8. ASSUME NEW p \in Callers, Exchange(p) PROVE TypeOK'
  <2>1. CASE issued' = issued + 1
    <3>1. 1..issued \subseteq 1..issued' /\ 0..issued \subseteq 0..issued'
      BY <2>1
    <3>2. /\ issued < MaxToken
          /\ accepted' = (accepted \ {readToken[p]}) \cup {issued + 1}
      BY <1>8, <2>1 DEF Exchange
    <3>3. issued' \in 1..MaxToken /\ issued' \in 1..issued'
      BY <2>1, <3>2
    <3>4. accepted \subseteq 1..issued'
      BY <3>1
    <3>5. accepted' \subseteq 1..issued'
      BY <2>1, <3>2, <3>3, <3>4
    <3>6. readToken' \in [Callers -> 0..issued']
      BY <1>8, <2>1, <3>1 DEF Exchange
    <3>7. QED
      BY <1>8, <2>1, <3>1, <3>3, <3>6, <3>5 DEF Exchange
  <2>2. CASE issued' # issued + 1
    BY <1>8, <2>2 DEF Exchange
  <2>3. QED
    BY <2>1, <2>2
<1>9. ASSUME NEW p \in Callers, Unavailable(p) PROVE TypeOK'
  BY <1>9 DEF Unavailable
<1>10. ASSUME NEW p \in Callers, Save(p) PROVE TypeOK'
  BY <1>10 DEF Save, ReadingIsFaithful
<1>11. ASSUME NEW p \in Callers, Reload(p) PROVE TypeOK'
  BY <1>11 DEF Reload
<1>12. ASSUME NEW p \in Callers, Mark(p) PROVE TypeOK'
  BY <1>12 DEF Mark
<1>13. ASSUME NEW p \in Callers, Publish(p) PROVE TypeOK'
  BY <1>13 DEF Publish
<1>14. ASSUME NEW p \in Callers, Finish(p) PROVE TypeOK'
  BY <1>14 DEF Finish
<1>15. CASE Disable
  BY <1>15 DEF Disable
<1>16. CASE Reauthorize
  BY <1>16 DEF Reauthorize
<1>17. CASE Revoke
  BY <1>17 DEF Revoke
<1>18. CASE UNCHANGED vars
  BY <1>18 DEF vars
<1>19. QED
  BY <1>1, <1>2, <1>3, <1>4, <1>5, <1>6, <1>7, <1>8, <1>9, <1>10, <1>11, <1>12, <1>13, <1>14, <1>15, <1>16, <1>17, <1>18
  DEF Next, Step

LEMMA NextLeader == IInv /\ [Next]_vars => LeaderIsInFlight'
<1> SUFFICES ASSUME IInv, [Next]_vars PROVE LeaderIsInFlight'
  OBVIOUS
<1> USE RefreshAssumption DEF IInv, TypeOK, LeaderIsInFlight
<1>1. ASSUME NEW p \in Callers, Select(p) PROVE LeaderIsInFlight'
  BY <1>1 DEF Select
<1>2. ASSUME NEW p \in Callers, NotDue(p) PROVE LeaderIsInFlight'
  BY <1>2 DEF NotDue
<1>3. ASSUME NEW p \in Callers, Enter(p) PROVE LeaderIsInFlight'
  BY <1>3 DEF Enter
<1>4. ASSUME NEW p \in Callers, CancelWaiter(p) PROVE LeaderIsInFlight'
  BY <1>4 DEF CancelWaiter
<1>5. ASSUME NEW p \in Callers, CancelLeader(p) PROVE LeaderIsInFlight'
  BY <1>5 DEF CancelLeader
<1>6. ASSUME NEW p \in Callers, Load(p) PROVE LeaderIsInFlight'
  BY <1>6 DEF Load
<1>7. ASSUME NEW p \in Callers, Read(p) PROVE LeaderIsInFlight'
  BY <1>7 DEF Read
<1>8. ASSUME NEW p \in Callers, Exchange(p) PROVE LeaderIsInFlight'
  BY <1>8 DEF Exchange
<1>9. ASSUME NEW p \in Callers, Unavailable(p) PROVE LeaderIsInFlight'
  BY <1>9 DEF Unavailable
<1>10. ASSUME NEW p \in Callers, Save(p) PROVE LeaderIsInFlight'
  BY <1>10 DEF Save
<1>11. ASSUME NEW p \in Callers, Reload(p) PROVE LeaderIsInFlight'
  BY <1>11 DEF Reload
<1>12. ASSUME NEW p \in Callers, Mark(p) PROVE LeaderIsInFlight'
  BY <1>12 DEF Mark
<1>13. ASSUME NEW p \in Callers, Publish(p) PROVE LeaderIsInFlight'
  BY <1>13 DEF Publish
<1>14. ASSUME NEW p \in Callers, Finish(p) PROVE LeaderIsInFlight'
  BY <1>14 DEF Finish
<1>15. CASE Disable
  BY <1>15 DEF Disable
<1>16. CASE Reauthorize
  BY <1>16 DEF Reauthorize
<1>17. CASE Revoke
  BY <1>17 DEF Revoke
<1>18. CASE UNCHANGED vars
  BY <1>18 DEF vars
<1>19. QED
  BY <1>1, <1>2, <1>3, <1>4, <1>5, <1>6, <1>7, <1>8, <1>9, <1>10, <1>11, <1>12, <1>13, <1>14, <1>15, <1>16, <1>17, <1>18
  DEF Next, Step

LEMMA NextFaithful == IInv /\ [Next]_vars => ReadingIsFaithful'
<1> SUFFICES ASSUME IInv, [Next]_vars PROVE ReadingIsFaithful'
  OBVIOUS
<1> USE RefreshAssumption DEF IInv, TypeOK, LeaderIsInFlight, ReadingIsFaithful
<1>1. ASSUME NEW p \in Callers, Select(p) PROVE ReadingIsFaithful'
  BY <1>1 DEF Select
<1>2. ASSUME NEW p \in Callers, NotDue(p) PROVE ReadingIsFaithful'
  BY <1>2 DEF NotDue
<1>3. ASSUME NEW p \in Callers, Enter(p) PROVE ReadingIsFaithful'
  BY <1>3 DEF Enter
<1>4. ASSUME NEW p \in Callers, CancelWaiter(p) PROVE ReadingIsFaithful'
  BY <1>4 DEF CancelWaiter
<1>5. ASSUME NEW p \in Callers, CancelLeader(p) PROVE ReadingIsFaithful'
  BY <1>5 DEF CancelLeader
<1>6. ASSUME NEW p \in Callers, Load(p) PROVE ReadingIsFaithful'
  BY <1>6 DEF Load
<1>7. ASSUME NEW p \in Callers, Read(p) PROVE ReadingIsFaithful'
  BY <1>7 DEF Read
<1>8. ASSUME NEW p \in Callers, Exchange(p) PROVE ReadingIsFaithful'
  BY <1>8 DEF Exchange
<1>9. ASSUME NEW p \in Callers, Unavailable(p) PROVE ReadingIsFaithful'
  BY <1>9 DEF Unavailable
<1>10. ASSUME NEW p \in Callers, Save(p) PROVE ReadingIsFaithful'
  BY <1>10 DEF Save
<1>11. ASSUME NEW p \in Callers, Reload(p) PROVE ReadingIsFaithful'
  BY <1>11 DEF Reload
<1>12. ASSUME NEW p \in Callers, Mark(p) PROVE ReadingIsFaithful'
  BY <1>12 DEF Mark
<1>13. ASSUME NEW p \in Callers, Publish(p) PROVE ReadingIsFaithful'
  BY <1>13 DEF Publish
<1>14. ASSUME NEW p \in Callers, Finish(p) PROVE ReadingIsFaithful'
  BY <1>14 DEF Finish
<1>15. CASE Disable
  BY <1>15 DEF Disable
<1>16. CASE Reauthorize
  BY <1>16 DEF Reauthorize
<1>17. CASE Revoke
  BY <1>17 DEF Revoke
<1>18. CASE UNCHANGED vars
  BY <1>18 DEF vars
<1>19. QED
  BY <1>1, <1>2, <1>3, <1>4, <1>5, <1>6, <1>7, <1>8, <1>9, <1>10, <1>11, <1>12, <1>13, <1>14, <1>15, <1>16, <1>17, <1>18
  DEF Next, Step

LEMMA NextMarked == IInv /\ [Next]_vars => OnlyDeadTokensMarked'
<1> SUFFICES ASSUME IInv, [Next]_vars PROVE OnlyDeadTokensMarked'
  OBVIOUS
<1> USE RefreshAssumption DEF IInv, TypeOK, ReadingIsFaithful, OnlyDeadTokensMarked
<1>1. ASSUME NEW p \in Callers, Select(p) PROVE OnlyDeadTokensMarked'
  BY <1>1 DEF Select
<1>2. ASSUME NEW p \in Callers, NotDue(p) PROVE OnlyDeadTokensMarked'
  BY <1>2 DEF NotDue
<1>3. ASSUME NEW p \in Callers, Enter(p) PROVE OnlyDeadTokensMarked'
  BY <1>3 DEF Enter
<1>4. ASSUME NEW p \in Callers, CancelWaiter(p) PROVE OnlyDeadTokensMarked'
  BY <1>4 DEF CancelWaiter
<1>5. ASSUME NEW p \in Callers, CancelLeader(p) PROVE OnlyDeadTokensMarked'
  BY <1>5 DEF CancelLeader
<1>6. ASSUME NEW p \in Callers, Load(p) PROVE OnlyDeadTokensMarked'
  BY <1>6 DEF Load
<1>7. ASSUME NEW p \in Callers, Read(p) PROVE OnlyDeadTokensMarked'
  BY <1>7 DEF Read
<1>8. ASSUME NEW p \in Callers, Exchange(p) PROVE OnlyDeadTokensMarked'
  BY <1>8 DEF Exchange
<1>9. ASSUME NEW p \in Callers, Unavailable(p) PROVE OnlyDeadTokensMarked'
  BY <1>9 DEF Unavailable
<1>10. ASSUME NEW p \in Callers, Save(p) PROVE OnlyDeadTokensMarked'
  BY <1>10 DEF Save
<1>11. ASSUME NEW p \in Callers, Reload(p) PROVE OnlyDeadTokensMarked'
  BY <1>11 DEF Reload
<1>12. ASSUME NEW p \in Callers, Mark(p) PROVE OnlyDeadTokensMarked'
  BY <1>12 DEF Mark
<1>13. ASSUME NEW p \in Callers, Publish(p) PROVE OnlyDeadTokensMarked'
  BY <1>13 DEF Publish
<1>14. ASSUME NEW p \in Callers, Finish(p) PROVE OnlyDeadTokensMarked'
  BY <1>14 DEF Finish
<1>15. CASE Disable
  BY <1>15 DEF Disable
<1>16. CASE Reauthorize
  BY <1>16 DEF Reauthorize
<1>17. CASE Revoke
  BY <1>17 DEF Revoke
<1>18. CASE UNCHANGED vars
  BY <1>18 DEF vars
<1>19. QED
  BY <1>1, <1>2, <1>3, <1>4, <1>5, <1>6, <1>7, <1>8, <1>9, <1>10, <1>11, <1>12, <1>13, <1>14, <1>15, <1>16, <1>17, <1>18
  DEF Next, Step

LEMMA RefreshInvariance == Spec => []IInv
<1>1. IInv /\ [Next]_vars => IInv'
  BY NextTypeOK, NextLeader, NextFaithful, NextMarked DEF IInv
<1>2. QED
  BY <1>1, InitIInv, PTL DEF Spec

(***************************************************************************)
(* However many callers there are, one refreshes at a time                 *)
(* (EnsureCredential's map of calls).                                      *)
(***************************************************************************)
THEOREM SingleFlight == Spec => []LeaderIsInFlight
  BY RefreshInvariance, PTL DEF IInv

(***************************************************************************)
(* No account with a live refresh token is marked reauth_required by a     *)
(* refresh (markReauthRequired).                                           *)
(***************************************************************************)
THEOREM MarksAreEarned == Spec => []OnlyDeadTokensMarked
  BY RefreshInvariance, PTL DEF IInv

(***************************************************************************)
(* No refresh writes an older token over a newer one (the UPDATE of        *)
(* refreshCredential).                                                     *)
(***************************************************************************)
THEOREM TokenMonotone == Spec => TokenNeverGoesBack
<1>1. IInv /\ [Next]_vars => [token' >= token]_vars
  <2> SUFFICES ASSUME IInv, Next PROVE token' >= token
    OBVIOUS
  <2> USE RefreshAssumption DEF IInv, TypeOK, ReadingIsFaithful
  <2>1. ASSUME NEW p \in Callers, Save(p) PROVE token' >= token
    BY <2>1 DEF Save
  <2>2. CASE Reauthorize
    BY <2>2 DEF Reauthorize
  <2>3. CASE Disable \/ Revoke
    BY <2>3 DEF Disable, Revoke
  <2>4. ASSUME NEW p \in Callers,
               Select(p) \/ NotDue(p) \/ Enter(p) \/ Load(p) \/ Read(p) \/ Exchange(p)
               \/ Unavailable(p) \/ Reload(p) \/ Mark(p) \/ Publish(p) \/ Finish(p)
               \/ CancelWaiter(p) \/ CancelLeader(p)
        PROVE  token' >= token
    BY <2>4 DEF Select, NotDue, Enter, Load, Read, Exchange, Unavailable, Reload, Mark,
                Publish, Finish, CancelWaiter, CancelLeader
  <2>5. QED
    BY <2>1, <2>2, <2>3, <2>4 DEF Next, Step
<1>2. QED
  BY <1>1, RefreshInvariance, PTL DEF Spec, TokenNeverGoesBack

(***************************************************************************)
(* No caller is left behind: as long as one waits, the call it waits for   *)
(* is in the map with a leader who will conclude and publish it, whoever   *)
(* came, failed or was cancelled before (EnsureCredential's delete and     *)
(* close of done under one mutex).                                         *)
(***************************************************************************)
WaitersHaveLeader ==
    \A p \in Callers : pc[p] = "waiting" =>
        \E q \in Callers : flight = q /\ pc[q] \in Leading

THEOREM WaitersAreLed == Spec => []WaitersHaveLeader
<1> DEFINE Led == \A p \in Callers : pc[p] = "waiting" => flight # NoCaller
<1>1. Init => Led
  BY DEF Init
<1>2. IInv /\ Led /\ [Next]_vars => Led'
  <2> SUFFICES ASSUME IInv, Led, [Next]_vars, NEW q \in Callers, pc'[q] = "waiting"
               PROVE  flight' # NoCaller
    OBVIOUS
  <2> USE RefreshAssumption DEF IInv, TypeOK, LeaderIsInFlight
  <2>1. ASSUME NEW p \in Callers, Enter(p) PROVE flight' # NoCaller
    BY <2>1 DEF Enter
  <2>2. ASSUME NEW p \in Callers, Publish(p) PROVE FALSE
    BY <2>2 DEF Publish
  <2>3. CASE pc'[q] = pc[q] /\ flight' = flight
    BY <2>3
  <2>4. ASSUME NEW p \in Callers,
               \/ Select(p) \/ NotDue(p) \/ Load(p) \/ Read(p) \/ Exchange(p) \/ Unavailable(p)
               \/ Save(p) \/ Reload(p) \/ Mark(p) \/ Finish(p)
               \/ CancelWaiter(p) \/ CancelLeader(p)
        PROVE  pc'[q] = pc[q] /\ flight' = flight
    BY <2>4
    DEF Select, NotDue, Load, Read, Exchange, Unavailable, Save, Reload, Mark, Finish,
        CancelWaiter, CancelLeader
  <2>5. CASE Disable \/ Reauthorize \/ Revoke \/ UNCHANGED vars
    BY <2>3, <2>5 DEF Disable, Reauthorize, Revoke, vars
  <2>6. QED
    BY <2>1, <2>2, <2>3, <2>4, <2>5 DEF Next, Step
<1>3. IInv /\ Led => WaitersHaveLeader
  BY DEF IInv, TypeOK, LeaderIsInFlight, WaitersHaveLeader
<1>4. QED
  BY <1>1, <1>2, <1>3, RefreshInvariance, PTL DEF Spec
=============================================================================
