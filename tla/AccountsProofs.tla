--------------------------- MODULE AccountsProofs ---------------------------
(***************************************************************************)
(* Proofs about Accounts for any number of requests, attempts and paths.   *)
(* What a request has read is true as long as the row has the version it   *)
(* has read (RequestsFaithful), and an attempt that was claimed has one    *)
(* request at work (OneWorks): all else follows from these two.            *)
(***************************************************************************)
EXTENDS Accounts, TLAPS

Claiming == {"claim", "exchange", "complete", "fail"}
Working == {"exchange", "complete", "fail"}

\* What request o has read of the row, its version included.
HasRead(o) ==
  LET r == op[o]
  IN Exists =>
       /\ r.version <= account.version
       /\ r.version = account.version =>
            /\ r.state = "update" =>
                 /\ r.credential = account.credential
                 /\ r.path = IF account.status = "active" THEN account.path ELSE NoPath
            /\ r.state = "probe" =>
                 r.credential = account.credential /\ r.path = account.path
            /\ r.state \in {"claim", "exchange", "complete"} => r.path = account.path

RequestsFaithful ==
  /\ \A o \in Operations : HasRead(o)
  /\ account.credential <= account.version
  /\ account.status = "none" =>
       /\ account.credential = NoCredential
       /\ \A o \in Operations : op[o] = Idle
       /\ \A a \in Attempts : attempts[a].status = "none"

\* What request o has read of its attempt.
HasClaimed(o) ==
  LET r == op[o]
  IN /\ r.state \notin Claiming => r.attempt = NoAttempt
     /\ r.state \in Claiming => r.attempt \in Attempts
     /\ r.state \in Working => attempts[r.attempt].status # "pending"
     /\ r.state \in Claiming \ {"fail"} /\ attempts[r.attempt].status \in Live =>
          r.version = attempts[r.attempt].version /\ r.egress = attempts[r.attempt].egress

OneWorks ==
  \A o, p \in Operations :
    op[o].state \in Working /\ op[p].state \in Working /\ op[o].attempt = op[p].attempt => o = p

ClaimsFaithful == (\A o \in Operations : HasClaimed(o)) /\ OneWorks

AccountsInv ==
  /\ AccountsTypeOK /\ RequestsFaithful /\ ClaimsFaithful
  /\ OneAttemptLives /\ ActiveIsProved /\ BusyRowsAreOwned

-----------------------------------------------------------------------------
(* What the steps do to the variables one at a time.                       *)

LEMMA IdleType == Idle \in OpState /\ Idle.state = "idle" /\ Idle.attempt = NoAttempt
  BY DEF Idle, OpState, States, NoCredential

LEMMA EndedType ==
  \A status \in {"none", "consumed", "failed", "cancelled"} :
    Ended(status) \in AttemptRow /\ Ended(status).status = status
  BY DEF Ended, NoRow, AttemptRow

LEMMA NoRowType == NoRow \in AttemptRow /\ NoRow.status = "none"
  BY DEF NoRow, AttemptRow

\* A request that ends, or goes on in another state.
LEMMA OpMoves ==
  ASSUME AccountsTypeOK, NEW o \in Operations
  PROVE  /\ \A r \in OpState : op' = [op EXCEPT ![o] = r] =>
              /\ op' \in [Operations -> OpState] /\ op'[o] = r
              /\ \A p \in Operations : p # o => op'[p] = op[p]
         /\ \A s \in States : Goes(o, s) =>
              /\ op' \in [Operations -> OpState] /\ op'[o] = [op[o] EXCEPT !.state = s]
              /\ \A p \in Operations : p # o => op'[p] = op[p]
<1>1. op[o] \in OpState /\ op \in [Operations -> OpState]
  BY DEF AccountsTypeOK
<1>2. \A r \in OpState : op' = [op EXCEPT ![o] = r] =>
        /\ op' \in [Operations -> OpState] /\ op'[o] = r
        /\ \A p \in Operations : p # o => op'[p] = op[p]
  BY <1>1
<1>3. \A s \in States : [op[o] EXCEPT !.state = s] \in OpState
  BY <1>1 DEF OpState
<1>4. \A s : [op EXCEPT ![o].state = s] = [op EXCEPT ![o] = [op[o] EXCEPT !.state = s]]
  BY <1>1
<1>5. QED
  BY <1>2, <1>3, <1>4 DEF Goes

\* A step of a request moves that request alone.
LEMMA OperationMovesOne ==
  ASSUME AccountsTypeOK, AccountsAssumption, NEW o \in Operations, Operation(o)
  PROVE  /\ op' \in [Operations -> OpState]
         /\ \A p \in Operations : p # o => op'[p] = op[p]
<1> DEFINE Moves == /\ op' \in [Operations -> OpState]
                    /\ \A p \in Operations : p # o => op'[p] = op[p]
<1>1. \A r \in OpState : op' = [op EXCEPT ![o] = r] => Moves
  BY OpMoves
<1>2. \A s \in States : Goes(o, s) => Moves
  BY OpMoves
<1>3. Done(o) => Moves
  BY <1>1, IdleType DEF Done
<1>4. account \in AccountRow /\ op[o] \in OpState /\ egress \in Nat
  BY DEF AccountsTypeOK
<1>5. /\ account.version \in Nat /\ account.credential \in Nat
      /\ account.path \in Paths \cup {NoPath}
      /\ op[o].attempt \in Attempts \cup {NoAttempt}
  BY <1>4 DEF AccountRow, OpState
<1> HIDE DEF Moves
<1>6. Fails(o) => Moves
  <2>1. [Idle EXCEPT !.state = "fail", !.attempt = op[o].attempt] \in OpState
    BY <1>5 DEF Idle, OpState, States, NoCredential
  <2>2. QED
    BY <1>1, <2>1 DEF Fails
<1>7. ASSUME ReadForUpdate(o) PROVE Moves
  <2>1. \A n, c \in Nat, p \in Paths \cup {NoPath} :
          [Idle EXCEPT !.state = "update", !.version = n, !.credential = c, !.path = p] \in OpState
    BY DEF Idle, OpState, States, NoCredential
  <2>2. QED
    BY <1>1, <1>5, <1>7, <2>1 DEF ReadForUpdate, Seen
<1>8. ASSUME BeginValidation(o) PROVE Moves
  <2>1. \A n \in Nat : [Idle EXCEPT !.state = "load", !.version = n] \in OpState
    BY DEF Idle, OpState, States, NoCredential
  <2>2. account.version + 1 \in Nat
    BY <1>5
  <2>3. QED
    BY <1>1, <1>8, <2>1, <2>2 DEF BeginValidation
<1>9. ASSUME LoadForProbe(o) PROVE Moves
  <2>1. \A c \in Nat, p \in Paths \cup {NoPath} :
          [op[o] EXCEPT !.state = "probe", !.credential = c, !.path = p] \in OpState
    BY <1>4 DEF OpState, States
  <2>2. [op EXCEPT ![o].state = "probe", ![o].credential = account.credential,
                   ![o].path = account.path]
        = [op EXCEPT ![o] = [op[o] EXCEPT !.state = "probe", !.credential = account.credential,
                                          !.path = account.path]]
    BY DEF AccountsTypeOK
  <2>3. QED
    BY <1>1, <1>5, <1>9, <2>1, <2>2, IdleType DEF LoadForProbe
<1>10. ASSUME ReadForAttempt(o) PROVE Moves
  <2>1. \A n, e \in Nat : [Idle EXCEPT !.state = "create", !.version = n, !.egress = e] \in OpState
    BY DEF Idle, OpState, States, NoCredential
  <2>2. QED
    BY <1>1, <1>4, <1>5, <1>10, <2>1 DEF ReadForAttempt, Seen
<1>11. ASSUME NEW a \in Attempts, ReadForClaim(o, a) PROVE Moves
  <2>1. \A n, e \in Nat, p \in Paths \cup {NoPath} :
          [Idle EXCEPT !.state = "claim", !.version = n, !.egress = e, !.path = p, !.attempt = a]
            \in OpState
    BY DEF Idle, OpState, States, NoCredential
  <2>2. QED
    BY <1>1, <1>4, <1>5, <1>11, <2>1 DEF ReadForClaim
<1>12. ClaimAttempt(o) \/ ExchangeToken(o) \/ CompletionRefused(o) => Moves
  BY <1>2, <1>6 DEF ClaimAttempt, ExchangeToken, CompletionRefused, States
<1>13. QED
  BY <1>3, <1>7, <1>8, <1>9, <1>10, <1>11, <1>12
  DEF Operation, UpdateAccount, Accept, Reject, CreateAttempt, CompleteOAuthAccount, FailAttempt,
      Superseded, ClientLeaves, FinishFails, Moves

-----------------------------------------------------------------------------
(* The row of the account.                                                 *)

\* The row after a write.
Becomes(status, credential, path) ==
  /\ account' \in AccountRow
  /\ account'.version = account.version + 1
  /\ account'.kind = account.kind
  /\ account'.status = status
  /\ account'.credential = credential
  /\ account'.path = path

LEMMA WritesBecome ==
  ASSUME AccountsTypeOK, NEW status \in Stored, NEW credential \in Nat,
         NEW path \in Paths \cup {NoPath}
  PROVE  /\ Writes([account EXCEPT !.status = status, !.path = path, !.credential = credential])
              => Becomes(status, credential, path)
         /\ Writes([account EXCEPT !.status = status, !.credential = credential])
              => Becomes(status, credential, account.path)
         /\ Writes([account EXCEPT !.status = status])
              => Becomes(status, account.credential, account.path)
<1>1. /\ account \in AccountRow /\ account.version + 1 \in Nat
      /\ account.kind \in Kinds /\ account.credential \in Nat
      /\ account.path \in Paths \cup {NoPath}
  BY DEF AccountsTypeOK, AccountRow
<1> DEFINE Row(c, p) == [account EXCEPT !.status = status, !.path = p, !.credential = c]
<1>2. \A c \in Nat, p \in Paths \cup {NoPath}, v \in Nat :
        /\ [Row(c, p) EXCEPT !.version = v] \in AccountRow
        /\ [Row(c, p) EXCEPT !.version = v].version = v
        /\ [Row(c, p) EXCEPT !.version = v].kind = account.kind
        /\ [Row(c, p) EXCEPT !.version = v].status = status
        /\ [Row(c, p) EXCEPT !.version = v].credential = c
        /\ [Row(c, p) EXCEPT !.version = v].path = p
  BY <1>1 DEF AccountRow, Stored
<1>3. /\ [account EXCEPT !.status = status, !.credential = credential] = Row(credential, account.path)
      /\ [account EXCEPT !.status = status] = Row(account.credential, account.path)
  BY <1>1 DEF AccountRow
<1> HIDE DEF Row
<1>4. \A c \in Nat, p \in Paths \cup {NoPath} : Writes(Row(c, p)) => Becomes(status, c, p)
  BY <1>1, <1>2 DEF Writes, Becomes
<1>5. QED
  BY <1>1, <1>3, <1>4 DEF Row

LEMMA AccountRowType ==
  ASSUME AccountsTypeOK
  PROVE  /\ account.version \in Nat /\ account.version + 1 \in Nat
         /\ account.credential \in Nat /\ account.kind \in Kinds
         /\ account.path \in Paths \cup {NoPath}
         /\ Exists => account.status \in Stored
         /\ \A o \in Operations : /\ op[o].credential \in Nat /\ op[o].version \in Nat
                                  /\ op[o].path \in Paths \cup {NoPath}
                                  /\ op[o].state \in States
  BY DEF AccountsTypeOK, AccountRow, Exists, OpState

\* An update writes what it was asked, with the envelope it has read.
LEMMA UpdateBecomes ==
  ASSUME AccountsTypeOK, NEW o \in Operations,
         NEW status \in {"draft", "disabled", "active"}, NEW path \in Paths,
         NEW replace \in BOOLEAN, UpdateAccount(o, status, path, replace)
  PROVE  \E credential \in {op[o].credential, NewCredential} :
           /\ Becomes(status, credential, path)
           /\ status = "active" => path = op[o].path /\ credential = op[o].credential
<1> DEFINE c == IF replace THEN NewCredential ELSE op[o].credential
<1>1. c \in Nat
  BY AccountRowType DEF NewCredential
<1>2. Writes([account EXCEPT !.status = status, !.path = path, !.credential = c])
  BY DEF UpdateAccount
<1>3. status = "active" => path = op[o].path /\ c = op[o].credential
  BY DEF UpdateAccount, MayAsk
<1>4. c \in {op[o].credential, NewCredential}
  OBVIOUS
<1> HIDE DEF c
<1>5. Becomes(status, c, path)
  BY <1>1, <1>2, WritesBecome DEF Stored
<1>6. QED
  BY <1>3, <1>4, <1>5

LEMMA RefreshBecomes ==
  ASSUME AccountsTypeOK, RefreshCredential
  PROVE  Becomes("active", NewCredential, account.path)
<1>1. Writes([account EXCEPT !.credential = NewCredential]) /\ account.status = "active"
  BY DEF RefreshCredential
<1>2. [account EXCEPT !.credential = NewCredential]
      = [account EXCEPT !.status = "active", !.credential = NewCredential]
  BY <1>1 DEF AccountsTypeOK, AccountRow
<1>3. NewCredential \in Nat /\ account.path \in Paths \cup {NoPath}
  BY AccountRowType DEF NewCredential
<1>4. QED
  BY <1>1, <1>2, <1>3, WritesBecome DEF Stored

\* Every step leaves the row alone, deletes it, or writes its next version
\* with the credential it had or a new one.
Writing ==
  \E status \in Stored, credential \in {account.credential, NewCredential},
     path \in Paths \cup {NoPath} : Becomes(status, credential, path)

LEMMA AccountMoves ==
  ASSUME AccountsTypeOK, RequestsFaithful, AccountsNext
  PROVE  \/ account' = account
         \/ DeleteAccount
         \/ Exists /\ Writing
         \/ account.status = "none" /\ op' = op /\ Writing
<1>1. /\ account.credential \in Nat /\ NewCredential \in Nat
      /\ account.path \in Paths \cup {NoPath}
  BY AccountRowType DEF NewCredential
<1>2. ASSUME NEW status \in {"draft", "disabled"}, NEW path \in Paths, CreateAccount(status, path)
      PROVE  account.status = "none" /\ op' = op /\ Writing
  <2> DEFINE c == IF account.kind = "api_key" THEN NewCredential ELSE NoCredential
  <2>1. c \in {account.credential, NewCredential} /\ c \in Nat
    BY <1>1, <1>2 DEF CreateAccount, RequestsFaithful, NoCredential, NewCredential
  <2>2. Writes([account EXCEPT !.status = status, !.path = path, !.credential = c])
    BY <1>2 DEF CreateAccount
  <2> HIDE DEF c
  <2>3. Becomes(status, c, path)
    BY <2>1, <2>2, WritesBecome DEF Stored
  <2>4. QED
    BY <1>2, <2>1, <2>3 DEF CreateAccount, Writing, Stored
<1>3. ASSUME NEW o \in Operations, NEW status \in {"draft", "disabled", "active"},
             NEW path \in Paths, NEW replace \in BOOLEAN, UpdateAccount(o, status, path, replace)
      PROVE  Exists /\ Writing
  <2>1. Exists /\ op[o].credential = account.credential
    BY <1>3, AccountRowType DEF UpdateAccount, Is, SameVersion, RequestsFaithful, HasRead
  <2>2. QED
    BY <1>3, <2>1, UpdateBecomes DEF Writing, Stored
<1>4. \A status \in Stored :
        Writes([account EXCEPT !.status = status]) => Writing
  BY <1>1, WritesBecome DEF Writing
<1>5. ASSUME NEW o \in Operations, BeginValidation(o) \/ Accept(o) \/ Reject(o)
      PROVE  Exists /\ Writing
  BY <1>4, <1>5 DEF BeginValidation, Accept, Reject, MayFinish, SameVersion, Stored
<1>6. ASSUME NEW o \in Operations, CompleteOAuthAccount(o) PROVE Exists /\ Writing
  BY <1>1, <1>6, WritesBecome
  DEF CompleteOAuthAccount, MayComplete, SameVersion, Writing, Stored
<1>7. ASSUME NEW o \in Operations, Operation(o)
      PROVE  account' = account \/ (Exists /\ Writing)
  BY <1>3, <1>5, <1>6, <1>7
  DEF Operation, ReadForUpdate, LoadForProbe, ReadForAttempt, CreateAttempt, ReadForClaim,
      ClaimAttempt, ExchangeToken, CompletionRefused, FailAttempt, Superseded, ClientLeaves,
      FinishFails
<1>8. RefreshCredential => Exists /\ Writing
  BY <1>1, RefreshBecomes DEF RefreshCredential, Exists, Writing, Stored
<1>9. RequireReauth => Exists /\ Writing
  BY <1>4 DEF RequireReauth, Exists, Stored
<1>10. RestartAccounts => account' = account \/ (Exists /\ Writing)
  BY <1>4 DEF RestartAccounts, Exists, Stored
<1>11. QED
  BY <1>2, <1>7, <1>8, <1>9, <1>10
  DEF AccountsNext, CancelAttempt, Expire, ChangeEgress, NewSession, CleanupAttempts

LEMMA AccountRowKept ==
  ASSUME AccountsTypeOK, RequestsFaithful, AccountsNext
  PROVE  account' \in AccountRow
<1>1. account \in AccountRow
  BY DEF AccountsTypeOK
<1>2. DeleteAccount => account' \in AccountRow
  <2> DEFINE Row(status, n, path) ==
        [account EXCEPT !.status = status, !.credential = n, !.path = path, !.version = n]
  <2>1. \A status \in Stored \cup {"none", "deleted"}, n \in Nat, path \in Paths \cup {NoPath} :
          Row(status, n, path) \in AccountRow
    BY <1>1 DEF AccountRow
  <2>2. DeleteAccount => account' = Row("deleted", 0, NoPath)
    BY DEF DeleteAccount, NoCredential
  <2> HIDE DEF Row
  <2>3. QED
    BY <2>1, <2>2
<1>3. Writing => account' \in AccountRow
  BY DEF Writing, Becomes
<1>4. QED
  BY <1>1, <1>2, <1>3, AccountMoves

-----------------------------------------------------------------------------
(* What has been read stays true.                                          *)

\* Of a request that the step does not move.
LEMMA OthersHaveRead ==
  ASSUME AccountsTypeOK, RequestsFaithful, NEW p \in Operations, op'[p] = op[p],
         \/ account' = account
         \/ DeleteAccount
         \/ Exists /\ Writing
         \/ account.status = "none" /\ Writing
  PROVE  HasRead(p)'
<1>1. HasRead(p) /\ op[p].version \in Nat /\ account.version \in Nat
  BY AccountRowType DEF RequestsFaithful
<1>2. CASE account' = account
  BY <1>1, <1>2 DEF HasRead, Exists
<1>3. CASE DeleteAccount
  <2>1. account'.status = "deleted"
    BY <1>3 DEF DeleteAccount, AccountsTypeOK, AccountRow
  <2>2. QED
    BY <2>1 DEF HasRead, Exists, Stored
<1>4. ASSUME Writing, op[p].version <= account.version PROVE HasRead(p)'
  <2>1. account'.version = account.version + 1
    BY <1>4 DEF Writing, Becomes
  <2>2. op'[p].version <= account'.version /\ op'[p].version # account'.version
    BY <1>1, <1>4, <2>1
  <2>3. QED
    BY <2>2 DEF HasRead
<1>5. CASE Exists /\ Writing
  BY <1>1, <1>4, <1>5 DEF HasRead
<1>6. CASE account.status = "none" /\ Writing
  <2>1. op[p].version = 0
    BY <1>6 DEF RequestsFaithful, Idle
  <2>2. QED
    BY <1>1, <1>4, <1>6, <2>1
<1>7. QED
  BY <1>2, <1>3, <1>5, <1>6

\* Of the request that moves, which has just read the row, or goes on with
\* what it has read, or ends.
LEMMA MoverHasRead ==
  ASSUME AccountsTypeOK, AccountsAssumption, RequestsFaithful, NEW o \in Operations, Operation(o)
  PROVE  HasRead(o)'
<1>1. /\ account.version \in Nat /\ account.credential \in Nat /\ op[o] \in OpState
      /\ op \in [Operations -> OpState] /\ account \in AccountRow /\ HasRead(o)
      /\ op[o].version \in Nat
  BY AccountRowType DEF AccountsTypeOK, RequestsFaithful
<1>2. account' \in AccountRow
  BY AccountRowKept DEF AccountsNext
<1>3. account'.version \in Nat
  BY <1>2 DEF AccountRow
<1>4. op'[o].version = 0 /\ op'[o].state \in {"idle", "fail"} => HasRead(o)'
  BY <1>3 DEF HasRead
<1>5. Done(o) => HasRead(o)'
  BY <1>1, <1>4 DEF Done, Idle
<1>6. Fails(o) => HasRead(o)'
  BY <1>1, <1>4 DEF Fails, Idle
<1>7. ASSUME ReadForUpdate(o) PROVE HasRead(o)'
  <2>1. /\ op'[o].state = "update" /\ op'[o].version = account.version
        /\ op'[o].credential = account.credential
        /\ op'[o].path = IF account.status = "active" THEN account.path ELSE NoPath
    BY <1>1, <1>7 DEF ReadForUpdate, Idle, Seen
  <2>2. account' = account
    BY <1>7 DEF ReadForUpdate
  <2>3. QED
    BY <1>1, <2>1, <2>2 DEF HasRead
<1>8. ASSUME BeginValidation(o) PROVE HasRead(o)'
  <2>1. op'[o].state = "load" /\ op'[o].version = account.version + 1
    BY <1>1, <1>8 DEF BeginValidation, Idle
  <2>2. account'.version = account.version + 1
    BY <1>1, <1>8 DEF BeginValidation, Writes, AccountRow
  <2>3. QED
    BY <1>1, <2>1, <2>2 DEF HasRead
<1>9. ASSUME LoadForProbe(o) PROVE HasRead(o)'
  <2>1. CASE Exists
    <3>1. /\ op'[o].state = "probe" /\ op'[o].version = op[o].version
          /\ op'[o].credential = account.credential /\ op'[o].path = account.path
      BY <1>1, <1>9, <2>1 DEF LoadForProbe, OpState
    <3>2. account' = account
      BY <1>9 DEF LoadForProbe
    <3>3. QED
      BY <1>1, <3>1, <3>2 DEF HasRead, Exists
  <2>2. CASE ~Exists
    BY <1>5, <1>9, <2>2 DEF LoadForProbe, Done
  <2>3. QED
    BY <2>1, <2>2
<1>10. ASSUME ReadForAttempt(o) PROVE HasRead(o)'
  <2>1. op'[o].state = "create" /\ op'[o].version = account.version
    BY <1>1, <1>10 DEF ReadForAttempt, Idle, Seen
  <2>2. account' = account
    BY <1>10 DEF ReadForAttempt
  <2>3. QED
    BY <1>1, <2>1, <2>2 DEF HasRead
<1>11. ASSUME NEW a \in Attempts, ReadForClaim(o, a) PROVE HasRead(o)'
  <2>1. op'[o].state = "claim" /\ op'[o].version = account.version /\ op'[o].path = account.path
    BY <1>1, <1>11 DEF ReadForClaim, Idle
  <2>2. account' = account
    BY <1>11 DEF ReadForClaim
  <2>3. QED
    BY <1>1, <2>1, <2>2 DEF HasRead
<1>12. ASSUME \/ Is(o, "claim") /\ Goes(o, "exchange")
              \/ Is(o, "exchange") /\ Goes(o, "complete"),
              account' = account
       PROVE  HasRead(o)'
  <2>1. /\ op'[o].state \in {"exchange", "complete"} /\ op[o].state \in {"claim", "exchange"}
        /\ op'[o].version = op[o].version /\ op'[o].path = op[o].path
    BY <1>1, <1>12 DEF Is, Goes, OpState
  <2>2. QED
    BY <1>1, <1>12, <2>1 DEF HasRead, Exists
<1>13. ClaimAttempt(o) \/ ExchangeToken(o) \/ CompletionRefused(o) => HasRead(o)'
  BY <1>6, <1>12 DEF ClaimAttempt, ExchangeToken, CompletionRefused
<1>14. QED
  BY <1>5, <1>7, <1>8, <1>9, <1>10, <1>11, <1>13
  DEF Operation, UpdateAccount, Accept, Reject, CreateAttempt, CompleteOAuthAccount, FailAttempt,
      Superseded, ClientLeaves, FinishFails

LEMMA RequestsStayFaithful ==
  ASSUME AccountsTypeOK, AccountsAssumption, RequestsFaithful, AccountsNext
  PROVE  RequestsFaithful'
<1>1. /\ account.version \in Nat /\ account.credential \in Nat /\ account.version + 1 \in Nat
      /\ op \in [Operations -> OpState]
  BY AccountRowType DEF AccountsTypeOK
<1>2. \A o \in Operations : HasRead(o)'
  <2> SUFFICES ASSUME NEW p \in Operations PROVE HasRead(p)'
    OBVIOUS
  <2>1. op'[p] = op[p] => HasRead(p)'
    BY AccountMoves, OthersHaveRead
  <2>2. ASSUME NEW o \in Operations, Operation(o) PROVE HasRead(p)'
    BY <2>1, <2>2, OperationMovesOne, MoverHasRead
  <2>3. ASSUME RestartAccounts PROVE HasRead(p)'
    <3>1. op'[p].version = 0 /\ op'[p].state = "idle"
      BY <2>3 DEF RestartAccounts, Idle
    <3>2. account'.version \in Nat
      BY AccountRowKept DEF AccountRow
    <3>3. QED
      BY <3>1, <3>2 DEF HasRead
  <2>4. QED
    BY <2>1, <2>2, <2>3
    DEF AccountsNext, CreateAccount, DeleteAccount, CancelAttempt, Expire, RefreshCredential,
        RequireReauth, ChangeEgress, NewSession, CleanupAttempts
<1>3. account'.credential <= account'.version
  <2>1. CASE DeleteAccount
    BY <2>1 DEF DeleteAccount, AccountsTypeOK, AccountRow, NoCredential
  <2>2. CASE Writing
    <3>1. PICK credential \in {account.credential, account.version + 1} :
            account'.credential = credential /\ account'.version = account.version + 1
      BY <2>2 DEF Writing, Becomes, NewCredential
    <3>2. QED
      BY <1>1, <3>1 DEF RequestsFaithful
  <2>3. QED
    BY <2>1, <2>2, AccountMoves DEF RequestsFaithful
<1>4. ASSUME account'.status = "none"
      PROVE  /\ account'.credential = NoCredential
             /\ \A o \in Operations : op'[o] = Idle
             /\ \A a \in Attempts : attempts'[a].status = "none"
  <2>1. account' = account
    <3>1. ~Writing
      BY <1>4 DEF Writing, Becomes, Stored
    <3>2. ~DeleteAccount
      BY <1>4 DEF DeleteAccount, AccountsTypeOK, AccountRow
    <3>3. QED
      BY <3>1, <3>2, AccountMoves
  <2>2. /\ \A o \in Operations : op[o] = Idle
        /\ \A a \in Attempts : attempts[a].status = "none"
    BY <1>4, <2>1 DEF RequestsFaithful
  <2>3. ASSUME NEW o \in Operations, Operation(o) PROVE FALSE
    <3>1. op[o].state = "idle" /\ op[o].attempt = NoAttempt /\ ~Exists
      BY <1>4, <2>1, <2>2, IdleType DEF Exists, Stored
    <3>2. account.status = "none"
      BY <1>4, <2>1
    <3>3. QED
      BY <2>2, <2>3, <3>1, <3>2
      DEF Operation, Is, ReadForUpdate, UpdateAccount, BeginValidation, LoadForProbe, Accept,
          Reject, ReadForAttempt, CreateAttempt, ReadForClaim, ClaimAttempt, ExchangeToken,
          CompleteOAuthAccount, CompletionRefused, FailAttempt, Superseded, ClientLeaves,
          FinishFails
  <2>4. op' = op \/ \A o \in Operations : op'[o] = Idle
    BY <2>3 DEF AccountsNext, CreateAccount, DeleteAccount, CancelAttempt, Expire,
        RefreshCredential, RequireReauth, ChangeEgress, NewSession, CleanupAttempts, RestartAccounts
  <2>5. \A a \in Attempts : attempts'[a].status = "none"
    <3>1. CleanupAttempts \/ RestartAccounts => \A a \in Attempts : attempts'[a].status = "none"
      BY <2>2, NoRowType DEF CleanupAttempts, RestartAccounts, Recovered, Unexpired
    <3>2. QED
      BY <2>2, <2>3, <3>1, NoRowType
      DEF AccountsNext, CreateAccount, DeleteAccount, CancelAttempt, Expire,
          RefreshCredential, RequireReauth, ChangeEgress, NewSession
  <2>6. QED
    BY <1>4, <2>1, <2>2, <2>4, <2>5 DEF RequestsFaithful
<1>5. QED
  BY <1>2, <1>3, <1>4 DEF RequestsFaithful

-----------------------------------------------------------------------------
(* The rows of the attempts.                                               *)

\* Attempts only age: a row that lives has lived, under the same fingerprint.
Ages(a) ==
  /\ attempts'[a] \in AttemptRow
  /\ attempts'[a].status \in Live =>
       /\ attempts[a].status \in Live
       /\ attempts'[a].version = attempts[a].version
       /\ attempts'[a].egress = attempts[a].egress
       /\ attempts[a].expired => attempts'[a].expired
       /\ attempts'[a].status = "pending" => attempts[a].status = "pending"

\* Except the one that is created.
Starts(o, a) ==
  /\ Is(o, "create") /\ Fresh(a) /\ Done(o)
  /\ attempts'[a] = [status |-> "pending", expired |-> FALSE, session |-> session,
                     version |-> op[o].version, egress |-> op[o].egress]
  /\ \A b \in Attempts \ {a} :
       Ages(b) /\ attempts'[b].status # "pending" /\ ~Exchanging(b)'

LEMMA AgingKinds ==
  ASSUME AccountsTypeOK, NEW a \in Attempts
  PROVE  /\ attempts'[a] = attempts[a] => Ages(a)
         /\ attempts'[a] = NoRow => Ages(a)
         /\ \A status \in {"consumed", "failed", "cancelled"} :
              attempts'[a] = Ended(status) => Ages(a)
         /\ attempts'[a] = [attempts[a] EXCEPT !.expired = TRUE] => Ages(a)
         /\ attempts[a].status = "pending" /\ attempts'[a] = [attempts[a] EXCEPT !.status = "exchanging"]
              => Ages(a)
<1>1. attempts[a] \in AttemptRow
  BY DEF AccountsTypeOK
<1>2. [attempts[a] EXCEPT !.expired = TRUE] \in AttemptRow
  BY <1>1 DEF AttemptRow
<1>3. [attempts[a] EXCEPT !.status = "exchanging"] \in AttemptRow
  BY <1>1 DEF AttemptRow
<1>4. attempts'[a] = [attempts[a] EXCEPT !.expired = TRUE] => Ages(a)
  <2> SUFFICES ASSUME attempts'[a] = [attempts[a] EXCEPT !.expired = TRUE] PROVE Ages(a)
    OBVIOUS
  <2>1. /\ attempts'[a].status = attempts[a].status /\ attempts'[a].version = attempts[a].version
        /\ attempts'[a].egress = attempts[a].egress /\ attempts'[a].expired
    BY <1>1 DEF AttemptRow
  <2>2. QED
    BY <1>2, <2>1 DEF Ages
<1>5. attempts[a].status = "pending" /\ attempts'[a] = [attempts[a] EXCEPT !.status = "exchanging"]
        => Ages(a)
  <2> SUFFICES ASSUME attempts[a].status = "pending",
                      attempts'[a] = [attempts[a] EXCEPT !.status = "exchanging"]
               PROVE  Ages(a)
    OBVIOUS
  <2>1. /\ attempts'[a].status = "exchanging" /\ attempts'[a].version = attempts[a].version
        /\ attempts'[a].egress = attempts[a].egress /\ attempts'[a].expired = attempts[a].expired
    BY <1>1 DEF AttemptRow
  <2>2. QED
    BY <1>3, <2>1 DEF Ages, Live
<1>6. attempts'[a] = attempts[a] => Ages(a)
  BY <1>1 DEF Ages
<1>7. QED
  BY <1>4, <1>5, <1>6, EndedType, NoRowType DEF Ages, Live

LEMMA AttemptsMove ==
  ASSUME AccountsTypeOK, ClaimsFaithful, AccountsNext
  PROVE  /\ attempts' \in [Attempts -> AttemptRow]
         /\ \/ \A a \in Attempts : Ages(a)
            \/ \E o \in Operations, a \in Attempts : Starts(o, a)
<1>1. attempts \in [Attempts -> AttemptRow] /\ session \in Nat
  BY DEF AccountsTypeOK
<1> DEFINE Aging == attempts' \in [Attempts -> AttemptRow] /\ \A a \in Attempts : Ages(a)
<1>2. attempts' = attempts => Aging
  BY <1>1, AgingKinds
<1>3. \A b \in Attempts : \A r :
        attempts' = [attempts EXCEPT ![b] = r] /\ Ages(b) => Aging
  BY <1>1, AgingKinds DEF Ages
<1>4. attempts' = [a \in Attempts |-> attempts'[a]] /\ (\A a \in Attempts : Ages(a)) => Aging
  BY DEF Ages
<1> HIDE DEF Aging
<1>5. ASSUME NEW a \in Attempts, CancelAttempt(a) PROVE Aging
  <2>1. attempts'[a] = Ended("cancelled") /\ attempts' = [attempts EXCEPT ![a] = Ended("cancelled")]
    BY <1>1, <1>5 DEF CancelAttempt
  <2>2. QED
    BY <1>3, <2>1, AgingKinds
<1>6. ASSUME NEW a \in Attempts, Expire(a) PROVE Aging
  <2> DEFINE r == [attempts[a] EXCEPT !.expired = TRUE]
  <2>1. attempts'[a] = r /\ attempts' = [attempts EXCEPT ![a] = r]
    BY <1>1, <1>6 DEF Expire
  <2>2. QED
    BY <1>3, <2>1, AgingKinds
<1>7. ASSUME NEW o \in Operations, ClaimAttempt(o) PROVE Aging
  <2> DEFINE a == op[o].attempt
  <2> DEFINE r == [attempts[a] EXCEPT !.status = "exchanging"]
  <2>1. a \in Attempts
    BY <1>7 DEF ClaimAttempt, Is, ClaimsFaithful, HasClaimed, Claiming
  <2>2. attempts'[a] = r /\ attempts' = [attempts EXCEPT ![a] = r] /\ attempts[a].status = "pending"
    BY <1>1, <1>7, <2>1 DEF ClaimAttempt, Claimable
  <2> HIDE DEF a
  <2>3. QED
    BY <1>3, <2>1, <2>2, AgingKinds
<1>8. ASSUME NEW o \in Operations, CompleteOAuthAccount(o) \/ FailAttempt(o) PROVE Aging
  <2> DEFINE a == op[o].attempt
  <2>1. a \in Attempts
    BY <1>8 DEF CompleteOAuthAccount, FailAttempt, Is, ClaimsFaithful, HasClaimed, Claiming
  <2>2. PICK r \in {Ended("consumed"), Ended("failed"), attempts[a]} :
          attempts' = [attempts EXCEPT ![a] = r]
    BY <1>8 DEF CompleteOAuthAccount, FailAttempt
  <2>3. attempts'[a] = r
    BY <1>1, <2>1, <2>2
  <2> HIDE DEF a
  <2>4. QED
    BY <1>3, <2>1, <2>2, <2>3, AgingKinds
<1>9. DeleteAccount => Aging
  BY <1>4, AgingKinds DEF DeleteAccount
<1>10. \A a \in Attempts : Unexpired[a] \in {NoRow, attempts[a]}
  BY DEF Unexpired
<1>11. CleanupAttempts => Aging
  <2> SUFFICES ASSUME CleanupAttempts PROVE Aging
    OBVIOUS
  <2>1. attempts' = [a \in Attempts |-> attempts'[a]]
    BY DEF CleanupAttempts, Unexpired
  <2>2. \A a \in Attempts : attempts'[a] \in {NoRow, attempts[a]}
    BY <1>10 DEF CleanupAttempts
  <2>3. QED
    BY <1>4, <2>1, <2>2, AgingKinds
<1>12. RestartAccounts => Aging
  <2> SUFFICES ASSUME RestartAccounts PROVE Aging
    OBVIOUS
  <2>1. attempts' = [a \in Attempts |-> attempts'[a]]
    BY DEF RestartAccounts
  <2>2. \A a \in Attempts : attempts'[a] \in {NoRow, attempts[a], Ended("failed")}
    BY <1>10 DEF RestartAccounts, Recovered
  <2>3. QED
    BY <1>4, <2>1, <2>2, AgingKinds
<1>13. ASSUME NEW o \in Operations, NEW a \in Attempts, CreateAttempt(o, a)
       PROVE  Starts(o, a) /\ attempts' \in [Attempts -> AttemptRow]
  <2> DEFINE r == [status |-> "pending", expired |-> FALSE, session |-> session,
                   version |-> op[o].version, egress |-> op[o].egress]
  <2>1. r \in AttemptRow
    BY DEF AccountsTypeOK, AttemptRow, OpState
  <2>2. attempts' = [b \in Attempts |->
          IF b = a THEN r
          ELSE IF attempts[b].status = "pending" THEN Ended("cancelled") ELSE attempts[b]]
    BY <1>13 DEF CreateAttempt
  <2> HIDE DEF r
  <2>3. attempts' \in [Attempts -> AttemptRow]
    BY <1>1, <2>1, <2>2, EndedType
  <2>4. \A b \in Attempts \ {a} :
          Ages(b) /\ attempts'[b].status # "pending" /\ ~Exchanging(b)'
    BY <1>13, <2>2, EndedType, AgingKinds DEF CreateAttempt, Exchanging
  <2>5. attempts'[a] = r
    BY <2>2
  <2>6. QED
    BY <1>13, <2>3, <2>4, <2>5 DEF CreateAttempt, Starts, r
<1>14. ASSUME NEW o \in Operations, Operation(o)
       PROVE  Aging \/ \E a \in Attempts : Starts(o, a) /\ attempts' \in [Attempts -> AttemptRow]
  BY <1>2, <1>7, <1>8, <1>13, <1>14
  DEF Operation, ReadForUpdate, UpdateAccount, BeginValidation, LoadForProbe, Accept, Reject,
      ReadForAttempt, ReadForClaim, ExchangeToken, CompletionRefused, Superseded, ClientLeaves,
      FinishFails
<1>15. QED
  BY <1>2, <1>5, <1>6, <1>9, <1>11, <1>12, <1>14
  DEF AccountsNext, CreateAccount, RefreshCredential, RequireReauth, ChangeEgress, NewSession, Aging

LEMMA OneAttemptStays ==
  ASSUME AccountsTypeOK, ClaimsFaithful, OneAttemptLives, AccountsNext
  PROVE  OneAttemptLives'
<1> DEFINE Lives(a) == attempts[a].status = "pending" \/ Exchanging(a)
<1>1. \A a \in Attempts : Ages(a) /\ Lives(a)' => Lives(a)
  <2> SUFFICES ASSUME NEW a \in Attempts, Ages(a), Lives(a)' PROVE Lives(a)
    OBVIOUS
  <2>1. attempts[a].expired \in BOOLEAN /\ attempts'[a].expired \in BOOLEAN
    BY DEF Ages, AccountsTypeOK, AttemptRow
  <2>2. QED
    BY <2>1 DEF Ages, Exchanging, Live
<1>2. CASE \A a \in Attempts : Ages(a)
  BY <1>1, <1>2 DEF OneAttemptLives
<1>3. ASSUME NEW o \in Operations, NEW a \in Attempts, Starts(o, a) PROVE OneAttemptLives'
  BY <1>3 DEF Starts, OneAttemptLives
<1>4. QED
  BY <1>2, <1>3, AttemptsMove

-----------------------------------------------------------------------------
(* What has been claimed.                                                  *)

LEMMA OthersHaveClaimed ==
  ASSUME AccountsTypeOK, ClaimsFaithful, AccountsNext, NEW p \in Operations, op'[p] = op[p]
  PROVE  HasClaimed(p)'
<1>1. HasClaimed(p)
  BY DEF ClaimsFaithful
<1>2. op[p].state \in Claiming =>
        Ages(op[p].attempt) \/ \E o \in Operations : Starts(o, op[p].attempt)
  BY <1>1, AttemptsMove DEF HasClaimed, Starts
<1>3. op[p].state \in Claiming => Ages(op[p].attempt)
  BY <1>2 DEF Starts, Fresh
<1>4. QED
  BY <1>1, <1>3 DEF HasClaimed, Ages, Working, Claiming, Live

\* Nobody takes up work on an attempt except by claiming it.
WorkKept(p) ==
  op'[p].state \in Working => op[p].state \in Working /\ op'[p].attempt = op[p].attempt

LEMMA MoverHasClaimed ==
  ASSUME AccountsTypeOK, ClaimsFaithful, NEW o \in Operations, Operation(o)
  PROVE  HasClaimed(o)' /\ (WorkKept(o) \/ ClaimAttempt(o))
<1> DEFINE Goal == HasClaimed(o)' /\ (WorkKept(o) \/ ClaimAttempt(o))
<1>1. /\ op \in [Operations -> OpState] /\ op[o] \in OpState /\ HasClaimed(o)
      /\ attempts \in [Attempts -> AttemptRow]
  BY DEF AccountsTypeOK, ClaimsFaithful
<1>2. op'[o].state \notin Claiming /\ op'[o].attempt = NoAttempt => Goal
  BY DEF HasClaimed, WorkKept, Claiming, Working
<1>3. Done(o) => Goal
  BY <1>1, <1>2, IdleType DEF Done, Claiming
<1>4. op[o].state \in {"exchange", "complete"} /\ Fails(o) /\ attempts' = attempts => Goal
  <2> SUFFICES ASSUME op[o].state \in {"exchange", "complete"}, Fails(o), attempts' = attempts
               PROVE  Goal
    OBVIOUS
  <2>1. op'[o].state = "fail" /\ op'[o].attempt = op[o].attempt
    BY <1>1 DEF Fails, Idle
  <2>2. QED
    BY <1>1, <2>1 DEF HasClaimed, WorkKept, Claiming, Working
<1>5. ReadForUpdate(o) \/ BeginValidation(o) \/ ReadForAttempt(o) => Goal
  <2> SUFFICES ASSUME ReadForUpdate(o) \/ BeginValidation(o) \/ ReadForAttempt(o) PROVE Goal
    OBVIOUS
  <2>1. op'[o].state \in {"update", "load", "create"} /\ op'[o].attempt = NoAttempt
    BY <1>1 DEF ReadForUpdate, BeginValidation, ReadForAttempt, Idle
  <2>2. QED
    BY <1>2, <2>1 DEF Claiming
<1>6. LoadForProbe(o) => Goal
  <2>1. CASE Exists /\ LoadForProbe(o)
    <3>1. op'[o].state = "probe" /\ op'[o].attempt = op[o].attempt /\ op[o].state = "load"
      BY <1>1, <2>1 DEF LoadForProbe, OpState, Is
    <3>2. QED
      BY <1>1, <1>2, <3>1 DEF HasClaimed, Claiming
  <2>2. CASE ~Exists /\ LoadForProbe(o)
    BY <1>3, <2>2 DEF LoadForProbe, Done
  <2>3. QED
    BY <2>1, <2>2
<1>7. ASSUME NEW a \in Attempts, ReadForClaim(o, a) PROVE Goal
  <2>1. /\ op'[o].state = "claim" /\ op'[o].attempt = a
        /\ op'[o].version = account.version /\ op'[o].egress = egress
    BY <1>1, <1>7 DEF ReadForClaim, Idle
  <2>2. QED
    BY <1>7, <2>1 DEF ReadForClaim, HasClaimed, WorkKept, Claiming, Working
<1>8. ClaimAttempt(o) => Goal
  <2> SUFFICES ASSUME ClaimAttempt(o) PROVE Goal
    OBVIOUS
  <2>1. op[o].state = "claim" /\ op[o].attempt \in Attempts
    BY <1>1 DEF ClaimAttempt, Is, HasClaimed, Claiming
  <2>2. /\ op'[o].state = "exchange" /\ op'[o].attempt = op[o].attempt
        /\ op'[o].version = op[o].version /\ op'[o].egress = op[o].egress
    BY <1>1, <2>1 DEF ClaimAttempt, Goes, OpState
  <2>3. /\ attempts[op[o].attempt].status = "pending"
        /\ attempts'[op[o].attempt].status = "exchanging"
        /\ attempts'[op[o].attempt].version = attempts[op[o].attempt].version
        /\ attempts'[op[o].attempt].egress = attempts[op[o].attempt].egress
    BY <1>1, <2>1 DEF ClaimAttempt, Claimable, AttemptRow
  <2>4. QED
    BY <1>1, <2>1, <2>2, <2>3 DEF HasClaimed, Claiming, Working, Live
<1>9. ExchangeToken(o) => Goal
  <2>1. ASSUME ExchangeToken(o), Goes(o, "complete") PROVE Goal
    <3>1. /\ op'[o].state = "complete" /\ op'[o].attempt = op[o].attempt
          /\ op'[o].version = op[o].version /\ op'[o].egress = op[o].egress
          /\ op[o].state = "exchange"
      BY <1>1, <2>1 DEF ExchangeToken, Goes, Is, OpState
    <3>2. attempts' = attempts
      BY <2>1 DEF ExchangeToken
    <3>3. QED
      BY <1>1, <3>1, <3>2 DEF HasClaimed, WorkKept, Claiming, Working
  <2>2. QED
    BY <1>4, <2>1 DEF ExchangeToken, Is
<1>10. CompletionRefused(o) => Goal
  BY <1>4 DEF CompletionRefused, Is
<1>11. QED
  BY <1>3, <1>5, <1>6, <1>7, <1>8, <1>9, <1>10
  DEF Operation, UpdateAccount, Accept, Reject, CreateAttempt, CompleteOAuthAccount, FailAttempt,
      Superseded, ClientLeaves, FinishFails

\* Outside of the requests' own steps, they rest, or all of them end.
LEMMA OthersMoveNone ==
  ASSUME AccountsNext
  PROVE  \/ \E o \in Operations : Operation(o)
         \/ op' = op
         \/ RestartAccounts
  BY DEF AccountsNext, CreateAccount, DeleteAccount, CancelAttempt, Expire, RefreshCredential,
         RequireReauth, ChangeEgress, NewSession, CleanupAttempts

LEMMA ClaimsStayFaithful ==
  ASSUME AccountsTypeOK, AccountsAssumption, ClaimsFaithful, AccountsNext
  PROVE  ClaimsFaithful'
<1>1. CASE RestartAccounts
  BY <1>1, IdleType DEF RestartAccounts, ClaimsFaithful, HasClaimed, OneWorks, Claiming, Working
<1>2. CASE op' = op
  <2>1. \A p \in Operations : HasClaimed(p)'
    BY <1>2, OthersHaveClaimed
  <2>2. OneWorks'
    BY <1>2 DEF OneWorks, ClaimsFaithful
  <2>3. QED
    BY <2>1, <2>2 DEF ClaimsFaithful
<1>3. ASSUME NEW o \in Operations, Operation(o) PROVE ClaimsFaithful'
  <2>1. \A p \in Operations : p # o => op'[p] = op[p]
    BY <1>3, OperationMovesOne
  <2>2. \A p \in Operations : HasClaimed(p)'
    BY <1>3, <2>1, OthersHaveClaimed, MoverHasClaimed
  <2>3. CASE WorkKept(o)
    <3>1. \A p \in Operations : WorkKept(p)
      BY <2>1, <2>3 DEF WorkKept
    <3>2. OneWorks'
      BY <3>1 DEF WorkKept, OneWorks, ClaimsFaithful
    <3>3. QED
      BY <2>2, <3>2 DEF ClaimsFaithful
  <2>4. CASE ClaimAttempt(o)
    <3>1. /\ op'[o].attempt = op[o].attempt
          /\ attempts[op[o].attempt].status = "pending"
      BY <2>4 DEF ClaimAttempt, Goes, Claimable, AccountsTypeOK, OpState
    <3>2. \A p \in Operations : p # o /\ op'[p].state \in Working => op'[p].attempt # op'[o].attempt
      BY <2>1, <3>1 DEF ClaimsFaithful, HasClaimed
    <3>3. OneWorks'
      BY <2>1, <3>2 DEF OneWorks, ClaimsFaithful
    <3>4. QED
      BY <2>2, <3>3 DEF ClaimsFaithful
  <2>5. QED
    BY <1>3, <2>3, <2>4, MoverHasClaimed
<1>4. QED
  BY <1>1, <1>2, <1>3, OthersMoveNone

-----------------------------------------------------------------------------
(* Busy rows.                                                              *)

LEMMA ValidationOwned ==
  ASSUME AccountsTypeOK, AccountsAssumption, BusyRowsAreOwned, AccountsNext, ~cutShort',
         account'.status = "validating"
  PROVE  (\E o \in Operations : op[o].state \in {"load", "probe"} /\ SameVersion(o))'
<1> DEFINE Owns(o) == op[o].state \in {"load", "probe"} /\ SameVersion(o)
<1>1. op \in [Operations -> OpState] /\ account \in AccountRow
  BY DEF AccountsTypeOK
<1>2. ASSUME NEW o \in Operations, BeginValidation(o) PROVE Owns(o)'
  <2>1. op'[o].state = "load" /\ op'[o].version = account.version + 1
    BY <1>1, <1>2 DEF BeginValidation, Idle
  <2>2. account'.version = account.version + 1 /\ account'.status = "validating"
    BY <1>1, <1>2 DEF BeginValidation, Writes, AccountRow
  <2>3. QED
    BY <2>1, <2>2 DEF SameVersion, Exists, Stored
<1>3. ASSUME NEW o \in Operations, Operation(o), ~BeginValidation(o), account' # account
      PROVE  FALSE
  <2>1. ASSUME NEW status \in {"draft", "disabled", "active"}, NEW path \in Paths,
               NEW replace \in BOOLEAN, UpdateAccount(o, status, path, replace)
        PROVE  FALSE
    BY <2>1, UpdateBecomes DEF Becomes
  <2>2. ASSUME Accept(o) \/ Reject(o) \/ CompleteOAuthAccount(o) PROVE FALSE
    BY <1>1, <2>2 DEF Accept, Reject, CompleteOAuthAccount, Writes, AccountRow
  <2>3. QED
    BY <1>3, <2>1, <2>2
    DEF Operation, ReadForUpdate, LoadForProbe, ReadForAttempt, CreateAttempt, ReadForClaim,
        ClaimAttempt, ExchangeToken, CompletionRefused, FailAttempt, Superseded, ClientLeaves,
        FinishFails
<1>4. ASSUME account' = account, cutShort' = cutShort PROVE \E o \in Operations : Owns(o)
  BY <1>4 DEF BusyRowsAreOwned
<1>5. ASSUME NEW o \in Operations, Operation(o), account' = account, Owns(o) PROVE Owns(o)'
  <2>1. MayFinish(o) /\ Exists
    BY <1>5 DEF MayFinish, SameVersion
  <2>2. LoadForProbe(o)
    BY <1>5, <2>1, <1>1
    DEF Operation, Is, ReadForUpdate, UpdateAccount, BeginValidation, Accept, Reject,
        ReadForAttempt, CreateAttempt, ReadForClaim, ClaimAttempt, ExchangeToken,
        CompleteOAuthAccount, CompletionRefused, FailAttempt, Superseded, ClientLeaves, FinishFails,
        Writes, AccountRow
  <2>3. op'[o].state = "probe" /\ op'[o].version = op[o].version
    BY <1>1, <2>1, <2>2 DEF LoadForProbe, OpState
  <2>4. QED
    BY <1>5, <2>3 DEF SameVersion, Exists
<1>6. ASSUME NEW o \in Operations, Operation(o) PROVE \E p \in Operations : Owns(p)'
  <2>1. CASE BeginValidation(o)
    BY <1>2, <2>1
  <2>2. CASE ~BeginValidation(o)
    <3>1. account' = account
      BY <1>3, <1>6, <2>2
    <3>2. cutShort' = cutShort
      BY <1>6
      DEF Operation, ReadForUpdate, UpdateAccount, BeginValidation, LoadForProbe, Accept, Reject,
          ReadForAttempt, CreateAttempt, ReadForClaim, ClaimAttempt, ExchangeToken,
          CompleteOAuthAccount, CompletionRefused, FailAttempt, Superseded, ClientLeaves,
          FinishFails
    <3>3. PICK p \in Operations : Owns(p)
      BY <1>4, <3>1, <3>2
    <3>4. p # o => op'[p] = op[p]
      BY <1>6, OperationMovesOne
    <3>5. QED
      BY <1>5, <1>6, <3>1, <3>3, <3>4 DEF SameVersion, Exists
  <2>3. QED
    BY <2>1, <2>2
<1>7. ASSUME account' = account, cutShort' = cutShort, op' = op PROVE \E p \in Operations : Owns(p)'
  BY <1>4, <1>7 DEF SameVersion, Exists
<1>8. ASSUME NEW status \in {"draft", "disabled"}, NEW path \in Paths, CreateAccount(status, path)
      PROVE  FALSE
  BY <1>1, <1>8 DEF CreateAccount, Writes, AccountRow
<1>9. ~DeleteAccount /\ ~RefreshCredential /\ ~RequireReauth /\ ~RestartAccounts
  BY <1>1 DEF DeleteAccount, RefreshCredential, RequireReauth, RestartAccounts, Writes, AccountRow
<1>10. QED
  BY <1>6, <1>7, <1>8, <1>9
  DEF AccountsNext, CancelAttempt, Expire, ChangeEgress, NewSession, CleanupAttempts

\* Only a restart forgets that a request was cut short.
LEMMA StayingMoves ==
  ASSUME AccountsNext, ~cutShort', ~RestartAccounts
  PROVE  ~cutShort
<1>1. ASSUME NEW o \in Operations, Operation(o) PROVE cutShort' = cutShort
  BY <1>1
  DEF Operation, ReadForUpdate, UpdateAccount, BeginValidation, LoadForProbe, Accept, Reject,
      ReadForAttempt, CreateAttempt, ReadForClaim, ClaimAttempt, ExchangeToken,
      CompleteOAuthAccount, CompletionRefused, FailAttempt, Superseded, ClientLeaves, FinishFails
<1>2. QED
  BY <1>1
  DEF AccountsNext, CreateAccount, DeleteAccount, CancelAttempt, Expire, RefreshCredential,
      RequireReauth, ChangeEgress, NewSession, CleanupAttempts

LEMMA ExchangeOwned ==
  ASSUME AccountsTypeOK, AccountsAssumption, ClaimsFaithful, BusyRowsAreOwned, AccountsNext,
         ~cutShort', NEW a \in Attempts, attempts'[a].status = "exchanging"
  PROVE  \E o \in Operations : op'[o].attempt = a /\ op'[o].state \in Working
<1>1. /\ op \in [Operations -> OpState] /\ attempts \in [Attempts -> AttemptRow]
      /\ \A o \in Operations : HasClaimed(o)
  BY DEF AccountsTypeOK, ClaimsFaithful
<1>2. ~RestartAccounts /\ ~DeleteAccount
  BY EndedType, NoRowType DEF RestartAccounts, Recovered, DeleteAccount
<1>3. ASSUME NEW o \in Operations, ClaimAttempt(o), op[o].attempt = a
      PROVE  op'[o].attempt = a /\ op'[o].state \in Working
  BY <1>1, <1>3 DEF ClaimAttempt, Goes, OpState, Working
<1>4. ASSUME \A o \in Operations : ClaimAttempt(o) => op[o].attempt # a
      PROVE  attempts[a].status = "exchanging"
  <2>1. \A status \in {"none", "consumed", "failed", "cancelled"} : attempts'[a] # Ended(status)
    BY EndedType
  <2>2. ASSUME NEW o \in Operations, Operation(o) PROVE attempts[a].status = "exchanging"
    <3>1. CASE ClaimAttempt(o)
      BY <1>1, <1>4, <3>1 DEF ClaimAttempt
    <3>2. CASE CompleteOAuthAccount(o) \/ FailAttempt(o)
      BY <1>1, <2>1, <3>2 DEF CompleteOAuthAccount, FailAttempt
    <3>3. ASSUME NEW b \in Attempts, CreateAttempt(o, b) PROVE attempts[a].status = "exchanging"
      <4>1. a # b
        BY <3>3 DEF CreateAttempt
      <4>2. QED
        BY <2>1, <3>3, <4>1 DEF CreateAttempt
    <3>4. QED
      BY <2>2, <3>1, <3>2, <3>3
      DEF Operation, ReadForUpdate, UpdateAccount, BeginValidation, LoadForProbe, Accept, Reject,
          ReadForAttempt, ReadForClaim, ExchangeToken, CompletionRefused, Superseded, ClientLeaves,
          FinishFails
  <2>3. ASSUME NEW b \in Attempts, CancelAttempt(b) PROVE attempts[a].status = "exchanging"
    BY <1>1, <2>1, <2>3 DEF CancelAttempt
  <2>4. ASSUME NEW b \in Attempts, Expire(b) PROVE attempts[a].status = "exchanging"
    BY <1>1, <2>4 DEF Expire, AttemptRow
  <2>5. CleanupAttempts => attempts[a].status = "exchanging"
    BY NoRowType DEF CleanupAttempts, Unexpired
  <2>6. QED
    BY <1>2, <2>2, <2>3, <2>4, <2>5
    DEF AccountsNext, CreateAccount, RefreshCredential, RequireReauth, ChangeEgress, NewSession
<1>5. ASSUME NEW o \in Operations, Operation(o), op[o].attempt = a, op[o].state \in Working,
             attempts[a].status = "exchanging"
      PROVE  op'[o].attempt = a /\ op'[o].state \in Working
  <2>1. Fails(o) => op'[o].attempt = a /\ op'[o].state \in Working
    BY <1>1, <1>5 DEF Fails, Idle, Working
  <2>2. Goes(o, "complete") => op'[o].attempt = a /\ op'[o].state \in Working
    BY <1>1, <1>5 DEF Goes, OpState, Working
  <2>3. ~CompleteOAuthAccount(o) /\ ~FailAttempt(o)
    BY <1>1, <1>5, EndedType DEF CompleteOAuthAccount, FailAttempt, Live
  <2>4. ~ClientLeaves(o) /\ ~FinishFails(o)
    BY DEF ClientLeaves, FinishFails
  <2>5. ExchangeToken(o) \/ CompletionRefused(o)
    BY <1>5, <2>3, <2>4
    DEF Operation, Is, ReadForUpdate, UpdateAccount, BeginValidation, LoadForProbe, Accept, Reject,
        ReadForAttempt, CreateAttempt, ReadForClaim, ClaimAttempt, Superseded, Working
  <2>6. QED
    BY <2>1, <2>2, <2>5 DEF ExchangeToken, CompletionRefused
<1>6. CASE \A o \in Operations : ClaimAttempt(o) => op[o].attempt # a
  <2>1. attempts[a].status = "exchanging" /\ ~cutShort
    BY <1>2, <1>4, <1>6, StayingMoves
  <2>2. PICK o \in Operations : op[o].attempt = a /\ op[o].state \in Working
    BY <2>1 DEF BusyRowsAreOwned, Working
  <2>3. op'[o] = op[o] \/ Operation(o)
    BY <1>2, OthersMoveNone, OperationMovesOne
  <2>4. QED
    BY <1>5, <2>1, <2>2, <2>3
<1>7. QED
  BY <1>3, <1>6

LEMMA BusyRowsStayOwned ==
  ASSUME AccountsTypeOK, AccountsAssumption, ClaimsFaithful, BusyRowsAreOwned, AccountsNext
  PROVE  BusyRowsAreOwned'
  BY ValidationOwned, ExchangeOwned DEF BusyRowsAreOwned, Working

-----------------------------------------------------------------------------
(* An active account is a proved one.                                      *)

LEMMA ProofStands ==
  ASSUME AccountsTypeOK, AccountsAssumption, RequestsFaithful, ActiveIsProved, AccountsNext
  PROVE  /\ ActiveIsProved'
         /\ proved' \in [credential : Nat, path : Paths \cup {NoPath}]
<1> DEFINE Proof == [credential : Nat, path : Paths \cup {NoPath}]
<1> DEFINE Goal == ActiveIsProved' /\ proved' \in Proof
<1>1. /\ proved \in Proof /\ NewCredential \in Nat /\ account.path \in Paths \cup {NoPath}
      /\ account.credential \in Nat
      /\ \A o \in Operations : op[o].credential \in Nat /\ op[o].path \in Paths \cup {NoPath}
  BY AccountRowType DEF AccountsTypeOK, NewCredential
<1>2. account' = account /\ proved' = proved => Goal
  BY <1>1 DEF ActiveIsProved
<1>3. account'.status # "active" /\ proved' = proved => Goal
  BY <1>1 DEF ActiveIsProved
<1>4. ASSUME NEW o \in Operations, Exists, op[o].version = account.version
      PROVE  HasRead(o)
  BY DEF RequestsFaithful
<1>5. ASSUME NEW status \in {"draft", "disabled"}, NEW path \in Paths, CreateAccount(status, path)
      PROVE  Goal
  BY <1>3, <1>5 DEF CreateAccount, Writes, AccountsTypeOK, AccountRow
<1>6. ASSUME NEW o \in Operations, NEW status \in {"draft", "disabled", "active"},
             NEW path \in Paths, NEW replace \in BOOLEAN, UpdateAccount(o, status, path, replace)
      PROVE  Goal
  <2>1. PICK credential \in {op[o].credential, NewCredential} :
          /\ Becomes(status, credential, path)
          /\ status = "active" => path = op[o].path /\ credential = op[o].credential
    BY <1>6, UpdateBecomes
  <2>2. proved' = proved /\ Exists /\ Is(o, "update") /\ op[o].version = account.version
    BY <1>6 DEF UpdateAccount, SameVersion
  <2>3. CASE status = "active"
    <3>1. /\ op[o].credential = account.credential
          /\ op[o].path = IF account.status = "active" THEN account.path ELSE NoPath
      BY <1>1, <1>4, <2>2, AccountRowType DEF HasRead, Is
    <3>2. account.status = "active" /\ path = account.path
      BY <2>1, <2>3, <3>1 DEF AccountsAssumption
    <3>3. account'.credential = account.credential /\ account'.path = account.path
      BY <2>1, <2>3, <3>1, <3>2 DEF Becomes
    <3>4. QED
      BY <1>1, <2>2, <3>2, <3>3 DEF ActiveIsProved
  <2>4. CASE status # "active"
    BY <1>3, <2>1, <2>2, <2>4 DEF Becomes
  <2>5. QED
    BY <2>3, <2>4
<1>7. ASSUME NEW o \in Operations, Accept(o) PROVE Goal
  <2>1. /\ Becomes("active", account.credential, account.path)
        /\ proved' = [credential |-> op[o].credential, path |-> op[o].path]
    BY <1>1, <1>7, WritesBecome DEF Accept, Stored
  <2>2. op[o].credential = account.credential /\ op[o].path = account.path
    BY <1>4, <1>7, AccountRowType DEF Accept, Is, MayFinish, SameVersion, HasRead
  <2>3. QED
    BY <1>1, <2>1, <2>2 DEF ActiveIsProved, Becomes
<1>8. ASSUME NEW o \in Operations, CompleteOAuthAccount(o) PROVE Goal
  <2>1. /\ Becomes("active", NewCredential, account.path)
        /\ proved' = [credential |-> NewCredential, path |-> op[o].path]
    BY <1>1, <1>8, WritesBecome DEF CompleteOAuthAccount, Stored
  <2>2. op[o].path = account.path
    BY <1>4, <1>8, AccountRowType
    DEF CompleteOAuthAccount, Is, MayComplete, SameVersion, HasRead
  <2>3. QED
    BY <1>1, <2>1, <2>2 DEF ActiveIsProved, Becomes
<1>9. ASSUME NEW o \in Operations, BeginValidation(o) \/ Reject(o) PROVE Goal
  <2>1. account'.status # "active" /\ proved' = proved
    BY <1>9 DEF BeginValidation, Reject, Writes, AccountsTypeOK, AccountRow
  <2>2. QED
    BY <1>3, <2>1
<1>10. ASSUME NEW o \in Operations, Operation(o) PROVE Goal
  BY <1>2, <1>6, <1>7, <1>8, <1>9, <1>10
  DEF Operation, ReadForUpdate, LoadForProbe, ReadForAttempt, CreateAttempt, ReadForClaim,
      ClaimAttempt, ExchangeToken, CompletionRefused, FailAttempt, Superseded, ClientLeaves,
      FinishFails
<1>11. RefreshCredential => Goal
  <2> SUFFICES ASSUME RefreshCredential PROVE Goal
    OBVIOUS
  <2>1. /\ Becomes("active", NewCredential, account.path) /\ account.status = "active"
        /\ proved' = [proved EXCEPT !.credential = NewCredential]
    BY RefreshBecomes DEF RefreshCredential
  <2>2. proved' = [credential |-> NewCredential, path |-> account.path]
    BY <2>1 DEF ActiveIsProved
  <2>3. QED
    BY <1>1, <2>1, <2>2 DEF ActiveIsProved, Becomes
<1>12. DeleteAccount \/ RequireReauth => Goal
  <2>1. DeleteAccount \/ RequireReauth => account'.status # "active" /\ proved' = proved
    BY DEF DeleteAccount, RequireReauth, Writes, AccountsTypeOK, AccountRow
  <2>2. QED
    BY <1>3, <2>1
<1>13. RestartAccounts => Goal
  <2>1. RestartAccounts => proved' = proved /\ (account' = account \/ account'.status # "active")
    BY DEF RestartAccounts, Writes, AccountsTypeOK, AccountRow
  <2>2. QED
    BY <1>2, <1>3, <2>1
<1>14. QED
  BY <1>2, <1>5, <1>10, <1>11, <1>12, <1>13
  DEF AccountsNext, CancelAttempt, Expire, ChangeEgress, NewSession, CleanupAttempts

-----------------------------------------------------------------------------
(* The invariant.                                                          *)

LEMMA AccountsTypeKept ==
  ASSUME AccountsInv, AccountsAssumption, AccountsNext
  PROVE  AccountsTypeOK'
<1>1. account' \in AccountRow
  BY AccountRowKept DEF AccountsInv
<1>2. attempts' \in [Attempts -> AttemptRow]
  BY AttemptsMove DEF AccountsInv
<1>3. proved' \in [credential : Nat, path : Paths \cup {NoPath}]
  BY ProofStands DEF AccountsInv
<1>4. op' \in [Operations -> OpState]
  <2>1. RestartAccounts => op' \in [Operations -> OpState]
    BY IdleType DEF RestartAccounts
  <2>2. QED
    BY <2>1, OthersMoveNone, OperationMovesOne DEF AccountsInv, AccountsTypeOK
<1>5. egress' \in Nat /\ session' \in Nat /\ cutShort' \in BOOLEAN
  <2>1. ASSUME NEW o \in Operations, Operation(o)
        PROVE  egress' = egress /\ session' = session /\ cutShort' \in {cutShort, TRUE}
    BY <2>1
    DEF Operation, ReadForUpdate, UpdateAccount, BeginValidation, LoadForProbe, Accept, Reject,
        ReadForAttempt, CreateAttempt, ReadForClaim, ClaimAttempt, ExchangeToken,
        CompleteOAuthAccount, CompletionRefused, FailAttempt, Superseded, ClientLeaves, FinishFails
  <2>2. egress + 1 \in Nat /\ session + 1 \in Nat
    BY DEF AccountsInv, AccountsTypeOK
  <2>3. /\ egress' \in {egress, egress + 1} /\ session' \in {session, session + 1}
        /\ cutShort' \in {cutShort, TRUE, FALSE}
    BY <2>1
    DEF AccountsNext, CreateAccount, DeleteAccount, CancelAttempt, Expire, RefreshCredential,
        RequireReauth, ChangeEgress, NewSession, CleanupAttempts, RestartAccounts
  <2>4. QED
    BY <2>2, <2>3 DEF AccountsInv, AccountsTypeOK
<1>6. QED
  BY <1>1, <1>2, <1>3, <1>4, <1>5 DEF AccountsTypeOK

LEMMA AccountsStep == AccountsInv /\ [AccountsNext]_accountsVars => AccountsInv'
<1> SUFFICES ASSUME AccountsInv, [AccountsNext]_accountsVars PROVE AccountsInv'
  OBVIOUS
<1>1. CASE AccountsNext
  <2>1. AccountsTypeOK'
    BY <1>1, AccountsTypeKept, AccountsAssumption
  <2>2. RequestsFaithful' /\ ClaimsFaithful'
    BY <1>1, RequestsStayFaithful, ClaimsStayFaithful, AccountsAssumption DEF AccountsInv
  <2>3. OneAttemptLives' /\ ActiveIsProved' /\ BusyRowsAreOwned'
    BY <1>1, OneAttemptStays, ProofStands, BusyRowsStayOwned, AccountsAssumption DEF AccountsInv
  <2>4. QED
    BY <2>1, <2>2, <2>3 DEF AccountsInv
<1>2. CASE UNCHANGED accountsVars
  <2> USE <1>2 DEF accountsVars, AccountsInv
  <2>1. AccountsTypeOK'
    BY DEF AccountsTypeOK
  <2>2. RequestsFaithful'
    BY DEF RequestsFaithful, HasRead, Exists
  <2>3. ClaimsFaithful'
    BY DEF ClaimsFaithful, HasClaimed, OneWorks
  <2>4. OneAttemptLives' /\ ActiveIsProved' /\ BusyRowsAreOwned'
    BY DEF OneAttemptLives, Exchanging, ActiveIsProved, BusyRowsAreOwned, SameVersion, Exists
  <2>5. QED
    BY <2>1, <2>2, <2>3, <2>4
<1>3. QED
  BY <1>1, <1>2

LEMMA AccountsStart == AccountsInit => AccountsInv
<1> SUFFICES ASSUME AccountsInit PROVE AccountsInv
  OBVIOUS
<1>1. /\ account \in AccountRow /\ account.status = "none" /\ account.credential = 0
      /\ account.version = 0
  BY DEF AccountsInit, AccountRow, NoCredential
<1>2. AccountsTypeOK
  BY <1>1, IdleType, NoRowType DEF AccountsInit, AccountsTypeOK, NoCredential
<1>3. RequestsFaithful
  BY <1>1, NoRowType
  DEF AccountsInit, RequestsFaithful, HasRead, Exists, Stored, NoCredential
<1>4. ClaimsFaithful
  BY IdleType DEF AccountsInit, ClaimsFaithful, HasClaimed, OneWorks, Claiming, Working
<1>5. OneAttemptLives
  BY NoRowType DEF AccountsInit, OneAttemptLives, Exchanging
<1>6. ActiveIsProved /\ BusyRowsAreOwned
  BY <1>1, NoRowType DEF AccountsInit, ActiveIsProved, BusyRowsAreOwned
<1>7. QED
  BY <1>2, <1>3, <1>4, <1>5, <1>6 DEF AccountsInv

LEMMA AccountsInvariance == AccountsSpec => []AccountsInv
  BY AccountsStart, AccountsStep, PTL DEF AccountsSpec

(***************************************************************************)
(* The busy rows have a request that will finish them, however many        *)
(* requests are in flight, as long as no client leaves and no finishing    *)
(* statement fails.                                                        *)
(***************************************************************************)
THEOREM BusyRowsOwned == AccountsSpec => []BusyRowsAreOwned
  BY AccountsInvariance, PTL DEF AccountsInv

(***************************************************************************)
(* One attempt at most connects the account, however many are created.     *)
(***************************************************************************)
THEOREM AttemptsExclude == AccountsSpec => []OneAttemptLives
  BY AccountsInvariance, PTL DEF AccountsInv

(***************************************************************************)
(* Of the callbacks of an attempt, one at most exchanges its code.         *)
(***************************************************************************)
THEOREM CodesExchangedOnce == AccountsSpec => []CodeIsExchangedOnce
<1>1. AccountsInv => CodeIsExchangedOnce
  BY DEF AccountsInv, ClaimsFaithful, OneWorks, Working, CodeIsExchangedOnce
<1>2. QED
  BY <1>1, AccountsInvariance, PTL

(***************************************************************************)
(* An active account is one that a probe has accepted as it is.            *)
(***************************************************************************)
THEOREM ActivationsProved == AccountsSpec => []ActiveIsProved
  BY AccountsInvariance, PTL DEF AccountsInv

(***************************************************************************)
(* A consent completes on the account and over the egress it began with:   *)
(* what its callback has claimed is the attempt's fingerprint, and the     *)
(* completion compares the version once more.                              *)
(***************************************************************************)
THEOREM ConsentsKept == AccountsSpec => ConnectedAsConsented
<1> DEFINE AsConsented ==
      \A a \in Attempts, o \in Operations :
        op[o].attempt = a /\ attempts[a].status = "exchanging" /\ attempts'[a].status = "consumed"
          => account.version = attempts[a].version /\ op[o].egress = attempts[a].egress
<1>1. AccountsInv /\ [AccountsNext]_accountsVars => [AsConsented]_accountsVars
  <2> SUFFICES ASSUME AccountsInv, AccountsNext, NEW a \in Attempts, NEW o \in Operations,
                      op[o].attempt = a, attempts[a].status = "exchanging",
                      attempts'[a].status = "consumed"
               PROVE  account.version = attempts[a].version /\ op[o].egress = attempts[a].egress
    OBVIOUS
  <2>1. PICK p \in Operations : CompleteOAuthAccount(p) /\ op[p].attempt = a
    <3>1. attempts \in [Attempts -> AttemptRow]
      BY DEF AccountsInv, AccountsTypeOK
    <3>2. \A status \in {"none", "failed", "cancelled"} : attempts'[a] # Ended(status)
      BY EndedType
    <3>3. attempts'[a] # attempts[a] /\ attempts'[a] # NoRow
      BY NoRowType
    <3>4. ~CleanupAttempts /\ ~RestartAccounts /\ ~DeleteAccount
      BY <3>2, <3>3 DEF CleanupAttempts, RestartAccounts, Recovered, Unexpired, DeleteAccount
    <3>5. ASSUME NEW b \in Attempts, CancelAttempt(b) \/ Expire(b) PROVE FALSE
      BY <3>1, <3>2, <3>3, <3>5 DEF CancelAttempt, Expire, AttemptRow
    <3>6. ASSUME NEW p \in Operations, Operation(p)
          PROVE  CompleteOAuthAccount(p) /\ op[p].attempt = a
      <4>1. ASSUME ClaimAttempt(p) PROVE FALSE
        BY <3>1, <3>3, <4>1 DEF ClaimAttempt, Claimable, AttemptRow
      <4>2. ASSUME FailAttempt(p) PROVE FALSE
        BY <3>1, <3>2, <3>3, <4>2 DEF FailAttempt
      <4>3. ASSUME NEW b \in Attempts, CreateAttempt(p, b) PROVE FALSE
        BY <3>1, <3>2, <3>3, <4>3 DEF CreateAttempt
      <4>4. CompleteOAuthAccount(p)
        BY <3>3, <3>6, <4>1, <4>2, <4>3
        DEF Operation, ReadForUpdate, UpdateAccount, BeginValidation, LoadForProbe, Accept, Reject,
            ReadForAttempt, ReadForClaim, ExchangeToken, CompletionRefused, Superseded, ClientLeaves,
            FinishFails
      <4>5. QED
        BY <3>1, <3>3, <4>4 DEF CompleteOAuthAccount
    <3>7. QED
      BY <3>3, <3>4, <3>5, <3>6
      DEF AccountsNext, CreateAccount, RefreshCredential, RequireReauth, ChangeEgress, NewSession
  <2>2. account.version = op[p].version /\ op[p].state = "complete"
    BY <2>1 DEF CompleteOAuthAccount, MayComplete, SameVersion, Is
  <2>3. /\ HasClaimed(p) /\ HasClaimed(o)
        /\ op[o].state \in Working => o = p
    BY <2>1, <2>2 DEF AccountsInv, ClaimsFaithful, OneWorks, Working
  <2>4. op[o].state \in Claiming
    BY <2>3, AccountsAssumption DEF HasClaimed
  <2>5. op[o].state # "fail"
    BY <2>2, <2>3 DEF Working
  <2>6. QED
    BY <2>1, <2>2, <2>3, <2>4, <2>5 DEF HasClaimed, Claiming, Live
<1>2. QED
  BY <1>1, AccountsInvariance, PTL DEF AccountsSpec, ConnectedAsConsented

(***************************************************************************)
(* No write brings back a credential the account had before: a row is      *)
(* written with the credential it has or with one numbered by the version  *)
(* that is written, above all others.                                      *)
(***************************************************************************)
THEOREM CredentialsAdvance == AccountsSpec => CredentialNeverReturns
<1> DEFINE Advances == account'.status # "deleted" => account'.credential >= account.credential
<1>1. AccountsInv /\ [AccountsNext]_accountsVars => [Advances]_accountsVars
  <2> SUFFICES ASSUME AccountsInv, AccountsNext, account'.status # "deleted"
               PROVE  account'.credential >= account.credential
    OBVIOUS
  <2>1. /\ account.credential \in Nat /\ account.version \in Nat
        /\ account.credential <= account.version
    BY AccountRowType DEF AccountsInv, RequestsFaithful
  <2>2. ~DeleteAccount
    BY DEF DeleteAccount, AccountsInv, AccountsTypeOK, AccountRow
  <2>3. account'.credential \in {account.credential, account.version + 1}
    BY <2>2, AccountMoves DEF AccountsInv, Writing, Becomes, NewCredential
  <2>4. QED
    BY <2>1, <2>3
<1>2. QED
  BY <1>1, AccountsInvariance, PTL DEF AccountsSpec, CredentialNeverReturns
=============================================================================
