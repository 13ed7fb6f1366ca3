---------------------------- MODULE WalletProofs ----------------------------
(***************************************************************************)
(* Proofs about Wallet, for every number of users, withdrawals, requests   *)
(* and lost requests, and for all amounts.                                 *)
(*                                                                         *)
(* The argument: what a stale handler still knows is what cannot be undone *)
(* - that the withdrawal exists, and what Xendit has answered - and every  *)
(* transaction that gives a hold back adds to the balance at least what it *)
(* adds to the ledger.                                                     *)
(***************************************************************************)
EXTENDS Wallet, TLAPS

\* Withdrawals stay, and Xendit forgets no payout and undoes none that succeeded.
NothingUndone ==
    \A w \in Withdrawals :
        /\ withdrawal[w].status # "NONE" => withdrawal'[w].status # "NONE"
        /\ payout[w] # "NONE" => payout'[w] # "NONE"
        /\ payout[w] = "SUCCEEDED" => payout'[w] = "SUCCEEDED"

\* Requests that are unchanged, or end, stay grounded.
LEMMA RequestsKept ==
    ASSUME Grounded, NothingUndone, NEW r \in Requests, UNCHANGED req \/ Finish(r)
    PROVE  /\ req' \in [Requests -> RequestTypes]
           /\ \A q \in Requests : RequestGrounded(q)'
<1>1. req \in [Requests -> RequestTypes] /\ Idle \in RequestTypes
  BY DEF Grounded, TypeOK, RequestTypes, Idle
<1>2. req' \in [Requests -> RequestTypes]
  BY <1>1 DEF Finish
<1>3. ASSUME NEW q \in Requests
      PROVE  RequestGrounded(q)'
  <2>1. req'[q] = req[q] \/ req'[q] = Idle
    BY <1>1 DEF Finish
  <2>2. CASE req'[q] = req[q]
    BY <2>2 DEF Grounded, RequestGrounded, NothingUndone, At
  <2>3. CASE req'[q] = Idle
    BY <2>3 DEF RequestGrounded, Idle, At
  <2> QED
    BY <2>1, <2>2, <2>3
<1> QED
  BY <1>2, <1>3

\* A call that arrives, with its first read, is grounded.
LEMMA BeginGrounded ==
    ASSUME Grounded, NEW r \in Requests,
           NEW op \in {"pay", "request", "approve", "reject", "succeeded", "failed"},
           NEW pc \in {"payout", "commit"},
           NEW u \in Users, NEW w \in Withdrawals \union {None}, NEW a \in Amounts,
           Begin(r, op, pc, u, w, a),
           op # "pay" => w \in Withdrawals,
           op \notin {"pay", "request"} => withdrawal[w].status # "NONE",
           op = "approve" => pc = "payout",
           op \in {"pay", "request"} => balance[u] >= a,
           op \in {"approve", "reject"} => withdrawal[w].status = "PENDING",
           op \in {"succeeded", "failed"} => withdrawal[w].status \in {"PENDING", "PROCESSING"},
           op = "succeeded" => payout[w] = "SUCCEEDED"
    PROVE  Grounded'
<1> DEFINE seen == IF w = None THEN "NONE" ELSE withdrawal[w].status
           new == [op |-> op, pc |-> pc, user |-> u, withdrawal |-> w, amount |-> a,
                   seen |-> seen, covered |-> balance[u]]
<1>1. /\ req' = [req EXCEPT ![r] = new]
      /\ UNCHANGED <<balance, ledger, withdrawal, row, payout, lost>>
  BY DEF Begin
<1>2. TypeOK
  BY DEF Grounded
<1>3. seen \in Statuses \union {"NONE"} /\ balance[u] \in Int
  BY <1>2 DEF TypeOK, NoWithdrawal
<1>4. new \in RequestTypes
  BY <1>3 DEF RequestTypes
<1>5. req' \in [Requests -> RequestTypes]
  BY <1>1, <1>2, <1>4 DEF TypeOK
<1>6. TypeOK'
  BY <1>1, <1>2, <1>5 DEF TypeOK
<1>7. ASSUME NEW q \in Requests
      PROVE  RequestGrounded(q)'
  <2>1. CASE q = r
    <3>1. req'[q] = new
      BY <2>1, <1>1, <1>2 DEF TypeOK
    <3>2. op # "pay" => seen = withdrawal[w].status
      BY NoneAssumption
    <3>3. /\ req'[q].op = op /\ req'[q].pc = pc /\ req'[q].user = u /\ req'[q].withdrawal = w
          /\ req'[q].amount = a /\ req'[q].seen = seen /\ req'[q].covered = balance[u]
      BY <3>1
    <3> HIDE DEF seen, new
    <3> QED
      BY <3>2, <3>3, <1>1 DEF RequestGrounded, At
  <2>2. CASE q # r
    <3>1. req'[q] = req[q]
      BY <2>2, <1>1, <1>2 DEF TypeOK
    <3> QED
      BY <3>1, <1>1 DEF Grounded, RequestGrounded, At
  <2> QED
    BY <2>1, <2>2
<1>8. ShownAsHappened' /\ NeverShort'
  BY <1>1 DEF Grounded, ShownAsHappened, NeverShort
<1> QED
  BY <1>6, <1>7, <1>8 DEF Grounded

\* The row of a withdrawal that exists.
LEMMA ExistingRow ==
    ASSUME Grounded, NEW w \in Withdrawals, withdrawal[w].status # "NONE"
    PROVE  /\ withdrawal[w] \in [status : Statuses, user : Users, amount : Amounts]
           /\ withdrawal[w].user \in Users
           /\ withdrawal[w].amount \in Amounts
           /\ withdrawal[w].amount \in Nat
<1>1. withdrawal[w] \in [status : Statuses, user : Users, amount : Amounts] \union {NoWithdrawal}
  BY DEF Grounded, TypeOK
<1>2. withdrawal[w] # NoWithdrawal
  BY DEF NoWithdrawal
<1> QED
  BY <1>1, <1>2, AmountAssumption

\* A call that arrives knows what it has just read.
LEMMA ArrivalGrounded ==
    ASSUME Grounded, NEW r \in Requests, Arrive(r)
    PROVE  Grounded'
<1>1. ASSUME NEW u \in Users, NEW a \in Amounts, PayRead(r, u, a)
      PROVE  Grounded'
  BY <1>1, BeginGrounded DEF PayRead, Sufficient
<1>2. ASSUME NEW u \in Users, NEW w \in Withdrawals, NEW a \in Amounts, RequestRead(r, u, w, a)
      PROVE  Grounded'
  BY <1>2, BeginGrounded DEF RequestRead, Sufficient
<1>3. ASSUME NEW w \in Withdrawals, ApproveRead(r, w) \/ RejectRead(r, w) \/ WebhookRead(r, w)
      PROVE  Grounded'
  <2>1. withdrawal[w].status # "NONE"
    BY <1>3 DEF ApproveRead, RejectRead, WebhookRead, Awaited
  <2>2. withdrawal[w].user \in Users /\ withdrawal[w].amount \in Amounts
    BY <2>1, ExistingRow
  <2>3. CASE ApproveRead(r, w)
    BY <2>1, <2>2, <2>3, BeginGrounded DEF ApproveRead, BeginFor
  <2>4. CASE RejectRead(r, w)
    BY <2>1, <2>2, <2>4, BeginGrounded DEF RejectRead, BeginFor
  <2>5. CASE WebhookRead(r, w)
    <3>1. withdrawal[w].status \in {"PENDING", "PROCESSING"}
      BY <2>1, <2>5, ExistingRow DEF WebhookRead, Awaited, Statuses
    <3> QED
      BY <2>1, <2>2, <2>5, <3>1, BeginGrounded DEF WebhookRead, BeginFor
  <2> QED
    BY <1>3, <2>3, <2>4, <2>5
<1> QED
  BY <1>1, <1>2, <1>3 DEF Arrive

-----------------------------------------------------------------------------
(* The writes.                                                             *)

\* A withdrawal and its ledger row are written together, and the balance gains
\* at least what the ledger gains.
LEMMA WithdrawalWritten ==
    ASSUME Grounded, NEW r \in Requests, NEW w \in Withdrawals,
           NEW new \in [status : Statuses, user : Users, amount : Amounts],
           NEW s \in {"PENDING", "SUCCESS", "FAILED"},
           withdrawal' = [withdrawal EXCEPT ![w] = new],
           row' = [row EXCEPT ![w] = s],
           UNCHANGED <<payout, lost>>, Finish(r),
           new.status = s,
           s = "SUCCESS" => payout[w] = "SUCCEEDED",
           balance' \in [Users -> Int], ledger' \in [Users -> Int],
           \A u \in Users : balance'[u] - balance[u] >= ledger'[u] - ledger[u]
    PROVE  Grounded'
<1>1. TypeOK /\ ShownAsHappened /\ NeverShort
  BY DEF Grounded
<1>2. withdrawal' \in [Withdrawals ->
        [status : Statuses, user : Users, amount : Amounts] \union {NoWithdrawal}]
  BY <1>1 DEF TypeOK
<1>3. row' \in [Withdrawals -> {"NONE", "PENDING", "SUCCESS", "FAILED"}]
  BY <1>1 DEF TypeOK
<1>4. NothingUndone
  BY <1>1 DEF TypeOK, NothingUndone, Statuses
<1>5. req' \in [Requests -> RequestTypes] /\ \A q \in Requests : RequestGrounded(q)'
  BY <1>4, RequestsKept
<1>6. TypeOK'
  BY <1>1, <1>2, <1>3, <1>5 DEF TypeOK
<1>7. ShownAsHappened'
  BY <1>1 DEF TypeOK, ShownAsHappened
<1>8. NeverShort'
  <2> SUFFICES ASSUME NEW u \in Users PROVE (balance[u] >= ledger[u])'
    BY DEF NeverShort
  <2>1. balance[u] \in Int /\ ledger[u] \in Int /\ balance'[u] \in Int /\ ledger'[u] \in Int
    BY <1>1 DEF TypeOK
  <2> QED
    BY <2>1, <1>1 DEF NeverShort
<1> QED
  BY <1>5, <1>6, <1>7, <1>8 DEF Grounded

\* Giving a hold back adds to the balance what it adds to the ledger, or more.
LEMMA ReturnGrounded ==
    ASSUME Grounded, NEW r \in Requests, req[r].op \in {"reject", "failed"},
           Return(req[r].withdrawal), Finish(r), UNCHANGED <<payout, lost>>,
           withdrawal' = [withdrawal EXCEPT ![req[r].withdrawal].status = "FAILED"]
    PROVE  Grounded'
<1> DEFINE w == req[r].withdrawal
           u == withdrawal[w].user
           a == withdrawal[w].amount
           new == [status |-> "FAILED", user |-> u, amount |-> a]
<1>1. w \in Withdrawals /\ withdrawal[w].status # "NONE" /\ TypeOK
  BY DEF Grounded, RequestGrounded
<1>2. /\ withdrawal[w] \in [status : Statuses, user : Users, amount : Amounts]
      /\ u \in Users /\ a \in Nat
  BY <1>1, ExistingRow
<1>3. new \in [status : Statuses, user : Users, amount : Amounts] /\ new.status = "FAILED"
  BY <1>2 DEF Statuses
<1>4. [withdrawal[w] EXCEPT !.status = "FAILED"] = new
  BY <1>2
<1>5. withdrawal' = [withdrawal EXCEPT ![w] = new]
  BY <1>4
<1>6. /\ balance' = [balance EXCEPT ![u] = @ + a]
      /\ row' = [row EXCEPT ![w] = "FAILED"]
      /\ ledger' = ledger \/ ledger' = [ledger EXCEPT ![u] = @ + a]
  BY DEF Return
<1>7. balance \in [Users -> Int] /\ ledger \in [Users -> Int]
  BY <1>1 DEF TypeOK
<1>8. balance' \in [Users -> Int] /\ ledger' \in [Users -> Int]
  BY <1>2, <1>6, <1>7
<1>9. ASSUME NEW v \in Users
      PROVE  balance'[v] - balance[v] >= ledger'[v] - ledger[v]
  BY <1>2, <1>6, <1>7
<1> HIDE DEF w, u, a, new
<1> QED
  BY <1>1, <1>3, <1>5, <1>6, <1>8, <1>9, WithdrawalWritten

\* A success webhook is right about the payout it tells of.
LEMMA SuccessGrounded ==
    ASSUME Grounded, NEW r \in Requests, SucceededCommit(r)
    PROVE  Grounded'
<1> DEFINE w == req[r].withdrawal
           u == withdrawal[w].user
           a == withdrawal[w].amount
           new == [status |-> "SUCCESS", user |-> u, amount |-> a]
<1>1. /\ req[r].op = "succeeded" /\ Finish(r) /\ UNCHANGED <<balance, payout, lost>>
      /\ withdrawal' = [withdrawal EXCEPT ![w].status = "SUCCESS"]
      /\ row' = [row EXCEPT ![w] = "SUCCESS"]
      /\ ledger' = ledger \/ ledger' = [ledger EXCEPT ![u] = @ - a]
  BY DEF SucceededCommit, At
<1>2. w \in Withdrawals /\ withdrawal[w].status # "NONE" /\ TypeOK /\ payout[w] = "SUCCEEDED"
  BY <1>1 DEF Grounded, RequestGrounded
<1>3. /\ withdrawal[w] \in [status : Statuses, user : Users, amount : Amounts]
      /\ u \in Users /\ a \in Nat
  BY <1>2, ExistingRow
<1>4. new \in [status : Statuses, user : Users, amount : Amounts] /\ new.status = "SUCCESS"
  BY <1>3 DEF Statuses
<1>5. [withdrawal[w] EXCEPT !.status = "SUCCESS"] = new
  BY <1>3
<1>6. withdrawal' = [withdrawal EXCEPT ![w] = new]
  BY <1>1, <1>5
<1>7. balance \in [Users -> Int] /\ ledger \in [Users -> Int]
  BY <1>2 DEF TypeOK
<1>8. balance' \in [Users -> Int] /\ ledger' \in [Users -> Int]
  BY <1>1, <1>3, <1>7
<1>9. ASSUME NEW v \in Users
      PROVE  balance'[v] - balance[v] >= ledger'[v] - ledger[v]
  BY <1>1, <1>3, <1>7
<1> HIDE DEF w, u, a, new
<1> QED
  BY <1>1, <1>2, <1>4, <1>6, <1>8, <1>9, WithdrawalWritten

\* A request takes as much from the balance as from the ledger.
LEMMA HoldGrounded ==
    ASSUME Grounded, NEW r \in Requests, RequestCommit(r)
    PROVE  Grounded'
<1> DEFINE w == req[r].withdrawal
           u == req[r].user
           a == req[r].amount
           new == [status |-> "PENDING", user |-> u, amount |-> a]
<1>1. /\ req[r].op = "request" /\ Finish(r) /\ UNCHANGED <<payout, lost>>
      /\ withdrawal' = [withdrawal EXCEPT ![w] = new]
      /\ row' = [row EXCEPT ![w] = "PENDING"]
      /\ balance' = [balance EXCEPT ![u] = @ - a]
      /\ ledger' = [ledger EXCEPT ![u] = @ - a]
  BY DEF RequestCommit, At
<1>2. w \in Withdrawals /\ u \in Users /\ a \in Amounts /\ TypeOK
  BY <1>1 DEF Grounded, RequestGrounded
<1>3. new \in [status : Statuses, user : Users, amount : Amounts] /\ new.status = "PENDING"
  BY <1>2 DEF Statuses
<1>4. balance \in [Users -> Int] /\ ledger \in [Users -> Int] /\ a \in Nat
  BY <1>2, AmountAssumption DEF TypeOK
<1>5. balance' \in [Users -> Int] /\ ledger' \in [Users -> Int]
  BY <1>1, <1>2, <1>4
<1>6. ASSUME NEW v \in Users
      PROVE  balance'[v] - balance[v] >= ledger'[v] - ledger[v]
  BY <1>1, <1>2, <1>4
<1> HIDE DEF w, u, a, new
<1> QED
  BY <1>1, <1>2, <1>3, <1>5, <1>6, WithdrawalWritten

\* Money that moves by the same amount in the balance and in the ledger.
LEMMA MoneyMoved ==
    ASSUME Grounded, NEW r \in Requests, UNCHANGED req \/ Finish(r),
           UNCHANGED <<withdrawal, row, payout, lost>>,
           balance' \in [Users -> Int], ledger' \in [Users -> Int],
           \A u \in Users : balance'[u] - balance[u] = ledger'[u] - ledger[u]
    PROVE  Grounded'
<1>1. NothingUndone
  BY DEF NothingUndone
<1>2. req' \in [Requests -> RequestTypes] /\ \A q \in Requests : RequestGrounded(q)'
  BY <1>1, RequestsKept
<1>3. balance \in [Users -> Int] /\ ledger \in [Users -> Int] /\ TypeOK /\ NeverShort
  BY DEF Grounded, TypeOK
<1>4. TypeOK'
  BY <1>2, <1>3 DEF TypeOK
<1>5. NeverShort'
  BY <1>3 DEF NeverShort
<1>6. ShownAsHappened'
  BY DEF Grounded, ShownAsHappened
<1> QED
  BY <1>2, <1>4, <1>5, <1>6 DEF Grounded

-----------------------------------------------------------------------------
(* Steps of Xendit and of approvals.                                       *)

\* A payout that moves on contradicts nothing a request knows.
LEMMA PayoutMoved ==
    ASSUME Grounded, NEW w \in Withdrawals, NEW s \in {"ACCEPTED", "SUCCEEDED", "FAILED"},
           UNCHANGED <<balance, ledger, withdrawal, row, lost>>,
           payout' = [payout EXCEPT ![w] = s],
           payout[w] = "SUCCEEDED" => s = "SUCCEEDED"
    PROVE  /\ payout' \in [Withdrawals -> {"NONE", "ACCEPTED", "SUCCEEDED", "FAILED"}]
           /\ NothingUndone /\ ShownAsHappened' /\ NeverShort'
<1>1. /\ payout \in [Withdrawals -> {"NONE", "ACCEPTED", "SUCCEEDED", "FAILED"}]
      /\ ShownAsHappened /\ NeverShort
  BY DEF Grounded, TypeOK
<1>2. payout' \in [Withdrawals -> {"NONE", "ACCEPTED", "SUCCEEDED", "FAILED"}]
  BY <1>1
<1>3. NothingUndone
  BY <1>1 DEF NothingUndone
<1>4. ShownAsHappened' /\ NeverShort'
  BY <1>1 DEF ShownAsHappened, NeverShort
<1> QED
  BY <1>2, <1>3, <1>4

\* A payout ends one way, for good.
LEMMA PayoutEndsGrounded ==
    ASSUME Grounded, NEW w \in Withdrawals, PayoutEnds(w)
    PROVE  Grounded'
<1>1. PICK s \in {"SUCCEEDED", "FAILED"} : payout' = [payout EXCEPT ![w] = s]
  BY DEF PayoutEnds
<1>2. UNCHANGED <<balance, ledger, withdrawal, row, req, lost>> /\ payout[w] = "ACCEPTED"
  BY DEF PayoutEnds
<1>3. /\ payout' \in [Withdrawals -> {"NONE", "ACCEPTED", "SUCCEEDED", "FAILED"}]
      /\ NothingUndone /\ ShownAsHappened' /\ NeverShort'
  BY <1>1, <1>2, PayoutMoved
<1>4. \A q \in Requests : RequestGrounded(q)'
  BY <1>2, <1>3 DEF Grounded, RequestGrounded, NothingUndone, At
<1>5. TypeOK'
  BY <1>2, <1>3 DEF Grounded, TypeOK
<1> QED
  BY <1>3, <1>4, <1>5 DEF Grounded

\* A payout that is sent, or found again, belongs to an existing withdrawal.
LEMMA SendPayoutGrounded ==
    ASSUME Grounded, NEW r \in Requests, SendPayout(r)
    PROVE  Grounded'
<1> DEFINE w == req[r].withdrawal
<1>1. /\ req[r].op = "approve" /\ UNCHANGED <<balance, ledger, withdrawal, row, lost>>
      /\ payout' = [payout EXCEPT ![w] = IF @ = "NONE" THEN "ACCEPTED" ELSE @]
      /\ req' = [req EXCEPT ![r].pc = "commit"]
  BY DEF SendPayout, At
<1>2. w \in Withdrawals /\ TypeOK
  BY <1>1 DEF Grounded, RequestGrounded
<1>3. PICK s \in {"ACCEPTED", "SUCCEEDED", "FAILED"} :
         /\ payout' = [payout EXCEPT ![w] = s]
         /\ payout[w] = "SUCCEEDED" => s = "SUCCEEDED"
  BY <1>1, <1>2 DEF TypeOK
<1>4. /\ payout' \in [Withdrawals -> {"NONE", "ACCEPTED", "SUCCEEDED", "FAILED"}]
      /\ NothingUndone /\ ShownAsHappened' /\ NeverShort'
  BY <1>1, <1>2, <1>3, PayoutMoved
<1>5. req' \in [Requests -> RequestTypes]
  BY <1>1, <1>2 DEF TypeOK, RequestTypes
<1>6. ASSUME NEW q \in Requests
      PROVE  RequestGrounded(q)'
  <2>1. /\ req'[q].op = req[q].op /\ req'[q].user = req[q].user
        /\ req'[q].amount = req[q].amount /\ req'[q].withdrawal = req[q].withdrawal
        /\ req'[q].seen = req[q].seen /\ req'[q].covered = req[q].covered
        /\ q # r => req'[q].pc = req[q].pc
    BY <1>1, <1>2 DEF TypeOK, RequestTypes
  <2>2. payout'[w] # "NONE"
    BY <1>2, <1>3 DEF TypeOK
  <2>3. RequestGrounded(q)
    BY DEF Grounded
  <2> QED
    BY <2>1, <2>2, <2>3, <1>1, <1>4 DEF RequestGrounded, NothingUndone, At
<1>7. TypeOK'
  BY <1>1, <1>2, <1>4, <1>5 DEF TypeOK
<1> QED
  BY <1>4, <1>6, <1>7 DEF Grounded

\* A withdrawal shown as PROCESSING has a payout.
LEMMA ApproveGrounded ==
    ASSUME Grounded, NEW r \in Requests, ApproveCommit(r)
    PROVE  Grounded'
<1> DEFINE w == req[r].withdrawal
<1>1. /\ At(r, "approve", "commit") /\ Finish(r)
      /\ UNCHANGED <<balance, ledger, row, payout, lost>>
      /\ withdrawal' = [withdrawal EXCEPT ![w].status = "PROCESSING"]
  BY DEF ApproveCommit
<1>2. /\ w \in Withdrawals /\ withdrawal[w].status # "NONE" /\ payout[w] # "NONE"
      /\ TypeOK /\ ShownAsHappened /\ NeverShort
  BY <1>1 DEF Grounded, RequestGrounded, At
<1>3. [withdrawal[w] EXCEPT !.status = "PROCESSING"]
        \in [status : Statuses, user : Users, amount : Amounts]
  BY <1>2, ExistingRow DEF Statuses
<1>4. withdrawal' \in [Withdrawals ->
        [status : Statuses, user : Users, amount : Amounts] \union {NoWithdrawal}]
  BY <1>1, <1>2, <1>3 DEF TypeOK
<1>5. /\ withdrawal'[w].status = "PROCESSING"
      /\ \A v \in Withdrawals \ {w} : withdrawal'[v] = withdrawal[v]
  BY <1>1, <1>2, ExistingRow DEF TypeOK
<1>6. NothingUndone
  BY <1>1, <1>5 DEF NothingUndone
<1>7. req' \in [Requests -> RequestTypes] /\ \A q \in Requests : RequestGrounded(q)'
  BY <1>1, <1>6, RequestsKept
<1>8. ShownAsHappened'
  BY <1>1, <1>2, <1>5 DEF ShownAsHappened
<1>9. TypeOK'
  BY <1>1, <1>2, <1>4, <1>7 DEF TypeOK
<1>10. NeverShort'
  BY <1>1, <1>2 DEF NeverShort
<1> QED
  BY <1>7, <1>8, <1>9, <1>10 DEF Grounded

-----------------------------------------------------------------------------
(* The invariant.                                                          *)

\* Every step of a request in flight.
LEMMA ProceedGrounded ==
    ASSUME Grounded, NEW r \in Requests, Proceed(r)
    PROVE  Grounded'
<1>1. CASE PayCommit(r)
  <2> DEFINE u == req[r].user
             a == req[r].amount
  <2>1. /\ u \in Users /\ a \in Amounts
        /\ balance \in [Users -> Int] /\ ledger \in [Users -> Int]
    BY <1>1 DEF PayCommit, At, Grounded, TypeOK, RequestGrounded
  <2>2. /\ balance' = [balance EXCEPT ![u] = @ - a]
        /\ ledger' = [ledger EXCEPT ![u] = @ - a]
        /\ Finish(r) /\ UNCHANGED <<withdrawal, row, payout, lost>>
    BY <1>1 DEF PayCommit
  <2> HIDE DEF u, a
  <2>3. a \in Int
    BY <2>1, AmountAssumption
  <2>4. /\ balance' \in [Users -> Int] /\ ledger' \in [Users -> Int]
        /\ \A v \in Users : balance'[v] - balance[v] = ledger'[v] - ledger[v]
    BY <2>1, <2>2, <2>3
  <2> QED
    BY <2>2, <2>4, MoneyMoved
<1>2. CASE PayoutRefused(r)
  <2>1. /\ Finish(r) /\ NothingUndone /\ UNCHANGED <<balance, ledger, withdrawal, row, payout, lost>>
    BY <1>2 DEF PayoutRefused, NothingUndone
  <2>2. req' \in [Requests -> RequestTypes] /\ \A q \in Requests : RequestGrounded(q)'
    BY <2>1, RequestsKept
  <2> QED
    BY <2>1, <2>2 DEF Grounded, TypeOK, ShownAsHappened, NeverShort
<1>3. CASE RejectCommit(r) \/ FailedCommit(r)
  BY <1>3, ReturnGrounded DEF RejectCommit, FailedCommit, At
<1> QED
  BY <1>1, <1>2, <1>3, HoldGrounded, SendPayoutGrounded, ApproveGrounded, SuccessGrounded
  DEF Proceed

\* A request that fails leaves everything else as it is.
LEMMA DropGrounded ==
    ASSUME Grounded, NEW r \in Requests, Drop(r)
    PROVE  Grounded'
<1>1. /\ Finish(r) /\ NothingUndone /\ UNCHANGED <<balance, ledger, withdrawal, row, payout>>
  BY DEF Drop, NothingUndone
<1>2. req' \in [Requests -> RequestTypes] /\ \A q \in Requests : RequestGrounded(q)'
  BY <1>1, RequestsKept
<1>3. lost' \in 0 .. MaxLost
  BY LimitAssumption DEF Drop, Grounded, TypeOK
<1> QED
  BY <1>1, <1>2, <1>3 DEF Grounded, TypeOK, ShownAsHappened, NeverShort

\* Every step keeps the invariant.
LEMMA NextGrounded == Grounded /\ [Next]_vars => Grounded'
<1> SUFFICES ASSUME Grounded, [Next]_vars PROVE Grounded'
  OBVIOUS
<1>1. ASSUME NEW u \in Users, NEW a \in Amounts, Credit(u, a)
      PROVE  Grounded'
  <2>1. /\ a \in Int /\ balance \in [Users -> Int] /\ ledger \in [Users -> Int]
    BY AmountAssumption DEF Grounded, TypeOK
  <2>2. /\ balance' \in [Users -> Int] /\ ledger' \in [Users -> Int]
        /\ \A v \in Users : balance'[v] - balance[v] = ledger'[v] - ledger[v]
        /\ UNCHANGED <<withdrawal, row, payout, req, lost>>
    BY <1>1, <2>1 DEF Credit
  <2>3. ASSUME NEW r \in Requests
        PROVE  Grounded'
    BY <2>2, MoneyMoved
  <2>4. CASE Requests = {}
    <3>1. TypeOK'
      BY <2>2 DEF Grounded, TypeOK
    <3>2. NeverShort'
      BY <2>1, <2>2 DEF Grounded, NeverShort
    <3>3. ShownAsHappened'
      BY <2>2 DEF Grounded, ShownAsHappened
    <3> QED
      BY <2>4, <3>1, <3>2, <3>3 DEF Grounded
  <2> QED
    BY <2>3, <2>4
<1>2. CASE UNCHANGED vars
  BY <1>2
  DEF vars, Grounded, TypeOK, ShownAsHappened, NeverShort, RequestGrounded, At
<1> QED
  BY <1>1, <1>2, ArrivalGrounded, ProceedGrounded, DropGrounded, PayoutEndsGrounded DEF Next

\* No withdrawal, no payout, no money.
LEMMA InitGrounded == Init => Grounded
  BY LimitAssumption
  DEF Init, Grounded, TypeOK, RequestGrounded, ShownAsHappened, NeverShort, Idle, At,
      RequestTypes, NoWithdrawal

\* The inductive invariant holds in every reachable state.
THEOREM AlwaysGrounded == Spec => []Grounded
  BY InitGrounded, NextGrounded, PTL DEF Spec

\* Every variable stays within its type.
THEOREM TypeCorrect == Spec => []TypeOK
<1>1. Grounded => TypeOK
  BY DEF Grounded
<1> QED
  BY <1>1, AlwaysGrounded, PTL

\* However approvals, rejections and webhooks race, SUCCESS means the payout
\* succeeded, PROCESSING that Xendit has it, and the ledger row agrees.
THEOREM StatusCorrect == Spec => []ShownAsHappened
<1>1. Grounded => ShownAsHappened
  BY DEF Grounded
<1> QED
  BY <1>1, AlwaysGrounded, PTL

\* No wallet ever holds less than its ledger rows add up to.
THEOREM NobodyShort == Spec => []NeverShort
<1>1. Grounded => NeverShort
  BY DEF Grounded
<1> QED
  BY <1>1, AlwaysGrounded, PTL

-----------------------------------------------------------------------------
(* Who moves money the wrong way.                                          *)

\* The request that takes a step which ends it.
LEMMA Ended ==
    ASSUME Grounded, NEW r \in Requests, Finish(r), req[r].op # "idle"
    PROVE  req[r] # Idle /\ req'[r] = Idle
  BY DEF Grounded, TypeOK, Finish, Idle

\* A handler that settles a withdrawal whose ledger row is FAILED already was
\* overtaken: nothing it can have read goes together with such a row.
LEMMA SettledTwice ==
    ASSUME Grounded, NEW r \in Requests, req[r].op \in {"reject", "succeeded", "failed"},
           row[req[r].withdrawal] = "FAILED"
    PROVE  Overtaken(r)
<1> DEFINE w == req[r].withdrawal
<1>1. /\ w \in Withdrawals /\ req[r].seen \in {"PENDING", "PROCESSING"}
      /\ ShownAsHappened
  BY DEF Grounded, RequestGrounded
<1>2. w # None
  BY <1>1, NoneAssumption
<1>3. CASE withdrawal[w].status # req[r].seen
  BY <1>2, <1>3 DEF Overtaken
<1>4. CASE withdrawal[w].status = "PENDING"
  BY <1>1, <1>4 DEF ShownAsHappened
<1>5. CASE withdrawal[w].status = "PROCESSING"
  BY <1>2, <1>5 DEF Overtaken
<1> QED
  BY <1>1, <1>3, <1>4, <1>5

\* The step with which balance and ledger part, handler by handler.
LEMMA MispayStep ==
    ASSUME Grounded, [Next]_vars, NEW u \in Users
    PROVE  \/ balance'[u] - ledger'[u] = balance[u] - ledger[u]
           \/ \E r \in Requests : req[r] # Idle /\ req'[r] = Idle /\ Overtaken(r)
<1> DEFINE Same == balance'[u] - ledger'[u] = balance[u] - ledger[u]
           Late == \E r \in Requests : req[r] # Idle /\ req'[r] = Idle /\ Overtaken(r)
<1>1. balance \in [Users -> Int] /\ ledger \in [Users -> Int]
  BY DEF Grounded, TypeOK
<1>2. ASSUME UNCHANGED <<balance, ledger>> PROVE Same
  BY <1>2
<1>3. ASSUME NEW v \in Users, NEW d \in Int,
             balance' = [balance EXCEPT ![v] = @ + d], ledger' = [ledger EXCEPT ![v] = @ + d]
      PROVE  Same
  BY <1>1, <1>3
<1>3a. ASSUME NEW v \in Users, NEW d \in Int,
              balance' = [balance EXCEPT ![v] = @ - d], ledger' = [ledger EXCEPT ![v] = @ - d]
       PROVE  Same
  BY <1>1, <1>3a
<1> HIDE DEF Same, Late
<1>4. ASSUME NEW x \in Users, NEW a \in Amounts, Credit(x, a)
      PROVE  Same \/ Late
  <2>1. a \in Int
    BY AmountAssumption
  <2> QED
    BY <1>4, <2>1, <1>3 DEF Credit
<1>5. ASSUME NEW r \in Requests, Arrive(r) \/ Drop(r)
      PROVE  Same \/ Late
  BY <1>5, <1>2
  DEF Arrive, Drop, PayRead, RequestRead, ApproveRead, RejectRead, WebhookRead, BeginFor, Begin
<1>6. ASSUME NEW w \in Withdrawals, PayoutEnds(w)
      PROVE  Same \/ Late
  BY <1>6, <1>2 DEF PayoutEnds
<1>7. ASSUME NEW r \in Requests, Proceed(r)
      PROVE  Same \/ Late
  <2> DEFINE w == req[r].withdrawal
  <2>1. CASE PayCommit(r) \/ RequestCommit(r)
    <3> DEFINE v == req[r].user
               a == req[r].amount
    <3>1. /\ v \in Users /\ a \in Amounts
          /\ balance' = [balance EXCEPT ![v] = @ - a]
          /\ ledger' = [ledger EXCEPT ![v] = @ - a]
      BY <2>1 DEF PayCommit, RequestCommit, At, Grounded, RequestGrounded
    <3> HIDE DEF v, a
    <3>2. a \in Int
      BY <3>1, AmountAssumption
    <3> QED
      BY <3>1, <3>2, <1>3a
  <2>2. CASE SendPayout(r) \/ PayoutRefused(r) \/ ApproveCommit(r)
    BY <2>2, <1>2 DEF SendPayout, PayoutRefused, ApproveCommit
  <2>3. CASE RejectCommit(r) \/ FailedCommit(r) \/ SucceededCommit(r)
    <3>1. /\ req[r].op \in {"reject", "failed", "succeeded"} /\ Finish(r)
          /\ Return(w) \/ SucceededCommit(r)
      BY <2>3 DEF RejectCommit, FailedCommit, SucceededCommit, At
    <3>2. CASE row[w] = "FAILED"
      BY <3>1, <3>2, SettledTwice, Ended DEF Late
    <3>3. CASE row[w] # "FAILED"
      <4> DEFINE v == withdrawal[w].user
                 a == withdrawal[w].amount
      <4>1. v \in Users /\ a \in Int
        BY <3>1, ExistingRow DEF Grounded, RequestGrounded
      <4>2. CASE Return(w)
        <5>1. /\ balance' = [balance EXCEPT ![v] = @ + a]
              /\ ledger' = [ledger EXCEPT ![v] = @ + a]
          BY <3>3, <4>2 DEF Return
        <5> HIDE DEF v, a
        <5> QED
          BY <4>1, <5>1, <1>3
      <4>3. CASE SucceededCommit(r)
        BY <3>3, <4>3, <1>2 DEF SucceededCommit
      <4> QED
        BY <3>1, <4>2, <4>3
    <3> QED
      BY <3>2, <3>3
  <2> QED
    BY <1>7, <2>1, <2>2, <2>3 DEF Proceed
<1>8. CASE UNCHANGED vars
  BY <1>8, <1>2 DEF vars
<1>9. ASSUME Next
      PROVE  Same \/ Late
  <2>1. CASE \E x \in Users, a \in Amounts : Credit(x, a)
    BY <2>1, <1>4
  <2>2. CASE \E r \in Requests : Arrive(r) \/ Proceed(r) \/ Drop(r)
    BY <2>2, <1>5, <1>7
  <2>3. CASE \E w \in Withdrawals : PayoutEnds(w)
    BY <2>3, <1>6
  <2> QED
    BY <1>9, <2>1, <2>2, <2>3 DEF Next
<1> QED
  BY <1>8, <1>9 DEF Same, Late

\* The step that takes a balance below zero.
LEMMA OverdrawStep ==
    ASSUME Grounded, [Next]_vars, NEW u \in Users, balance'[u] < balance[u], balance'[u] < 0
    PROVE  \E r \in Requests :
              /\ req[r] # Idle /\ req'[r] = Idle
              /\ req[r].user = u /\ req[r].covered # balance[u]
<1>1. balance \in [Users -> Int]
  BY DEF Grounded, TypeOK
<1>2. ASSUME UNCHANGED balance PROVE FALSE
  BY <1>1, <1>2
<1>3. ASSUME NEW v \in Users, NEW a \in Nat, balance' = [balance EXCEPT ![v] = @ + a]
      PROVE  FALSE
  BY <1>1, <1>3
<1>4. ASSUME NEW x \in Users, NEW a \in Amounts, Credit(x, a)
      PROVE  FALSE
  BY <1>4, <1>3, AmountAssumption DEF Credit
<1>5. ASSUME NEW r \in Requests, Arrive(r) \/ Drop(r)
      PROVE  FALSE
  BY <1>5, <1>2
  DEF Arrive, Drop, PayRead, RequestRead, ApproveRead, RejectRead, WebhookRead, BeginFor, Begin
<1>6. ASSUME NEW w \in Withdrawals, PayoutEnds(w)
      PROVE  FALSE
  BY <1>6, <1>2 DEF PayoutEnds
<1>7. ASSUME NEW r \in Requests, Proceed(r)
      PROVE  /\ req[r] # Idle /\ req'[r] = Idle
             /\ req[r].user = u /\ req[r].covered # balance[u]
  <2>1. CASE PayCommit(r) \/ RequestCommit(r)
    <3>1. /\ req[r].op \in {"pay", "request"} /\ Finish(r)
          /\ balance' = [balance EXCEPT ![req[r].user] = @ - req[r].amount]
      BY <2>1 DEF PayCommit, RequestCommit, At
    <3>2. /\ req[r].user \in Users /\ req[r].amount \in Amounts
          /\ req[r].covered >= req[r].amount
      BY <3>1 DEF Grounded, RequestGrounded
    <3>3. req[r].covered \in Int
      BY DEF Grounded, TypeOK, RequestTypes
    <3> DEFINE a == req[r].amount
               c == req[r].covered
               v == req[r].user
    <3>4. v \in Users /\ a \in Amounts /\ c \in Int /\ c >= a /\ balance' = [balance EXCEPT ![v] = @ - a]
      BY <3>1, <3>2, <3>3
    <3> HIDE DEF a, c, v
    <3>4a. a \in Int
      BY <3>4, AmountAssumption
    <3>5. v = u
      BY <3>4, <3>4a, <1>1
    <3>6. c # balance[u]
      BY <3>4, <3>4a, <3>5, <1>1
    <3> QED
      BY <3>1, <3>5, <3>6, Ended DEF c, v
  <2>2. CASE SendPayout(r) \/ PayoutRefused(r) \/ ApproveCommit(r) \/ SucceededCommit(r)
    BY <2>2, <1>2 DEF SendPayout, PayoutRefused, ApproveCommit, SucceededCommit
  <2>3. CASE RejectCommit(r) \/ FailedCommit(r)
    <3> DEFINE w == req[r].withdrawal
    <3>1. req[r].op \in {"reject", "failed"} /\ Return(w)
      BY <2>3 DEF RejectCommit, FailedCommit, At
    <3>2. withdrawal[w].user \in Users /\ withdrawal[w].amount \in Nat
      BY <3>1, ExistingRow DEF Grounded, RequestGrounded
    <3> QED
      BY <3>1, <3>2, <1>3 DEF Return
  <2> QED
    BY <1>7, <2>1, <2>2, <2>3 DEF Proceed
<1>8. CASE UNCHANGED vars
  BY <1>8, <1>2 DEF vars
<1> QED
  BY <1>4, <1>5, <1>6, <1>7, <1>8 DEF Next

\* Balance and ledger part only when a handler writes over what another one
\* changed after its read: races are the only way to pay a withdrawal twice.
THEOREM MispayersWereOvertaken == Spec => OnlyOvertakenHandlersMispay
<1>1. Grounded /\ [Next]_vars =>
        [\A u \in Users :
           \/ balance'[u] - ledger'[u] = balance[u] - ledger[u]
           \/ \E r \in Requests : req[r] # Idle /\ req'[r] = Idle /\ Overtaken(r)]_vars
  BY MispayStep
<1> QED
  BY <1>1, AlwaysGrounded, PTL DEF Spec, OnlyOvertakenHandlersMispay

\* Only a debit that was checked against a balance that has changed since takes
\* a wallet below zero.
THEOREM OverdraftsWereStale == Spec => OnlyStaleBalancesOverdraw
<1>1. Grounded /\ [Next]_vars =>
        [\A u \in Users :
           balance'[u] < balance[u] /\ balance'[u] < 0
             => \E r \in Requests :
                   /\ req[r] # Idle /\ req'[r] = Idle
                   /\ req[r].user = u /\ req[r].covered # balance[u]]_vars
  BY OverdrawStep
<1> QED
  BY <1>1, AlwaysGrounded, PTL DEF Spec, OnlyStaleBalancesOverdraw

-----------------------------------------------------------------------------
(* Wallet implements Payouts.                                              *)

\* A slot is taken by one request, before its withdrawal is there, and a payout
\* or a status only comes with a ledger row.
Slots ==
    /\ \A w \in Withdrawals :
          /\ withdrawal[w].status # "NONE" => row[w] # "NONE"
          /\ payout[w] # "NONE" => withdrawal[w].status # "NONE"
    /\ \A r \in Requests :
          req[r].op = "request" =>
             /\ withdrawal[req[r].withdrawal].status = "NONE"
             /\ \A q \in Requests : req[q].withdrawal = req[r].withdrawal => q = r

\* Slots stay as they are when requests end, or nothing happens to them.
LEMMA SlotsKept ==
    ASSUME Grounded, Slots, NEW r \in Requests, UNCHANGED req \/ Finish(r),
           \A w \in Withdrawals : withdrawal'[w].status # "NONE" => row'[w] # "NONE",
           \A w \in Withdrawals : payout'[w] # "NONE" => withdrawal'[w].status # "NONE",
           \A q \in Requests : q # r /\ req[q].op = "request" =>
              withdrawal'[req[q].withdrawal].status = withdrawal[req[q].withdrawal].status,
           UNCHANGED req => UNCHANGED withdrawal
    PROVE  Slots'
<1>1. req \in [Requests -> RequestTypes]
  BY DEF Grounded, TypeOK
<1>2. ASSUME NEW p \in Requests, req'[p].op = "request"
      PROVE  /\ withdrawal'[req'[p].withdrawal].status = "NONE"
             /\ \A q \in Requests : req'[q].withdrawal = req'[p].withdrawal => q = p
  <2>1. req'[p] = req[p]
    BY <1>1, <1>2 DEF Finish, Idle
  <2>2. /\ withdrawal[req[p].withdrawal].status = "NONE" /\ req[p].withdrawal \in Withdrawals
        /\ \A q \in Requests : req[q].withdrawal = req[p].withdrawal => q = p
    BY <1>2, <2>1 DEF Slots, Grounded, RequestGrounded
  <2>3. ASSUME NEW q \in Requests, req'[q].withdrawal = req'[p].withdrawal
        PROVE  q = p
    <3>1. req'[q] = req[q]
      BY <1>1, <2>1, <2>2, <2>3, NoneAssumption DEF Finish, Idle
    <3> QED
      BY <2>1, <2>2, <2>3, <3>1
  <2>4. CASE UNCHANGED req
    BY <2>1, <2>2, <2>3, <2>4
  <2>5. CASE Finish(r)
    <3>1. p # r
      BY <1>1, <1>2, <2>5 DEF Finish, Idle
    <3> QED
      BY <1>2, <2>1, <2>2, <2>3, <3>1
  <2> QED
    BY <2>4, <2>5
<1> QED
  BY <1>2 DEF Slots
\* A call takes a slot that is free, or is about a withdrawal that is there.
LEMMA SlotsBegun ==
    ASSUME Grounded, Slots, NEW r \in Requests, NEW op, NEW pc, NEW u, NEW a,
           NEW w \in Withdrawals \union {None}, Begin(r, op, pc, u, w, a),
           op = "request" => /\ w \in Withdrawals /\ withdrawal[w].status = "NONE"
                             /\ \A q \in Requests : req[q].withdrawal # w,
           op # "request" => w = None \/ withdrawal[w].status # "NONE"
    PROVE  Slots'
<1> DEFINE new == [op |-> op, pc |-> pc, user |-> u, withdrawal |-> w, amount |-> a,
                   seen |-> IF w = None THEN "NONE" ELSE withdrawal[w].status,
                   covered |-> balance[u]]
<1>1. req \in [Requests -> RequestTypes] /\ req' = [req EXCEPT ![r] = new]
  BY DEF Grounded, TypeOK, Begin
<1>2. /\ req'[r].op = op /\ req'[r].withdrawal = w
      /\ \A q \in Requests : q # r => req'[q] = req[q]
  BY <1>1
<1>3. UNCHANGED <<withdrawal, row, payout>>
  BY DEF Begin
<1>4. ASSUME NEW p \in Requests, req'[p].op = "request"
      PROVE  /\ withdrawal[req'[p].withdrawal].status = "NONE"
             /\ \A q \in Requests : req'[q].withdrawal = req'[p].withdrawal => q = p
  <2>1. CASE p = r
    BY <1>2, <1>4, <2>1
  <2>2. CASE p # r
    <3>1. /\ withdrawal[req[p].withdrawal].status = "NONE" /\ req[p].withdrawal \in Withdrawals
          /\ \A q \in Requests : req[q].withdrawal = req[p].withdrawal => q = p
          /\ req'[p] = req[p]
      BY <1>2, <1>4, <2>2 DEF Slots, Grounded, RequestGrounded
    <3>2. req[p].withdrawal # w
      BY <3>1, NoneAssumption
    <3> QED
      BY <1>2, <3>1, <3>2
  <2> QED
    BY <2>1, <2>2
<1> QED
  BY <1>3, <1>4 DEF Slots

LEMMA SlotsStep == Grounded /\ Slots /\ [Next]_vars => Slots'
<1> SUFFICES ASSUME Grounded, Slots, [Next]_vars PROVE Slots'
  OBVIOUS
<1>1. ASSUME NEW r \in Requests, Arrive(r)
      PROVE  Slots'
  <2>1. ASSUME NEW u \in Users, NEW a \in Amounts, PayRead(r, u, a)
        PROVE  Slots'
    BY <2>1, SlotsBegun DEF PayRead
  <2>2. ASSUME NEW u \in Users, NEW w \in Withdrawals, NEW a \in Amounts, RequestRead(r, u, w, a)
        PROVE  Slots'
    BY <2>2, SlotsBegun DEF RequestRead, NoWithdrawal
  <2>3. ASSUME NEW w \in Withdrawals, ApproveRead(r, w) \/ RejectRead(r, w) \/ WebhookRead(r, w)
        PROVE  Slots'
    BY <2>3, SlotsBegun DEF ApproveRead, RejectRead, WebhookRead, Awaited, BeginFor
  <2> QED
    BY <1>1, <2>1, <2>2, <2>3 DEF Arrive
<1>2. ASSUME NEW r \in Requests, PayCommit(r) \/ PayoutRefused(r) \/ Drop(r)
      PROVE  Slots'
  BY <1>2, SlotsKept DEF PayCommit, PayoutRefused, Drop, Slots
<1>3. ASSUME NEW r \in Requests, RequestCommit(r)
      PROVE  Slots'
  <2> DEFINE w == req[r].withdrawal
  <2>1. /\ w \in Withdrawals /\ req[r].op = "request" /\ TypeOK
        /\ \A q \in Requests : req[q].withdrawal = w => q = r
    BY <1>3 DEF RequestCommit, At, Grounded, RequestGrounded, Slots
  <2>2. /\ \A v \in Withdrawals : v # w => withdrawal'[v] = withdrawal[v] /\ row'[v] = row[v]
        /\ withdrawal'[w].status = "PENDING" /\ row'[w] = "PENDING"
        /\ Finish(r) /\ payout' = payout
    BY <1>3, <2>1 DEF RequestCommit, TypeOK
  <2>3. \A q \in Requests : q # r /\ req[q].op = "request" =>
          req[q].withdrawal \in Withdrawals /\ req[q].withdrawal # w
    BY <2>1 DEF Grounded, RequestGrounded
  <2>4. req' # req
    BY <2>1, <2>2 DEF Finish, Idle, TypeOK
  <2> QED
    BY <2>1, <2>2, <2>3, <2>4, SlotsKept DEF Slots
<1>4. ASSUME NEW r \in Requests,
             ApproveCommit(r) \/ RejectCommit(r) \/ SucceededCommit(r) \/ FailedCommit(r)
      PROVE  Slots'
  <2> DEFINE w == req[r].withdrawal
  <2>1. req[r].op \in {"approve", "reject", "succeeded", "failed"} /\ Finish(r) /\ payout' = payout
    BY <1>4 DEF ApproveCommit, RejectCommit, SucceededCommit, FailedCommit, At
  <2>2. w \in Withdrawals /\ withdrawal[w].status # "NONE" /\ TypeOK
    BY <2>1 DEF Grounded, RequestGrounded
  <2>3. /\ \A v \in Withdrawals : v # w => withdrawal'[v] = withdrawal[v]
        /\ withdrawal'[w].status # "NONE"
    BY <1>4, <2>2, ExistingRow DEF ApproveCommit, RejectCommit, SucceededCommit, FailedCommit, TypeOK
  <2>4. \A v \in Withdrawals : row[v] # "NONE" => row'[v] # "NONE"
    BY <1>4, <2>2
    DEF ApproveCommit, RejectCommit, SucceededCommit, FailedCommit, Return, TypeOK
  <2>5. row'[w] # "NONE"
    BY <2>2, <2>4 DEF Slots
  <2>6. \A q \in Requests : q # r /\ req[q].op = "request" =>
          req[q].withdrawal \in Withdrawals /\ req[q].withdrawal # w
    BY <2>2 DEF Grounded, RequestGrounded, Slots
  <2>7. req' # req
    BY <2>1, <2>2 DEF Finish, Idle, TypeOK
  <2>8. \A v \in Withdrawals : withdrawal'[v].status # "NONE" => row'[v] # "NONE"
    BY <2>3, <2>4, <2>5 DEF Slots
  <2>9. \A v \in Withdrawals : payout'[v] # "NONE" => withdrawal'[v].status # "NONE"
    BY <2>1, <2>3 DEF Slots
  <2> QED
    BY <2>1, <2>3, <2>6, <2>7, <2>8, <2>9, SlotsKept
<1>5. ASSUME NEW r \in Requests, SendPayout(r)
      PROVE  Slots'
  <2>1. /\ req[r].withdrawal \in Withdrawals /\ withdrawal[req[r].withdrawal].status # "NONE"
        /\ TypeOK
    BY <1>5 DEF SendPayout, At, Grounded, RequestGrounded
  <2>2. \A q \in Requests :
          req'[q].op = req[q].op /\ req'[q].withdrawal = req[q].withdrawal
    BY <1>5, <2>1 DEF SendPayout, TypeOK, RequestTypes
  <2>3. \A w \in Withdrawals : payout'[w] # "NONE" => withdrawal[w].status # "NONE"
    BY <1>5, <2>1 DEF SendPayout, TypeOK, Slots
  <2> QED
    BY <1>5, <2>2, <2>3 DEF SendPayout, Slots
<1>6. ASSUME NEW w \in Withdrawals, PayoutEnds(w)
      PROVE  Slots'
  BY <1>6 DEF PayoutEnds, Slots, Grounded, TypeOK
<1>7. ASSUME NEW u \in Users, NEW a \in Amounts, Credit(u, a)
      PROVE  Slots'
  BY <1>7 DEF Credit, Slots
<1>8. CASE UNCHANGED vars
  BY <1>8 DEF vars, Slots
<1> QED
  BY <1>1, <1>2, <1>3, <1>4, <1>5, <1>6, <1>7, <1>8 DEF Next, Proceed
\* What does not touch rows, claims and successes, and moves balance and ledger
\* together, is nothing to Payouts.
LEMMA Unmoved ==
    ASSUME UNCHANGED row,
           \A w \in Withdrawals : /\ withdrawal'[w].user = withdrawal[w].user
                                  /\ withdrawal'[w].amount = withdrawal[w].amount
                                  /\ payout'[w] = "SUCCEEDED" <=> payout[w] = "SUCCEEDED",
           \A u \in Users : balance'[u] - ledger'[u] = balance[u] - ledger[u]
    PROVE  UNCHANGED PO!vars
<1>1. UNCHANGED [w \in Withdrawals |-> Place[row[w]]]
  OBVIOUS
<1>2. UNCHANGED [w \in Withdrawals |->
                   [user |-> withdrawal[w].user, amount |-> withdrawal[w].amount]]
  OBVIOUS
<1>3. UNCHANGED {w \in Withdrawals : payout[w] = "SUCCEEDED"}
  OBVIOUS
<1>4. UNCHANGED [u \in Users |-> balance[u] - ledger[u]]
  OBVIOUS
<1> QED
  BY <1>1, <1>2, <1>3, <1>4 DEF PO!vars

\* A row that becomes SUCCESS or FAILED is a withdrawal that is settled, or
\* settled again.
LEMMA Settles ==
    ASSUME Grounded, Slots, NEW w \in Withdrawals, withdrawal[w].status # "NONE",
           NEW s \in {"SUCCESS", "FAILED"}, s = "SUCCESS" => payout[w] = "SUCCEEDED",
           row' = [row EXCEPT ![w] = s], UNCHANGED payout,
           \A v \in Withdrawals : /\ withdrawal'[v].user = withdrawal[v].user
                                  /\ withdrawal'[v].amount = withdrawal[v].amount,
           balance' \in [Users -> Int], ledger' \in [Users -> Int],
           \A u \in Users : balance'[u] - ledger'[u] =
              IF row[w] = "FAILED" /\ u = withdrawal[w].user
              THEN balance[u] - ledger[u] + withdrawal[w].amount ELSE balance[u] - ledger[u]
    PROVE  PO!Next
<1> DEFINE to == Place[s]
           place == [v \in Withdrawals |-> Place[row[v]]]
           surplus == [u \in Users |-> balance[u] - ledger[u]]
           claim == [v \in Withdrawals |->
                       [user |-> withdrawal[v].user, amount |-> withdrawal[v].amount]]
<1>1. to \in {"bank", "wallet"} /\ (to = "bank" => payout[w] = "SUCCEEDED")
  BY DEF Place
<1>2. row[w] \in {"PENDING", "SUCCESS", "FAILED"} /\ row \in [Withdrawals -> DOMAIN Place]
  BY DEF Grounded, TypeOK, Slots, Place
<1>3. place' = [place EXCEPT ![w] = to]
  BY <1>2
<1>4. claim' = claim
  OBVIOUS
<1>5. UNCHANGED {v \in Withdrawals : payout[v] = "SUCCEEDED"}
  OBVIOUS
<1>6. PO!Goes(w, to)
  BY <1>1, <1>3, <1>4, <1>5 DEF PO!Goes
<1>7. CASE row[w] = "PENDING"
  <2>1. place[w] = "held" /\ surplus' = surplus
    BY <1>7 DEF Place
  <2>2. PO!Settle(w, to)
    BY <1>6, <2>1 DEF PO!Settle
  <2> QED
    BY <1>1, <2>2 DEF PO!Next
<1>8. CASE row[w] = "SUCCESS"
  <2>1. place[w] = "bank" /\ surplus' = surplus
    BY <1>8 DEF Place
  <2>2. PO!SettleAgain(w, to)
    BY <1>6, <2>1 DEF PO!SettleAgain
  <2> QED
    BY <1>1, <2>2 DEF PO!Next
<1>9. CASE row[w] = "FAILED"
  <2>1. withdrawal[w].user \in Users
    BY ExistingRow
  <2>2. place[w] = "wallet"
    BY <1>9 DEF Place
  <2>3. surplus' = [surplus EXCEPT ![withdrawal[w].user] = @ + withdrawal[w].amount]
    BY <1>9, <2>1
  <2>4. claim[w].user = withdrawal[w].user /\ claim[w].amount = withdrawal[w].amount
    OBVIOUS
  <2>5. surplus' = [surplus EXCEPT ![claim[w].user] = @ + claim[w].amount]
    BY <2>3, <2>4
  <2>6. PO!SettleAgain(w, to)
    BY <1>6, <2>2, <2>5 DEF PO!SettleAgain
  <2> QED
    BY <1>1, <2>6 DEF PO!Next
<1> QED
  BY <1>2, <1>7, <1>8, <1>9
\* A withdrawal that is written, with its debit, is held.
LEMMA Holds ==
    ASSUME Grounded, NEW w \in Withdrawals, NEW u \in Users, NEW a \in Amounts,
           withdrawal[w].status = "NONE",
           withdrawal' = [withdrawal EXCEPT ![w] = [status |-> "PENDING", user |-> u, amount |-> a]],
           row' = [row EXCEPT ![w] = "PENDING"], UNCHANGED payout,
           \A v \in Users : balance'[v] - ledger'[v] = balance[v] - ledger[v]
    PROVE  PO!Next
<1> DEFINE place == [v \in Withdrawals |-> Place[row[v]]]
           claim == [v \in Withdrawals |->
                       [user |-> withdrawal[v].user, amount |-> withdrawal[v].amount]]
<1>1. row[w] = "NONE" /\ TypeOK
  BY DEF Grounded, ShownAsHappened
<1>2. Place["NONE"] = "nowhere" /\ Place["PENDING"] = "held"
  BY DEF Place
<1>2a. place[w] = "nowhere"
  BY <1>1, <1>2
<1>2b. \A v \in Withdrawals : row'[v] = IF v = w THEN "PENDING" ELSE row[v]
  BY <1>1 DEF TypeOK
<1>2c. ASSUME NEW v \in Withdrawals, v # w PROVE Place[row'[v]] = Place[row[v]]
  <2>1. row'[v] = row[v]
    BY <1>2b, <1>2c
  <2> QED
    BY <2>1 DEF Place
<1>2d. Place[row'[w]] = "held"
  <2>1. row'[w] = "PENDING"
    BY <1>2b
  <2> QED
    BY <2>1 DEF Place
<1>2e. place' = [v \in Withdrawals |-> Place[row'[v]]]
  BY DEF Place
<1>2f. place' = [place EXCEPT ![w] = "held"]
  <2> HIDE DEF Place
  <2> QED
    BY <1>2c, <1>2d, <1>2e
<1>3. claim' = [claim EXCEPT ![w] = [user |-> u, amount |-> a]]
  BY <1>1 DEF TypeOK
<1>4. UNCHANGED {v \in Withdrawals : payout[v] = "SUCCEEDED"}
  OBVIOUS
<1>5. UNCHANGED [v \in Users |-> balance[v] - ledger[v]]
  OBVIOUS
<1>6. PO!Hold(w, u, a)
  BY <1>2a, <1>2f, <1>3, <1>4, <1>5 DEF PO!Hold
<1> QED
  BY <1>6 DEF PO!Next

\* A change of status leaves whose a withdrawal is, and how much.
LEMMA SameClaims ==
    ASSUME Grounded, NEW w \in Withdrawals, NEW s,
           withdrawal' = withdrawal \/ withdrawal' = [withdrawal EXCEPT ![w].status = s]
    PROVE  \A v \in Withdrawals : withdrawal'[v].user = withdrawal[v].user
                                  /\ withdrawal'[v].amount = withdrawal[v].amount
  BY DEF Grounded, TypeOK, NoWithdrawal

\* A rejection or a webhook settles its withdrawal.
LEMMA SettlesStep ==
    ASSUME Grounded, Slots, NEW r \in Requests, Grounded',
           RejectCommit(r) \/ FailedCommit(r) \/ SucceededCommit(r)
    PROVE  PO!Next
<1> DEFINE w == req[r].withdrawal
           u == withdrawal[w].user
           a == withdrawal[w].amount
<1>1. /\ w \in Withdrawals /\ withdrawal[w].status # "NONE" /\ UNCHANGED payout
      /\ SucceededCommit(r) => payout[w] = "SUCCEEDED"
  BY DEF RejectCommit, FailedCommit, SucceededCommit, At, Grounded, RequestGrounded
<1>2. u \in Users /\ a \in Nat
  BY <1>1, ExistingRow
<1>3. /\ balance \in [Users -> Int] /\ ledger \in [Users -> Int]
      /\ balance' \in [Users -> Int] /\ ledger' \in [Users -> Int]
  BY DEF Grounded, TypeOK
<1>4. \A v \in Withdrawals : withdrawal'[v].user = withdrawal[v].user
                             /\ withdrawal'[v].amount = withdrawal[v].amount
  BY <1>1, SameClaims DEF RejectCommit, FailedCommit, SucceededCommit
<1>5. CASE RejectCommit(r) \/ FailedCommit(r)
  <2>1. /\ balance' = [balance EXCEPT ![u] = @ + a] /\ row' = [row EXCEPT ![w] = "FAILED"]
        /\ ledger' = IF row[w] = "FAILED" THEN ledger ELSE [ledger EXCEPT ![u] = @ + a]
    BY <1>5 DEF RejectCommit, FailedCommit, Return
  <2> HIDE DEF w, u, a
  <2>2. \A v \in Users : balance'[v] - ledger'[v] =
          IF row[w] = "FAILED" /\ v = u THEN balance[v] - ledger[v] + a
          ELSE balance[v] - ledger[v]
    BY <1>2, <1>3, <2>1
  <2> QED
    BY <1>1, <1>3, <1>4, <2>1, <2>2, Settles DEF u, a
<1>6. CASE SucceededCommit(r)
  <2>1. /\ balance' = balance /\ row' = [row EXCEPT ![w] = "SUCCESS"]
        /\ ledger' = IF row[w] # "FAILED" THEN ledger ELSE [ledger EXCEPT ![u] = @ - a]
    BY <1>6 DEF SucceededCommit
  <2> HIDE DEF w, u, a
  <2>2. \A v \in Users : balance'[v] - ledger'[v] =
          IF row[w] = "FAILED" /\ v = u THEN balance[v] - ledger[v] + a
          ELSE balance[v] - ledger[v]
    BY <1>2, <1>3, <2>1
  <2> QED
    BY <1>1, <1>3, <1>4, <1>6, <2>1, <2>2, Settles DEF u, a
<1> QED
  BY <1>5, <1>6

LEMMA NextImplements == Grounded /\ Slots /\ [Next]_vars => [PO!Next]_(PO!vars)
<1> SUFFICES ASSUME Grounded, Slots, [Next]_vars PROVE [PO!Next]_(PO!vars)
  OBVIOUS
<1>0. /\ balance \in [Users -> Int] /\ ledger \in [Users -> Int] /\ TypeOK
      /\ balance' \in [Users -> Int] /\ ledger' \in [Users -> Int]
  BY NextGrounded DEF Grounded, TypeOK
<1>1. ASSUME NEW r \in Requests, Arrive(r) \/ PayoutRefused(r) \/ Drop(r)
      PROVE  UNCHANGED PO!vars
  <2>1. UNCHANGED <<balance, ledger, withdrawal, row, payout>>
    BY <1>1 DEF Arrive, PayoutRefused, Drop, PayRead, RequestRead, ApproveRead, RejectRead,
                WebhookRead, BeginFor, Begin
  <2> QED
    BY <2>1, Unmoved
<1>2. ASSUME NEW u \in Users, NEW a \in Amounts, Credit(u, a)
      PROVE  UNCHANGED PO!vars
  <2>1. a \in Int
    BY AmountAssumption
  <2>2. \A v \in Users : balance'[v] - ledger'[v] = balance[v] - ledger[v]
    BY <1>0, <1>2, <2>1 DEF Credit
  <2>3. UNCHANGED <<withdrawal, row, payout>>
    BY <1>2 DEF Credit
  <2> QED
    BY <2>2, <2>3, Unmoved
<1>3. ASSUME NEW r \in Requests, PayCommit(r) \/ RequestCommit(r)
      PROVE  \A v \in Users : balance'[v] - ledger'[v] = balance[v] - ledger[v]
  <2> DEFINE u == req[r].user
             a == req[r].amount
  <2>1. /\ u \in Users /\ a \in Amounts
        /\ balance' = [balance EXCEPT ![u] = @ - a] /\ ledger' = [ledger EXCEPT ![u] = @ - a]
    BY <1>3 DEF PayCommit, RequestCommit, At, Grounded, RequestGrounded
  <2> HIDE DEF u, a
  <2>2. a \in Int
    BY <2>1, AmountAssumption
  <2> QED
    BY <1>0, <2>1, <2>2
<1>4. ASSUME NEW r \in Requests, PayCommit(r)
      PROVE  UNCHANGED PO!vars
  BY <1>3, <1>4, Unmoved DEF PayCommit
<1>5. ASSUME NEW r \in Requests, RequestCommit(r)
      PROVE  PO!Next
  <2>1. /\ req[r].withdrawal \in Withdrawals /\ req[r].user \in Users /\ req[r].amount \in Amounts
        /\ withdrawal[req[r].withdrawal].status = "NONE"
        /\ withdrawal' = [withdrawal EXCEPT ![req[r].withdrawal] =
                            [status |-> "PENDING", user |-> req[r].user, amount |-> req[r].amount]]
        /\ row' = [row EXCEPT ![req[r].withdrawal] = "PENDING"] /\ payout' = payout
    BY <1>5 DEF RequestCommit, At, Grounded, RequestGrounded, Slots
  <2> QED
    BY <1>3, <1>5, <2>1, Holds
<1>6. ASSUME NEW r \in Requests, SendPayout(r) \/ ApproveCommit(r)
      PROVE  UNCHANGED PO!vars
  <2> DEFINE w == req[r].withdrawal
  <2>1. w \in Withdrawals /\ UNCHANGED <<balance, ledger, row>>
    BY <1>6 DEF SendPayout, ApproveCommit, At, Grounded, RequestGrounded
  <2>2. \A v \in Withdrawals : payout'[v] = "SUCCEEDED" <=> payout[v] = "SUCCEEDED"
    BY <1>0, <1>6, <2>1 DEF SendPayout, ApproveCommit, TypeOK
  <2>3. \A v \in Withdrawals : withdrawal'[v].user = withdrawal[v].user
                               /\ withdrawal'[v].amount = withdrawal[v].amount
    BY <1>6, <2>1, SameClaims DEF SendPayout, ApproveCommit
  <2> QED
    BY <2>1, <2>2, <2>3, Unmoved
<1>7. ASSUME NEW w \in Withdrawals, PayoutEnds(w)
      PROVE  [PO!Next]_(PO!vars)
  <2>1. PICK s \in {"SUCCEEDED", "FAILED"} : payout' = [payout EXCEPT ![w] = s]
    BY <1>7 DEF PayoutEnds
  <2>2. payout[w] = "ACCEPTED" /\ UNCHANGED <<balance, ledger, withdrawal, row>>
    BY <1>7 DEF PayoutEnds
  <2>3. CASE s = "FAILED"
    BY <1>0, <2>1, <2>2, <2>3, Unmoved DEF TypeOK
  <2>4. CASE s = "SUCCEEDED"
    <3> DEFINE done == {v \in Withdrawals : payout[v] = "SUCCEEDED"}
               place == [v \in Withdrawals |-> Place[row[v]]]
    <3>1. done' = done \union {w}
      BY <1>0, <2>1, <2>4 DEF TypeOK
    <3>2. row[w] \in {"PENDING", "SUCCESS", "FAILED"}
      BY <1>0, <2>2 DEF TypeOK, Slots
    <3>3. place[w] # "nowhere"
      BY <3>2 DEF Place
    <3>4. PO!Pay(w)
      BY <2>2, <3>1, <3>3 DEF PO!Pay
    <3> QED
      BY <3>4 DEF PO!Next
  <2> QED
    BY <2>3, <2>4
<1>8. ASSUME NEW r \in Requests, RejectCommit(r) \/ FailedCommit(r) \/ SucceededCommit(r)
      PROVE  PO!Next
  BY <1>8, SettlesStep, NextGrounded
<1>9. CASE UNCHANGED vars
  BY <1>9, Unmoved DEF vars
<1> QED
  BY <1>1, <1>2, <1>4, <1>5, <1>6, <1>7, <1>8, <1>9 DEF Next, Proceed

LEMMA InitImplements == Init => PO!Init
  BY DEF Init, PO!Init, Place, NoWithdrawal

\* Whatever races and dies, a hold is taken once and from the balance, the bank
\* has only what Xendit paid, and settling again never takes from a user: the
\* handlers implement Payouts (ImplementsPayouts).
THEOREM WalletImplementsPayouts == Spec => ImplementsPayouts
<1>1. Init => Slots
  BY DEF Init, Slots, Idle, NoWithdrawal
<1>2. Grounded /\ Slots /\ [Next]_vars => (Grounded /\ Slots)'
  BY NextGrounded, SlotsStep
<1> QED
  BY <1>1, <1>2, InitGrounded, InitImplements, NextImplements, PTL
  DEF Spec, ImplementsPayouts, PO!Spec
=============================================================================
