------------------------------- MODULE Wallet -------------------------------
(***************************************************************************)
(* WalletService: balances and their ledger, withdrawals, and the payouts  *)
(* they become at Xendit.  Every handler reads, checks, awaits and then    *)
(* writes in one transaction that names only ids; balances change by       *)
(* atomic increments.  A request in flight is a slot `req[r]' that carries *)
(* what it read.                                                           *)
(***************************************************************************)
EXTENDS Integers

CONSTANTS
    Users,        \* the owners of wallets
    Withdrawals,  \* slots for withdrawal rows and their payouts (a bound)
    Requests,     \* slots for requests in flight at the same time (a bound)
    Amounts,      \* the amounts that are credited, paid and withdrawn
    MaxBalance,   \* nothing is credited beyond this balance (a bound)
    MaxLost,      \* how many requests may die between two steps (a bound)
    None          \* SQL NULL

ASSUME AmountAssumption == Amounts \subseteq Nat
ASSUME NoneAssumption == None \notin Users \union Withdrawals \union Amounts
ASSUME LimitAssumption == MaxBalance \in Nat /\ MaxLost \in Nat

VARIABLES
    balance,     \* wallets.balance
    ledger,      \* wallet_transactions: credits less debits, FAILED rows left out
    withdrawal,  \* withdrawals: the row in each slot
    row,         \* the status of the withdrawal's row in wallet_transactions
    payout,      \* the payout at Xendit that carries the withdrawal's id
    req,         \* requests in flight
    lost         \* requests that died so far

vars == <<balance, ledger, withdrawal, row, payout, req, lost>>

Statuses == {"PENDING", "PROCESSING", "SUCCESS", "FAILED"}

NoWithdrawal == [status |-> "NONE", user |-> None, amount |-> None]

Idle == [op |-> "idle", pc |-> "idle", user |-> None, withdrawal |-> None,
         amount |-> None, seen |-> "NONE", covered |-> 0]

\* A call arrives; `covered' is the balance it read.
Begin(r, op, pc, u, w, a) ==
    /\ req[r] = Idle
    /\ req' = [req EXCEPT ![r] =
                 [op |-> op, pc |-> pc, user |-> u, withdrawal |-> w, amount |-> a,
                  seen |-> IF w = None THEN "NONE" ELSE withdrawal[w].status,
                  covered |-> balance[u]]]
    /\ UNCHANGED <<balance, ledger, withdrawal, row, payout, lost>>

At(r, op, pc) == req[r].op = op /\ req[r].pc = pc

Finish(r) == req' = [req EXCEPT ![r] = Idle]

\* A call that is about withdrawal w.
BeginFor(r, op, pc, w) == Begin(r, op, pc, withdrawal[w].user, w, withdrawal[w].amount)

\* A request dies between two steps: the process restarts, a query throws, or
\* the database picks its transaction to break a deadlock.
Drop(r) ==
    /\ lost < MaxLost
    /\ req[r] # Idle
    /\ lost' = lost + 1
    /\ Finish(r)
    /\ UNCHANGED <<balance, ledger, withdrawal, row, payout>>

-----------------------------------------------------------------------------
(* Credits, and payments for orders.                                       *)

\* topUp and creditCourierOrder: the row and the increment, in one transaction.
Credit(u, a) ==
    /\ balance[u] + a <= MaxBalance
    /\ balance' = [balance EXCEPT ![u] = @ + a]
    /\ ledger' = [ledger EXCEPT ![u] = @ + a]
    /\ UNCHANGED <<withdrawal, row, payout, req, lost>>

\* Mutant: the balance is not compared with the amount.
BugSufficient(u, a) == TRUE

Sufficient(u, a) == balance[u] >= a

\* processOrderPayment.
PayRead(r, u, a) ==
    /\ Sufficient(u, a)
    /\ Begin(r, "pay", "commit", u, None, a)

PayCommit(r) ==
    LET u == req[r].user
        a == req[r].amount
    IN  /\ At(r, "pay", "commit")
        /\ balance' = [balance EXCEPT ![u] = @ - a]
        /\ ledger' = [ledger EXCEPT ![u] = @ - a]
        /\ Finish(r)
        /\ UNCHANGED <<withdrawal, row, payout, lost>>

-----------------------------------------------------------------------------
(* Withdrawals.                                                            *)

\* requestWithdrawal: a slot no row and no other request uses.
RequestRead(r, u, w, a) ==
    /\ withdrawal[w] = NoWithdrawal
    /\ \A s \in Requests : req[s].withdrawal # w
    /\ Sufficient(u, a)
    /\ Begin(r, "request", "commit", u, w, a)

\* Mutant: the hold is booked, and the balance keeps the money.
BugRequestCommit(r) ==
    LET u == req[r].user
        a == req[r].amount
        w == req[r].withdrawal
    IN  /\ At(r, "request", "commit")
        /\ withdrawal' = [withdrawal EXCEPT ![w] =
                            [status |-> "PENDING", user |-> u, amount |-> a]]
        /\ row' = [row EXCEPT ![w] = "PENDING"]
        /\ ledger' = [ledger EXCEPT ![u] = @ - a]
        /\ Finish(r)
        /\ UNCHANGED <<balance, payout, lost>>

\* The withdrawal, its ledger row and the hold, in one transaction.
RequestCommit(r) ==
    LET u == req[r].user
        a == req[r].amount
        w == req[r].withdrawal
    IN  /\ At(r, "request", "commit")
        /\ withdrawal' = [withdrawal EXCEPT ![w] =
                            [status |-> "PENDING", user |-> u, amount |-> a]]
        /\ row' = [row EXCEPT ![w] = "PENDING"]
        /\ balance' = [balance EXCEPT ![u] = @ - a]
        /\ ledger' = [ledger EXCEPT ![u] = @ - a]
        /\ Finish(r)
        /\ UNCHANGED <<payout, lost>>

ApproveRead(r, w) ==
    /\ withdrawal[w].status = "PENDING"
    /\ BeginFor(r, "approve", "payout", w)

\* createPayout: Xendit knows the idempotency key of a payout it has already.
SendPayout(r) ==
    LET w == req[r].withdrawal
    IN  /\ At(r, "approve", "payout")
        /\ payout' = [payout EXCEPT ![w] = IF @ = "NONE" THEN "ACCEPTED" ELSE @]
        /\ req' = [req EXCEPT ![r].pc = "commit"]
        /\ UNCHANGED <<balance, ledger, withdrawal, row, lost>>

\* Mutant: the error is swallowed.
BugPayoutRefused(r) ==
    /\ At(r, "approve", "payout")
    /\ req' = [req EXCEPT ![r].pc = "commit"]
    /\ UNCHANGED <<balance, ledger, withdrawal, row, payout, lost>>

\* createPayout throws, and so does approveWithdrawal.
PayoutRefused(r) ==
    /\ At(r, "approve", "payout")
    /\ Finish(r)
    /\ UNCHANGED <<balance, ledger, withdrawal, row, payout, lost>>

\* The update after the payout was sent, whatever the status is by now.
ApproveCommit(r) ==
    /\ At(r, "approve", "commit")
    /\ withdrawal' = [withdrawal EXCEPT ![req[r].withdrawal].status = "PROCESSING"]
    /\ Finish(r)
    /\ UNCHANGED <<balance, ledger, row, payout, lost>>

\* Mutant: what is not paid out yet can be rejected.
BugRejectRead(r, w) ==
    /\ withdrawal[w].status \in {"PENDING", "FAILED"}
    /\ BeginFor(r, "reject", "commit", w)

RejectRead(r, w) ==
    /\ withdrawal[w].status = "PENDING"
    /\ BeginFor(r, "reject", "commit", w)

\* The hold is given back: to the balance unconditionally, and in the ledger
\* because its row becomes FAILED.
Return(w) ==
    LET u == withdrawal[w].user
        a == withdrawal[w].amount
    IN  /\ balance' = [balance EXCEPT ![u] = @ + a]
        /\ row' = [row EXCEPT ![w] = "FAILED"]
        /\ ledger' = IF row[w] = "FAILED" THEN ledger ELSE [ledger EXCEPT ![u] = @ + a]

\* Mutant: a status the enumeration lacks.
BugRejectCommit(r) ==
    /\ At(r, "reject", "commit")
    /\ Return(req[r].withdrawal)
    /\ withdrawal' = [withdrawal EXCEPT ![req[r].withdrawal].status = "REJECTED"]
    /\ Finish(r)
    /\ UNCHANGED <<payout, lost>>

RejectCommit(r) ==
    /\ At(r, "reject", "commit")
    /\ Return(req[r].withdrawal)
    /\ withdrawal' = [withdrawal EXCEPT ![req[r].withdrawal].status = "FAILED"]
    /\ Finish(r)
    /\ UNCHANGED <<payout, lost>>

-----------------------------------------------------------------------------
(* Xendit (external), and its payout webhook: delivered any number of      *)
(* times once the payout is final.                                         *)

PayoutEnds(w) ==
    /\ payout[w] = "ACCEPTED"
    /\ \E s \in {"SUCCEEDED", "FAILED"} : payout' = [payout EXCEPT ![w] = s]
    /\ UNCHANGED <<balance, ledger, withdrawal, row, req, lost>>

\* Mutant: only what is shown as PROCESSING can end.
BugAwaited(w) == withdrawal[w].status = "PROCESSING"

\* The withdrawal exists and is not settled yet.
Awaited(w) == withdrawal[w].status \notin {"NONE", "SUCCESS", "FAILED"}

\* handleXenditPayoutWebhook.
WebhookRead(r, w) ==
    /\ Awaited(w)
    /\ \/ payout[w] = "SUCCEEDED" /\ BeginFor(r, "succeeded", "commit", w)
       \/ payout[w] = "FAILED" /\ BeginFor(r, "failed", "commit", w)

SucceededCommit(r) ==
    LET w == req[r].withdrawal
        u == withdrawal[w].user
    IN  /\ At(r, "succeeded", "commit")
        /\ withdrawal' = [withdrawal EXCEPT ![w].status = "SUCCESS"]
        /\ row' = [row EXCEPT ![w] = "SUCCESS"]
        /\ ledger' = IF row[w] # "FAILED" THEN ledger
                     ELSE [ledger EXCEPT ![u] = @ - withdrawal[w].amount]
        /\ Finish(r)
        /\ UNCHANGED <<balance, payout, lost>>

\* Mutant: the statuses change and the money does not come back.
BugFailedCommit(r) ==
    LET w == req[r].withdrawal
        u == withdrawal[w].user
    IN  /\ At(r, "failed", "commit")
        /\ withdrawal' = [withdrawal EXCEPT ![w].status = "FAILED"]
        /\ row' = [row EXCEPT ![w] = "FAILED"]
        /\ ledger' = IF row[w] = "FAILED" THEN ledger
                     ELSE [ledger EXCEPT ![u] = @ + withdrawal[w].amount]
        /\ Finish(r)
        /\ UNCHANGED <<balance, payout, lost>>

FailedCommit(r) ==
    /\ At(r, "failed", "commit")
    /\ Return(req[r].withdrawal)
    /\ withdrawal' = [withdrawal EXCEPT ![req[r].withdrawal].status = "FAILED"]
    /\ Finish(r)
    /\ UNCHANGED <<payout, lost>>

-----------------------------------------------------------------------------
Init ==
    /\ balance = [u \in Users |-> 0]
    /\ ledger = [u \in Users |-> 0]
    /\ withdrawal = [w \in Withdrawals |-> NoWithdrawal]
    /\ row = [w \in Withdrawals |-> "NONE"]
    /\ payout = [w \in Withdrawals |-> "NONE"]
    /\ req = [r \in Requests |-> Idle]
    /\ lost = 0

Arrive(r) ==
    \/ \E u \in Users, a \in Amounts : PayRead(r, u, a)
    \/ \E u \in Users, w \in Withdrawals, a \in Amounts : RequestRead(r, u, w, a)
    \/ \E w \in Withdrawals : ApproveRead(r, w) \/ RejectRead(r, w) \/ WebhookRead(r, w)

Proceed(r) ==
    \/ PayCommit(r)
    \/ RequestCommit(r)
    \/ SendPayout(r)
    \/ PayoutRefused(r)
    \/ ApproveCommit(r)
    \/ RejectCommit(r)
    \/ SucceededCommit(r)
    \/ FailedCommit(r)

Next ==
    \/ \E u \in Users, a \in Amounts : Credit(u, a)
    \/ \E r \in Requests : Arrive(r) \/ Proceed(r) \/ Drop(r)
    \/ \E w \in Withdrawals : PayoutEnds(w)

Spec == Init /\ [][Next]_vars

\* What the webhook still has to settle: Xendit repeats a delivery that was not
\* answered with success, and stops once it was.
Unsettled(r, w) == row[w] = "PENDING" /\ WebhookRead(r, w)

(***************************************************************************)
(* Node runs every continuation that is ready, and Xendit repeats its      *)
(* webhook while it is not answered; its request competes for a slot of    *)
(* the model with other calls, hence strong fairness.                      *)
(***************************************************************************)
Fairness ==
    /\ \A r \in Requests : WF_vars(Proceed(r))
    /\ \A w \in Withdrawals : SF_vars(\E r \in Requests : Unsettled(r, w))

FairSpec == Spec /\ Fairness

-----------------------------------------------------------------------------
RequestTypes ==
    [op : {"idle", "pay", "request", "approve", "reject", "succeeded", "failed"},
     pc : {"idle", "payout", "commit"}, user : Users \union {None},
     withdrawal : Withdrawals \union {None}, amount : Amounts \union {None},
     seen : Statuses \union {"NONE"}, covered : Int]

\* Every variable stays within its type.
TypeOK ==
    /\ balance \in [Users -> Int]
    /\ ledger \in [Users -> Int]
    /\ withdrawal \in [Withdrawals ->
         [status : Statuses, user : Users, amount : Amounts] \union {NoWithdrawal}]
    /\ row \in [Withdrawals -> {"NONE", "PENDING", "SUCCESS", "FAILED"}]
    /\ payout \in [Withdrawals -> {"NONE", "ACCEPTED", "SUCCEEDED", "FAILED"}]
    /\ req \in [Requests -> RequestTypes]
    /\ lost \in 0 .. MaxLost

\* What a withdrawal shows is what happened: SUCCESS only for a payout that
\* succeeded, PROCESSING only for one that Xendit has, and a settled withdrawal
\* agrees with its ledger row, however approvals, rejections and webhooks race.
ShownAsHappened ==
    \A w \in Withdrawals :
        /\ withdrawal[w].status = "SUCCESS" => payout[w] = "SUCCEEDED"
        /\ withdrawal[w].status = "PROCESSING" => payout[w] # "NONE"
        /\ withdrawal[w].status \in {"NONE", "PENDING", "SUCCESS", "FAILED"}
             => row[w] = withdrawal[w].status

\* No user is ever short: the wallet holds at least what the ledger rows that
\* did not fail add up to.  Races may pay a user twice, never take twice.
NeverShort == \A u \in Users : balance[u] >= ledger[u]

-----------------------------------------------------------------------------
\* A handler about to write over a status other than the one it read, or over
\* a withdrawal that a late approval put back to PROCESSING after it was settled.
Overtaken(r) ==
    LET w == req[r].withdrawal
    IN  /\ w # None
        /\ \/ withdrawal[w].status # req[r].seen
           \/ withdrawal[w].status = "PROCESSING" /\ row[w] # "PENDING"

\* Balance and ledger part only through a handler that another one overtook:
\* an approval, rejection or webhook that finds what it read pays exactly once.
OnlyOvertakenHandlersMispay ==
    [][\A u \in Users :
         \/ balance'[u] - ledger'[u] = balance[u] - ledger[u]
         \/ \E r \in Requests : req[r] # Idle /\ req'[r] = Idle /\ Overtaken(r)]_vars

\* A debit that the balance does not cover was checked against a balance that
\* has changed since.
OnlyStaleBalancesOverdraw ==
    [][\A u \in Users :
         balance'[u] < balance[u] /\ balance'[u] < 0
           => \E r \in Requests :
                 /\ req[r] # Idle /\ req'[r] = Idle
                 /\ req[r].user = u /\ req[r].covered # balance[u]]_vars

\* As the comments have it: approving takes a withdrawal from PENDING to
\* PROCESSING, rejecting from PENDING to FAILED.  The code does not: the status
\* is checked when the handler reads it, and not when it writes.
OnlyPendingIsDecided ==
    [][\A r \in Requests :
         /\ At(r, "approve", "commit") \/ At(r, "reject", "commit")
         /\ req'[r] = Idle
         /\ lost' = lost
         => withdrawal[req[r].withdrawal].status = "PENDING"]_vars

\* A payout that ended is settled in the wallet: paid or given back, also when
\* the approval died before it could record the payout.
PayoutSettles ==
    \A w \in Withdrawals :
        payout[w] \in {"SUCCEEDED", "FAILED"} ~> row[w] \in {"SUCCESS", "FAILED"}

-----------------------------------------------------------------------------
\* Where the money of a withdrawal is, by the status of its ledger row.
Place == [NONE |-> "nowhere", PENDING |-> "held", SUCCESS |-> "bank", FAILED |-> "wallet"]

PO == INSTANCE Payouts WITH
        place <- [w \in Withdrawals |-> Place[row[w]]],
        claim <- [w \in Withdrawals |->
                    [user |-> withdrawal[w].user, amount |-> withdrawal[w].amount]],
        paid <- {w \in Withdrawals : payout[w] = "SUCCEEDED"},
        surplus <- [u \in Users |-> balance[u] - ledger[u]]

\* The handlers, their races and crashes included, keep what Payouts promises: a
\* hold is taken once and from the balance, the bank has only what Xendit paid,
\* and settling again gives a user the amount once more or changes nothing.
ImplementsPayouts == PO!Spec

-----------------------------------------------------------------------------
(* The inductive invariant behind the theorems of WalletProofs.            *)

\* What a request in flight holds: a user, an amount and a balance that covers
\* it, or a withdrawal that exists and the unsettled status it had, and what
\* Xendit has answered or reported.
RequestGrounded(r) ==
    /\ req[r].op \in {"pay", "request"}
         => req[r].user \in Users /\ req[r].amount \in Amounts /\ req[r].covered >= req[r].amount
    /\ req[r].op \in {"approve", "reject"} => req[r].seen = "PENDING"
    /\ req[r].op \in {"succeeded", "failed"} => req[r].seen \in {"PENDING", "PROCESSING"}
    /\ req[r].op \notin {"idle", "pay"} => req[r].withdrawal \in Withdrawals
    /\ req[r].op \in {"approve", "reject", "succeeded", "failed"}
         => withdrawal[req[r].withdrawal].status # "NONE"
    /\ At(r, "approve", "commit") => payout[req[r].withdrawal] # "NONE"
    /\ req[r].op = "succeeded" => payout[req[r].withdrawal] = "SUCCEEDED"

Grounded ==
    /\ TypeOK
    /\ \A r \in Requests : RequestGrounded(r)
    /\ ShownAsHappened
    /\ NeverShort
=============================================================================
