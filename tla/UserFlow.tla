------------------------------ MODULE UserFlow ------------------------------
(***************************************************************************)
(* The owner's handlers (create, confirm, pay), cancellation by owner,     *)
(* courier or admin, and the Xendit invoice with its callbacks.  Only the  *)
(* owner of an order passes the ownership guards, so the owner is "USER".  *)
(***************************************************************************)
EXTENDS Broadcast

-----------------------------------------------------------------------------
(* create.                                                                 *)

Create(o, schedule, s) ==
    /\ order[o].status = "NONE"
    /\ order' = [order EXCEPT ![o].status = "CREATED", ![o].schedule = schedule]
    /\ Log(o, "CREATED")
    /\ StartSearch(s, o)
    /\ UNCHANGED <<scale, offered, bookVars, req>>

-----------------------------------------------------------------------------
(* confirmWeighing.                                                        *)

ConfirmRead(r, o) ==
    /\ order[o].status = "WEIGHING"
    /\ order[o].net # None
    /\ Begin(r, "confirm", "commit", o, "USER", None)

ConfirmCommit(r) ==
    /\ At(r, "confirm", "commit")
    /\ ~Locked(req[r].order)
    /\ SetStatus(req[r].order,
                 IF req[r].net < 0 THEN "WAITING_PAYMENT" ELSE "PICKED_UP")
    /\ Finish(r)
    /\ UNCHANGED <<scale, searchVars, bookVars>>

-----------------------------------------------------------------------------
(* payOrder.                                                               *)

NoPayment == [status |-> "NONE", method |-> "NONE", order |-> None]

\* The invoice the row names, the calls whose invoices no row names, and whether
\* one of the latter has expired.
NoInvoice == [own |-> "NONE", stray |-> {}, lapsed |-> FALSE]

\* The external ids are made of a prefix for the method, a piece of the order's
\* id and the milliseconds: two calls of one kind in the same millisecond may
\* draw the same one.  The column is unique, so that the later insert throws.
Drawable(p, op) ==
    /\ payment[p] = NoPayment
    /\ invoice[p] = NoInvoice
    /\ \A r \in Requests : req[r].pay = p => MayFail /\ req[r].op = op

\* Mutant: whatever the order's status is.
BugNeedsPayment(row) == row.net # None /\ row.net < 0

NeedsPayment(row) ==
    /\ row.status = "WAITING_PAYMENT"
    /\ row.net # None
    /\ row.net < 0

PayRead(r, op, o, p) ==
    /\ NeedsPayment(order[o])
    /\ Drawable(p, op)
    /\ Begin(r, op, IF op = "payWallet" THEN "debit" ELSE "invoice", o, "USER", p)

\* processOrderPayment: the fare leaves the wallet in a transaction of its own.
DebitFare(r) ==
    /\ At(r, "payWallet", "debit")
    /\ Book(req[r].order, "fare")
    /\ Continue(r, "commit")
    /\ UNCHANGED <<rowVars, searchVars, payment, invoice>>

\* Mutant: the failed debit is ignored.
BugPayRefused(r) ==
    /\ At(r, "payWallet", "debit")
    /\ Continue(r, "commit")
    /\ UNCHANGED <<rowVars, searchVars, bookVars>>

\* The balance does not cover the fare, or Xendit refuses the invoice.
PayRefused(r) ==
    /\ req[r].pc \in {"debit", "invoice"}
    /\ Refuse(r)

\* Mutant: an order that moved on meanwhile makes it throw, after the debit.
BugPayWalletCommit(r) ==
    LET o == req[r].order
    IN  /\ At(r, "payWallet", "commit")
        /\ ~Locked(o)
        /\ payment' = IF order[o].status # "WAITING_PAYMENT" THEN payment
                      ELSE [payment EXCEPT ![req[r].pay] =
                             [status |-> "PAID", method |-> "WALLET", order |-> o]]
        /\ SetStatus(o, "PICKED_UP")
        /\ Finish(r)
        /\ UNCHANGED <<scale, searchVars, invoice, entries>>

\* A second transaction records the payment and moves the order on.
PayWalletCommit(r) ==
    LET o == req[r].order
    IN  /\ At(r, "payWallet", "commit")
        /\ ~Locked(o)
        /\ payment[req[r].pay] = NoPayment
        /\ payment' = [payment EXCEPT ![req[r].pay] =
                         [status |-> "PAID", method |-> "WALLET", order |-> o]]
        /\ SetStatus(o, "PICKED_UP")
        /\ Finish(r)
        /\ UNCHANGED <<scale, searchVars, invoice, entries>>

\* createInvoice: the invoice exists at Xendit, and no row knows it yet.
CreateInvoice(r) ==
    /\ At(r, "payInvoice", "invoice")
    /\ invoice' = [invoice EXCEPT ![req[r].pay].stray = @ \union {r}]
    /\ Continue(r, "commit")
    /\ UNCHANGED <<rowVars, searchVars, payment, entries>>

RecordInvoice(r) ==
    /\ At(r, "payInvoice", "commit")
    /\ payment[req[r].pay] = NoPayment
    /\ payment' = [payment EXCEPT ![req[r].pay] =
                     [status |-> "PENDING", method |-> "XENDIT", order |-> req[r].order]]
    /\ invoice' = [invoice EXCEPT ![req[r].pay].own = "OPEN", ![req[r].pay].stray = @ \ {r}]
    /\ Finish(r)
    /\ UNCHANGED <<rowVars, searchVars, entries>>

\* The insert violates the unique external id: the fare stays debited, or the
\* invoice stays at Xendit under the id of the other call's row.
IdTaken(r) ==
    /\ req[r].op \in {"payWallet", "payInvoice"}
    /\ req[r].pc = "commit"
    /\ payment[req[r].pay] # NoPayment
    /\ Refuse(r)

-----------------------------------------------------------------------------
(* Xendit (external), and its callbacks: delivered any number of times and *)
(* in any order once an invoice is in the state they report.  They carry   *)
(* the external id, not the invoice's own.                                 *)

\* The owner has an invoice's URL only from the row.
InvoicePaid(p) ==
    /\ invoice[p].own = "OPEN"
    /\ invoice' = [invoice EXCEPT ![p].own = "PAID"]
    /\ UNCHANGED <<rowVars, searchVars, payment, entries, req>>

InvoiceExpired(p) ==
    /\ invoice[p].own = "OPEN"
    /\ invoice' = [invoice EXCEPT ![p].own = "EXPIRED"]
    /\ UNCHANGED <<rowVars, searchVars, payment, entries, req>>

\* An invoice lasts a day, longer than the call that asked for it.
StrayExpired(p, i) ==
    /\ i \in invoice[p].stray
    /\ ~(At(i, "payInvoice", "commit") /\ req[i].pay = p)
    /\ invoice' = [invoice EXCEPT ![p].stray = @ \ {i}, ![p].lapsed = TRUE]
    /\ UNCHANGED <<rowVars, searchVars, payment, entries, req>>

\* Mutant: a callback for an order that has left WAITING_PAYMENT is dropped.
BugPaidRead(r, p) ==
    /\ invoice[p].own = "PAID"
    /\ payment[p].status \notin {"NONE", "PAID"}
    /\ order[payment[p].order].status = "WAITING_PAYMENT"
    /\ Begin(r, "paid", "commit", payment[p].order, "XENDIT", p)

\* handlePaymentSuccess: nothing to do for a row that is PAID already.
PaidRead(r, p) ==
    /\ invoice[p].own = "PAID"
    /\ payment[p].status \notin {"NONE", "PAID"}
    /\ Begin(r, "paid", "commit", payment[p].order, "XENDIT", p)

PaidCommit(r) ==
    LET o == req[r].order
    IN  /\ At(r, "paid", "commit")
        /\ ~Locked(o)
        /\ payment' = [payment EXCEPT ![req[r].pay].status = "PAID"]
        /\ SetStatus(o, "PICKED_UP")
        /\ Finish(r)
        /\ UNCHANGED <<scale, searchVars, invoice, entries>>

\* handlePaymentExpired: one statement, whichever invoice under p expired.
PaymentExpired(p) ==
    /\ invoice[p].own = "EXPIRED" \/ invoice[p].lapsed
    /\ payment[p].status # "NONE"
    /\ payment' = [payment EXCEPT ![p].status = "EXPIRED"]
    /\ UNCHANGED <<rowVars, searchVars, invoice, entries, req>>

-----------------------------------------------------------------------------
(* cancelOrder.                                                            *)

\* Mutant: the owner is held to the courier's list.
BugCancelBlocked(a) ==
    {"COMPLETED", "CANCELLED"} \union
    IF a = "ADMIN" THEN {} ELSE {"PICKED_UP", "DELIVERING"}

CancelBlocked(a) ==
    {"COMPLETED", "CANCELLED"} \union
    IF a = "USER" THEN {"ARRIVED", "WEIGHING", "PICKED_UP", "DELIVERING"}
    ELSE IF a \in Couriers THEN {"PICKED_UP", "DELIVERING"}
    ELSE {}

CancelRead(r, o, a) ==
    /\ a \in Couriers => order[o].courier = a
    /\ order[o].status \notin CancelBlocked(a)
    /\ Begin(r, "cancel", "commit", o, a, None)

\* Mutant: any payment row will do.
BugHasPaid(o) == \E p \in Payments : payment[p].order = o

HasPaid(o) == \E p \in Payments : payment[p].status = "PAID" /\ payment[p].order = o

\* Nothing was paid: the transaction commits.
CancelCommit(r) ==
    LET o == req[r].order
    IN  /\ At(r, "cancel", "commit")
        /\ ~Locked(o)
        /\ ~HasPaid(o)
        /\ SetStatus(o, "CANCELLED")
        /\ Finish(r)
        /\ UNCHANGED <<scale, searchVars, bookVars>>

\* Something was paid: refund it before the transaction commits.
CancelLock(r) ==
    /\ At(r, "cancel", "commit")
    /\ ~Locked(req[r].order)
    /\ HasPaid(req[r].order)
    /\ Continue(r, "refund")
    /\ UNCHANGED <<rowVars, searchVars, bookVars>>

\* The refund commits in a transaction of the wallet's own.
CancelRefund(r) ==
    /\ At(r, "cancel", "refund")
    /\ Book(req[r].order, "refund")
    /\ Continue(r, "refunded")
    /\ UNCHANGED <<rowVars, searchVars, payment, invoice>>

\* Mutant: the last update runs outside the transaction that holds the lock.
BugCancelFinish(r) ==
    /\ At(r, "cancel", "refunded")
    /\ ~Locked(req[r].order)
    /\ SetStatus(req[r].order, "CANCELLED")
    /\ Finish(r)
    /\ UNCHANGED <<scale, searchVars, bookVars>>

CancelFinish(r) ==
    /\ At(r, "cancel", "refunded")
    /\ SetStatus(req[r].order, "CANCELLED")
    /\ Finish(r)
    /\ UNCHANGED <<scale, searchVars, bookVars>>

UserRead(r, o) ==
    \/ ConfirmRead(r, o)
    \/ \E op \in {"payWallet", "payInvoice"}, p \in Payments : PayRead(r, op, o, p)
    \/ \E a \in Couriers \union {"USER", "ADMIN"} : CancelRead(r, o, a)

UserStep(r) ==
    \/ ConfirmCommit(r)
    \/ DebitFare(r)
    \/ PayRefused(r)
    \/ PayWalletCommit(r)
    \/ CreateInvoice(r)
    \/ RecordInvoice(r)
    \/ IdTaken(r)
    \/ PaidCommit(r)
    \/ CancelCommit(r)
    \/ CancelLock(r)
    \/ CancelRefund(r)
    \/ CancelFinish(r)

XenditStep(p) ==
    \/ InvoicePaid(p)
    \/ InvoiceExpired(p)
    \/ \E i \in Requests : StrayExpired(p, i)
    \/ PaymentExpired(p)
=============================================================================
