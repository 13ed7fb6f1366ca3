----------------------------- MODULE SerialProofs -----------------------------
(***************************************************************************)
(* Proofs about Orders when the requests of an order come one at a time:   *)
(* other orders, searches and Xendit still run beside them.  Then an order *)
(* at work has a courier, and each kind of money moves at most once.  This *)
(* is what a lock held from a handler's read to its write would buy.       *)
(*                                                                         *)
(* The argument: the row a request has read changes under it only by the   *)
(* auto-cancel of a search, so its guards are stale in this one way.       *)
(***************************************************************************)
EXTENDS MoneyProofs, TableProofs

\* No two requests in flight work on one order.
OnePerOrder ==
    \A r, q \in Requests :
        r # q /\ req[r].op # "idle" /\ req[q].op # "idle" => req[r].order # req[q].order

-----------------------------------------------------------------------------
(* Who works has a courier.                                                *)

Unassigned == {"NONE", "CREATED", "CANCELLED"}

\* What a request in flight may rely on.
Fresh(r) ==
    req[r].op # "idle" =>
        /\ order[req[r].order].status \in {req[r].seen, "CANCELLED"}
        /\ req[r].seen \notin Unassigned => order[req[r].order].courier # None
        /\ req[r].seen \in {"CREATED", "MATCHED"} =>
              \A p \in Payments : payment[p].status # "NONE" => payment[p].order # req[r].order

\* An order with a payment is past the stages in which it can be rejected.
PastRejection(p) ==
    payment[p].status # "NONE" =>
        /\ order[payment[p].order].courier # None
        /\ order[payment[p].order].status \notin {"NONE", "CREATED", "MATCHED"}

WorkInv ==
    /\ WorkHasCourier
    /\ \A r \in Requests : Fresh(r)
    /\ \A p \in Payments : PastRejection(p)

-----------------------------------------------------------------------------
(* Money moves once.                                                       *)

\* The operation that books each kind, the steps at which it has not booked it
\* yet, and the statuses an order keeps once it is booked.
Booker == [proceeds |-> "complete", commission |-> "complete", points |-> "complete",
           fare |-> "payWallet", refund |-> "cancel"]

Before == [proceeds |-> {"creditUser"}, commission |-> {"creditUser", "creditCourier"},
           points |-> {"creditUser", "creditCourier", "commit"},
           fare |-> {"debit"}, refund |-> {"commit", "refund"}]

After == [proceeds |-> {"COMPLETED", "CANCELLED"}, commission |-> {"COMPLETED", "CANCELLED"},
          points |-> {"COMPLETED", "CANCELLED"},
          fare |-> {"PICKED_UP", "DELIVERING", "COMPLETED", "CANCELLED"},
          refund |-> {"CANCELLED"}]

\* A kind that is booked was booked once, and its order stays where it cannot be
\* booked again.
BookedOnce(o, k) ==
    /\ entries[o][k] <= 1
    /\ entries[o][k] > 0 =>
          \/ order[o].status \in After[k]
          \/ \E r \in Requests : req[r].op = Booker[k] /\ req[r].order = o

\* A request that has yet to book a kind, or that has read an earlier status,
\* works on an order for which it is not booked.
Unbooked(r, k) ==
    \/ req[r].op = Booker[k] /\ req[r].pc \in Before[k]
    \/ req[r].op \notin {"idle", Booker[k]} /\ req[r].seen \notin After[k]
    => entries[req[r].order][k] = 0

\* No payment but from the wallet is PAID, and no callback is under way.
NoCallback ==
    /\ \A r \in Requests : req[r].op # "paid"
    /\ \A p \in Payments : payment[p].status = "PAID" => payment[p].method = "WALLET"

\* Only payments are at the steps of a payment.
PaySteps(r) ==
    /\ req[r].pc = "debit" => req[r].op = "payWallet"
    /\ req[r].pc = "invoice" => req[r].op = "payInvoice"

OnceInv ==
    /\ \A k \in EntryKinds : \A o \in Orders : BookedOnce(o, k)
    /\ \A k \in EntryKinds : \A r \in Requests : Unbooked(r, k)
    /\ \A r \in Requests : PaySteps(r)
    /\ NoCallback

-----------------------------------------------------------------------------
(* Calls and rows.                                                         *)

\* What a new request has read, and how it starts.
Arrives(r) ==
    /\ UNCHANGED <<order, payment, entries>>
    /\ Others(r)
    /\ req[r] = Idle
    /\ req'[r].op \in Endpoints \ {"idle"}
    /\ req'[r].seen = order[req'[r].order].status
    /\ req'[r].pc = "debit" => req'[r].op = "payWallet"
    /\ req'[r].pc = "invoice" => req'[r].op = "payInvoice"

LEMMA BeginArrives ==
    ASSUME req \in [Requests -> RequestTypes], NEW r \in Requests,
           NEW op, NEW pc, NEW o, NEW a, NEW p, Begin(r, op, pc, o, a, p), op # "idle",
           pc = "debit" => op = "payWallet", pc = "invoice" => op = "payInvoice"
    PROVE  Arrives(r)
  BY DEF Begin, Arrives, Others, rowVars, bookVars

LEMMA ArriveArrives ==
    ASSUME req \in [Requests -> RequestTypes], NEW r \in Requests, Arrive(r)
    PROVE  Arrives(r)
<1>1. ASSUME NEW op \in DOMAIN Target, NEW o, NEW c, TransitionRead(r, op, o, c)
      PROVE  Arrives(r)
  <2>1. FirstStep(op, order[o]) \notin {"debit", "invoice"} /\ op # "idle"
    BY DEF FirstStep, Target
  <2>2. Begin(r, op, FirstStep(op, order[o]), o, c, None)
    BY <1>1 DEF TransitionRead
  <2> QED
    BY <2>1, <2>2, BeginArrives
<1>2. ASSUME NEW op \in {"payWallet", "payInvoice"}, NEW o, NEW p, PayRead(r, op, o, p)
      PROVE  Arrives(r)
  <2> DEFINE pc == IF op = "payWallet" THEN "debit" ELSE "invoice"
  <2>1. Begin(r, op, pc, o, "USER", p)
    BY <1>2 DEF PayRead
  <2>2. (pc = "debit" => op = "payWallet") /\ (pc = "invoice" => op = "payInvoice")
    BY <1>2
  <2> HIDE DEF pc
  <2> QED
    BY <2>1, <2>2, BeginArrives
<1>3. ASSUME \/ \E o, c : AcceptRead(r, o, c) \/ RejectRead(r, o, c) \/ WeighRead(r, o, c)
             \/ \E o : ConfirmRead(r, o)
             \/ \E o, a : CancelRead(r, o, a)
             \/ \E p : PaidRead(r, p)
      PROVE  Arrives(r)
  <2>1. \E op, o, a, p : op # "idle" /\ Begin(r, op, "commit", o, a, p)
    BY <1>3 DEF AcceptRead, RejectRead, WeighRead, ConfirmRead, CancelRead, PaidRead
  <2> QED
    BY <2>1, BeginArrives
<1>4. ASSUME NEW o, NEW c, SubmitRead(r, o, c)
      PROVE  Arrives(r)
  BY <1>4, BeginArrives DEF SubmitRead
<1> QED
  BY <1>1, <1>2, <1>3, <1>4 DEF Arrive, CourierRead, UserRead

\* A request under way that goes on leaves rows and payments alone.
RowsRest == UNCHANGED <<order, payment>>

\* A request ends; its order's row may change.
EndsRow(r) ==
    /\ req'[r] = Idle
    /\ Others(r)
    /\ \A q \in Orders \ {req[r].order} : order'[q] = order[q]

\* The payments of an order, before and after.
PaymentOf(p, o) == payment[p].status # "NONE" /\ payment[p].order = o

-----------------------------------------------------------------------------
(* Proof that who works has a courier.                                     *)

\* The end of a request: nobody else is at work on its order.
LEMMA EndKeepsWork ==
    ASSUME OnePerOrder, Grounded, WorkInv, NEW r \in Requests, req[r].op # "idle", EndsRow(r),
           LET o == req[r].order
           IN  /\ order'[o].status \in Unassigned \/ order'[o].courier # None
               /\ \A p \in Payments : payment'[p].status # "NONE" =>
                     /\ payment'[p].order \in Orders
                     /\ PaymentOf(p, payment'[p].order) \/ payment'[p].order = o
                     /\ payment'[p].order = o =>
                           /\ order'[o].courier # None
                           /\ order'[o].status \notin {"NONE", "CREATED", "MATCHED"}
    PROVE  WorkInv'
<1> DEFINE o == req[r].order
<1>1. ASSUME NEW q \in Requests \ {r}, req[q].op # "idle"
      PROVE  req'[q] = req[q] /\ req[q].order \in Orders \ {o}
  BY <1>1, InFlight DEF OnePerOrder, EndsRow, Others
<1>2. ASSUME NEW q \in Requests
      PROVE  Fresh(q)'
  <2>1. CASE q = r \/ req[q].op = "idle"
    BY <2>1 DEF EndsRow, Others, Fresh, Idle
  <2>2. CASE q # r /\ req[q].op # "idle"
    <3>1. /\ req'[q] = req[q] /\ req[q].order \in Orders \ {o}
          /\ order'[req[q].order] = order[req[q].order] /\ Fresh(q)
      BY <1>1, <2>2 DEF EndsRow, WorkInv
    <3>2. \A p \in Payments :
            payment'[p].status # "NONE" /\ payment'[p].order = req[q].order
              => PaymentOf(p, req[q].order)
      BY <3>1
    <3> QED
      BY <2>2, <3>1, <3>2 DEF Fresh, PaymentOf
  <2> QED
    BY <2>1, <2>2
<1>3. WorkHasCourier'
  BY DEF WorkInv, WorkHasCourier, EndsRow, Unassigned
<1>4. ASSUME NEW p \in Payments
      PROVE  PastRejection(p)'
  <2>1. CASE payment'[p].status # "NONE" /\ payment'[p].order # o
    <3>1. /\ PastRejection(p) /\ payment[p].status # "NONE"
          /\ payment'[p].order = payment[p].order /\ payment[p].order \in Orders \ {o}
      BY <2>1 DEF WorkInv, PaymentOf
    <3> QED
      BY <3>1 DEF PastRejection, EndsRow
  <2>2. CASE payment'[p].status # "NONE" /\ payment'[p].order = o
    BY <2>2 DEF PastRejection
  <2> QED
    BY <2>1, <2>2 DEF PastRejection
<1> QED
  BY <1>2, <1>3, <1>4 DEF WorkInv

\* Rows and payments rest, and the request keeps what it has read.
LEMMA RestKeepsWork ==
    ASSUME WorkInv, RowsRest,
           \A q \in Requests : \/ req'[q].op = "idle"
                               \/ /\ req'[q].op = req[q].op /\ req'[q].order = req[q].order
                                  /\ req'[q].seen = req[q].seen
    PROVE  WorkInv'
<1>1. ASSUME NEW q \in Requests
      PROVE  Fresh(q)'
  BY DEF WorkInv, Fresh, RowsRest
<1>2. ASSUME NEW p \in Payments
      PROVE  PastRejection(p)'
  BY DEF WorkInv, PastRejection, RowsRest
<1>3. WorkHasCourier'
  BY DEF WorkInv, WorkHasCourier, RowsRest
<1> QED
  BY <1>1, <1>2, <1>3 DEF WorkInv

\* A new request relies on what holds of its order now.
LEMMA ArriveKeepsWork ==
    ASSUME WorkInv, NEW r \in Requests, Arrives(r), req'[r].order \in Orders
    PROVE  WorkInv'
<1>1. ASSUME NEW q \in Requests
      PROVE  Fresh(q)'
  <2>1. CASE q = r
    <3>1. /\ order' = order /\ payment' = payment
          /\ req'[r].seen = order[req'[r].order].status
      BY DEF Arrives
    <3>2. req'[r].seen \notin Unassigned => order[req'[r].order].courier # None
      BY <3>1 DEF WorkInv, WorkHasCourier, Unassigned
    <3>3. req'[r].seen \in {"CREATED", "MATCHED"} =>
            \A p \in Payments : payment[p].status # "NONE" => payment[p].order # req'[r].order
      BY <3>1 DEF WorkInv, PastRejection
    <3> QED
      BY <2>1, <3>1, <3>2, <3>3 DEF Fresh
  <2>2. CASE q # r
    BY <2>2 DEF Arrives, Others, WorkInv, Fresh
  <2> QED
    BY <2>1, <2>2
<1>2. ASSUME NEW p \in Payments
      PROVE  PastRejection(p)'
  BY DEF WorkInv, PastRejection, Arrives
<1>3. WorkHasCourier'
  BY DEF WorkInv, WorkHasCourier, Arrives
<1> QED
  BY <1>1, <1>2, <1>3 DEF WorkInv

\* What the guards of a request in flight have established of its order.
LEMMA WorkerKnows ==
    ASSUME Grounded, SeenFits, WorkInv, NEW r \in Requests, req[r].op # "idle"
    PROVE  LET o == req[r].order
           IN  /\ o \in Orders
               /\ Allowed(req[r].op, req[r].seen, req[r].actor)
               /\ order[o].status \in {req[r].seen, "CANCELLED"}
               /\ req[r].seen \notin Unassigned => order[o].courier # None
               /\ req[r].seen \in {"CREATED", "MATCHED"} =>
                     \A p \in Payments : ~PaymentOf(p, o)
               /\ \A p \in Payments : PaymentOf(p, o) =>
                     /\ order[o].courier # None
                     /\ order[o].status \notin {"NONE", "CREATED", "MATCHED"}
  BY InFlight DEF SeenFits, WorkInv, Fresh, PastRejection, PaymentOf

\* The statuses that the operations have read.
LEMMA SeenBy ==
    ASSUME NEW s, NEW a
    PROVE  /\ Allowed("reject", s, a) => s = "MATCHED"
           /\ \A op \in {"startWeighing", "submit"} :
                 Allowed(op, s, a) => s \in {"ARRIVED", "WEIGHING"}
           /\ Allowed("confirm", s, a) => s = "WEIGHING"
           /\ Allowed("cancel", s, a) => s \notin {"NONE", "COMPLETED", "CANCELLED"}
           /\ {"ARRIVED", "WEIGHING"} \intersect Unassigned = {}
  BY DEF Allowed, Entitled, Changes, Cancels, UserCancels, Statuses, Unassigned

\* Payments that rest.
LEMMA EndOfRows ==
    ASSUME OnePerOrder, Grounded, WorkInv, NEW r \in Requests, req[r].op # "idle", EndsRow(r),
           UNCHANGED payment,
           LET o == req[r].order
           IN  /\ order'[o].status \in Unassigned \/ order'[o].courier # None
               /\ \A p \in Payments : PaymentOf(p, o) =>
                     /\ order'[o].courier # None
                     /\ order'[o].status \notin {"NONE", "CREATED", "MATCHED"}
    PROVE  WorkInv'
<1>1. \A p \in Payments : payment[p].status # "NONE" => payment[p].order \in Orders
  BY DEF Grounded, PaymentsGrounded
<1> QED
  BY <1>1, EndKeepsWork DEF PaymentOf

LEMMA CourierKeepsWork ==
    ASSUME OnePerOrder, Grounded, SeenFits, WorkInv, NEW r \in Requests, CourierStep(r)
    PROVE  WorkInv'
<1> DEFINE o == req[r].order
<1>1. req \in [Requests -> RequestTypes] /\ order \in [Orders -> Rows]
  BY DEF Grounded, TypeOK
<1>2. CASE Claim(r)
  <2>1. /\ req[r].op = "accept" /\ Finish(r) /\ order[o].status \in {"CREATED", "MATCHED"}
        /\ order' = [order EXCEPT ![o].courier = req[r].actor,
                                  ![o].status = AcceptedStatus(order[o].schedule)]
        /\ UNCHANGED payment
    BY <1>2 DEF Claim, At, Claimable, bookVars
  <2>2. o \in Orders /\ \A p \in Payments : ~PaymentOf(p, o)
    BY <2>1, WorkerKnows
  <2>3. req[r].actor \in Couriers /\ req[r].actor # None
    BY <2>1, InFlight, NoneAssumption DEF RequestGrounded
  <2>4. order'[o].courier # None /\ \A q \in Orders \ {o} : order'[q] = order[q]
    BY <1>1, <2>1, <2>2, <2>3 DEF Rows
  <2>5. EndsRow(r)
    BY <1>1, <2>1, <2>4, FinishEnds DEF EndsRow
  <2> QED
    BY <2>1, <2>2, <2>4, <2>5, EndOfRows
<1>3. ASSUME NEW op \in DOMAIN Target, TransitionCommit(r, op)
      PROVE  WorkInv'
  <2>1. /\ req[r].op = op /\ op # "idle" /\ SetStatus(o, Target[op]) /\ Finish(r)
        /\ UNCHANGED payment
    BY <1>3 DEF TransitionCommit, At, Target
  <2>2. /\ Target[op] \notin {"NONE", "CREATED", "MATCHED"}
        /\ Allowed(op, req[r].seen, req[r].actor) => req[r].seen \notin Unassigned
    BY DEF Target, Allowed, ValidTransitions, Unassigned
  <2>3. o \in Orders /\ order[o].courier # None
    BY <2>1, <2>2, WorkerKnows
  <2>4. /\ order'[o].status = Target[op] /\ order'[o].courier # None
        /\ \A q \in Orders \ {o} : order'[q] = order[q]
    BY <1>1, <2>1, <2>3 DEF SetStatus, Rows
  <2>5. EndsRow(r)
    BY <1>1, <2>1, <2>4, FinishEnds DEF EndsRow
  <2> QED
    BY <2>1, <2>2, <2>4, <2>5, EndOfRows
<1>4. CASE \E s \in Searches : RejectCommit(r, s)
  <2>1. /\ req[r].op = "reject" /\ Finish(r) /\ UNCHANGED payment
        /\ order' = [order EXCEPT ![o].courier = None, ![o].status = "CREATED"]
    BY <1>4 DEF RejectCommit, At, bookVars
  <2>2. o \in Orders /\ \A p \in Payments : ~PaymentOf(p, o)
    BY <2>1, WorkerKnows, SeenBy
  <2>3. order'[o].status \in Unassigned /\ \A q \in Orders \ {o} : order'[q] = order[q]
    BY <1>1, <2>1, <2>2 DEF Rows, Unassigned
  <2>4. EndsRow(r)
    BY <1>1, <2>1, <2>3, FinishEnds DEF EndsRow
  <2> QED
    BY <2>1, <2>2, <2>3, <2>4, EndOfRows
<1>5. CASE WeighCommit(r) \/ \E net \in NetValues : SubmitCommit(r, net)
  <2>1. /\ req[r].op \in {"startWeighing", "submit"} /\ Finish(r) /\ UNCHANGED payment
        /\ \E net : order' = [order EXCEPT ![o].status = "WEIGHING", ![o].net = net]
    BY <1>5 DEF WeighCommit, SubmitCommit, At, bookVars
  <2>2. o \in Orders /\ order[o].courier # None
    BY <2>1, WorkerKnows, SeenBy
  <2>3. /\ order'[o].status = "WEIGHING" /\ order'[o].courier # None
        /\ \A q \in Orders \ {o} : order'[q] = order[q]
    BY <1>1, <2>1, <2>2 DEF Rows
  <2>4. EndsRow(r)
    BY <1>1, <2>1, <2>3, FinishEnds DEF EndsRow
  <2> QED
    BY <2>1, <2>3, <2>4, EndOfRows
<1>6. CASE \/ ClaimTooLate(r) \/ CreditUser(r) \/ CreditCourier(r) \/ ReadScale(r)
           \/ SubmitRefused(r)
  <2>1. RowsRest /\ (Finish(r) \/ \E pc : Continue(r, pc))
    BY <1>6 DEF ClaimTooLate, CreditUser, CreditCourier, ReadScale, SubmitRefused, Refuse,
                rowVars, bookVars, RowsRest
  <2>2. \A q \in Requests : \/ req'[q].op = "idle"
                            \/ /\ req'[q].op = req[q].op /\ req'[q].order = req[q].order
                               /\ req'[q].seen = req[q].seen
    BY <1>1, <2>1 DEF Finish, Continue, Idle, RequestTypes
  <2> QED
    BY <2>1, <2>2, RestKeepsWork
<1> QED
  BY <1>2, <1>3, <1>4, <1>5, <1>6 DEF CourierStep

LEMMA UserKeepsWork ==
    ASSUME OnePerOrder, Grounded, SeenFits, SlotInv, WorkInv, NEW r \in Requests, UserStep(r)
    PROVE  WorkInv'
<1> DEFINE o == req[r].order
           p == req[r].pay
<1>1. /\ req \in [Requests -> RequestTypes] /\ order \in [Orders -> Rows]
      /\ payment \in [Payments -> PaymentRows]
  BY DEF Grounded, TypeOK, PaymentRows
<1>2. ASSUME NEW s, SetStatus(o, s), Finish(r), o \in Orders
      PROVE  /\ EndsRow(r)
             /\ order'[o].status = s /\ order'[o].courier = order[o].courier
  <2>1. /\ order'[o].status = s /\ order'[o].courier = order[o].courier
        /\ \A q \in Orders \ {o} : order'[q] = order[q]
    BY <1>1, <1>2 DEF SetStatus, Rows
  <2> QED
    BY <1>1, <1>2, <2>1, FinishEnds DEF EndsRow
<1>3. CASE ConfirmCommit(r)
  <2>1. /\ req[r].op = "confirm" /\ Finish(r) /\ UNCHANGED payment
        /\ SetStatus(o, "WAITING_PAYMENT") \/ SetStatus(o, "PICKED_UP")
    BY <1>3 DEF ConfirmCommit, At, bookVars
  <2>2. o \in Orders /\ order[o].courier # None
    BY <2>1, WorkerKnows, SeenBy
  <2>3. EndsRow(r) /\ order'[o].status \in {"WAITING_PAYMENT", "PICKED_UP"} /\ order'[o].courier # None
    BY <1>2, <2>1, <2>2
  <2> QED
    BY <2>1, <2>3, EndOfRows
<1>4. CASE CancelCommit(r) \/ CancelFinish(r)
  <2>1. /\ req[r].op = "cancel" /\ Finish(r) /\ UNCHANGED payment
        /\ SetStatus(o, "CANCELLED")
    BY <1>4 DEF CancelCommit, CancelFinish, At, bookVars
  <2>2. /\ o \in Orders
        /\ \A q \in Payments : PaymentOf(q, o) => order[o].courier # None
    BY <2>1, WorkerKnows
  <2>3. EndsRow(r) /\ order'[o].status = "CANCELLED" /\ order'[o].courier = order[o].courier
    BY <1>2, <2>1, <2>2
  <2> QED
    BY <2>1, <2>2, <2>3, EndOfRows DEF Unassigned
<1>5. CASE PaidCommit(r)
  <2>1. /\ req[r].op = "paid" /\ Finish(r) /\ SetStatus(o, "PICKED_UP")
        /\ payment' = [payment EXCEPT ![p] = [payment[p] EXCEPT !.status = "PAID"]]
    BY <1>5 DEF PaidCommit, At
  <2>2. p \in Payments /\ PaymentOf(p, o)
    BY <2>1 DEF SlotInv, SlotKnown, PaymentOf
  <2>3. o \in Orders /\ order[o].courier # None
    BY <2>1, <2>2, WorkerKnows
  <2>4. EndsRow(r) /\ order'[o].status = "PICKED_UP" /\ order'[o].courier # None
    BY <1>2, <2>1, <2>3
  <2>5. \A q \in Payments : payment'[q].order = payment[q].order
                            /\ (payment'[q].status # "NONE" => payment[q].status # "NONE")
    BY <1>1, <2>1, <2>2 DEF PaymentRows, PaymentOf
  <2>6. \A q \in Payments : payment'[q].status # "NONE" =>
           payment'[q].order \in Orders /\ PaymentOf(q, payment'[q].order)
    BY <2>5 DEF Grounded, PaymentsGrounded, PaymentOf
  <2> QED
    BY <2>1, <2>4, <2>6, EndKeepsWork
<1>6. CASE PayWalletCommit(r) \/ RecordInvoice(r)
  <2>1. /\ req[r].op \in {"payWallet", "payInvoice"} /\ Finish(r)
        /\ SetStatus(o, "PICKED_UP") \/ UNCHANGED order
        /\ \E row : row.order = o /\ payment' = [payment EXCEPT ![p] = row]
    BY <1>6 DEF PayWalletCommit, RecordInvoice, At, rowVars
  <2>2. p \in Payments
    BY <2>1 DEF SlotInv, SlotKnown, Paying
  <2>3. /\ o \in Orders /\ order[o].courier # None
        /\ order[o].status \in {"WAITING_PAYMENT", "CANCELLED"}
    BY <2>1, WorkerKnows DEF Allowed, Unassigned
  <2>4. /\ EndsRow(r) /\ order'[o].courier # None
        /\ order'[o].status \in {"WAITING_PAYMENT", "CANCELLED", "PICKED_UP"}
    <3>1. CASE SetStatus(o, "PICKED_UP")
      BY <1>2, <2>1, <2>3, <3>1
    <3>2. CASE UNCHANGED order
      BY <1>1, <2>1, <2>3, <3>2, FinishEnds DEF EndsRow
    <3> QED
      BY <2>1, <3>1, <3>2
  <2>5. payment'[p].order = o /\ \A q \in Payments \ {p} : payment'[q] = payment[q]
    BY <1>1, <2>1, <2>2
  <2>6. \A q \in Payments : payment'[q].status # "NONE" =>
           /\ payment'[q].order \in Orders
           /\ PaymentOf(q, payment'[q].order) \/ payment'[q].order = o
    BY <2>3, <2>5 DEF Grounded, PaymentsGrounded, PaymentOf
  <2> QED
    BY <2>1, <2>4, <2>6, EndKeepsWork
<1>7. CASE \/ DebitFare(r) \/ PayRefused(r) \/ CreateInvoice(r) \/ IdTaken(r)
           \/ CancelLock(r) \/ CancelRefund(r)
  <2>1. RowsRest /\ (Finish(r) \/ \E pc : Continue(r, pc))
    BY <1>7 DEF DebitFare, PayRefused, CreateInvoice, IdTaken, CancelLock, CancelRefund, Refuse,
                rowVars, bookVars, RowsRest
  <2>2. \A q \in Requests : \/ req'[q].op = "idle"
                            \/ /\ req'[q].op = req[q].op /\ req'[q].order = req[q].order
                               /\ req'[q].seen = req[q].seen
    BY <1>1, <2>1 DEF Finish, Continue, Idle, RequestTypes
  <2> QED
    BY <2>1, <2>2, RestKeepsWork
<1> QED
  BY <1>3, <1>4, <1>5, <1>6, <1>7 DEF UserStep

\* The auto-cancel of a search keeps the courier.
LEMMA GiveUpKeepsWork ==
    ASSUME Grounded, WorkInv, NEW s \in Searches, GiveUp(s)
    PROVE  WorkInv'
<1> DEFINE o == search[s].order
<1>1. order \in [Orders -> Rows] /\ SetStatus(o, "CANCELLED") /\ UNCHANGED <<req, payment>>
  BY DEF Grounded, TypeOK, GiveUp, bookVars
<1>2. \A q \in Orders : /\ order'[q].courier = order[q].courier
                        /\ order'[q].status \in {order[q].status, "CANCELLED"}
  BY <1>1 DEF SetStatus, Rows
<1>3. ASSUME NEW q \in Requests
      PROVE  Fresh(q)'
  <2>1. req[q].op # "idle" => req[q].order \in Orders
    BY InFlight
  <2> QED
    BY <1>1, <1>2, <2>1 DEF WorkInv, Fresh
<1>4. ASSUME NEW p \in Payments
      PROVE  PastRejection(p)'
  <2>1. payment[p].status # "NONE" => payment[p].order \in Orders
    BY DEF Grounded, PaymentsGrounded
  <2> QED
    BY <1>1, <1>2, <2>1 DEF WorkInv, PastRejection
<1>5. WorkHasCourier'
  BY <1>2 DEF WorkInv, WorkHasCourier
<1> QED
  BY <1>3, <1>4, <1>5 DEF WorkInv

\* A new order has no request and no payment.
LEMMA CreateKeepsWork ==
    ASSUME Grounded, WorkInv, NEW o \in Orders, NEW schedule \in Schedules, NEW s \in Searches,
           Create(o, schedule, s)
    PROVE  WorkInv'
<1>1. /\ order \in [Orders -> Rows] /\ order[o].status = "NONE" /\ UNCHANGED <<req, payment>>
      /\ order' = [order EXCEPT ![o].status = "CREATED", ![o].schedule = schedule]
  BY DEF Grounded, TypeOK, Create, bookVars
<1>2. order'[o].status = "CREATED" /\ \A q \in Orders \ {o} : order'[q] = order[q]
  BY <1>1 DEF Rows
<1>3. ASSUME NEW q \in Requests
      PROVE  Fresh(q)'
  <2>1. req[q].op # "idle" => req[q].order \in Orders \ {o}
    BY <1>1, InFlight DEF Grounded, RowsLogged
  <2> QED
    BY <1>1, <1>2, <2>1 DEF WorkInv, Fresh
<1>4. ASSUME NEW p \in Payments
      PROVE  PastRejection(p)'
  <2>1. payment[p].status # "NONE" => payment[p].order \in Orders \ {o}
    BY <1>1 DEF Grounded, PaymentsGrounded, WorkInv, PastRejection
  <2> QED
    BY <1>1, <1>2, <2>1 DEF WorkInv, PastRejection
<1>5. WorkHasCourier'
  BY <1>2 DEF WorkInv, WorkHasCourier
<1> QED
  BY <1>3, <1>4, <1>5 DEF WorkInv

LEMMA XenditKeepsWork ==
    ASSUME Grounded, WorkInv, NEW p \in Payments, XenditStep(p)
    PROVE  WorkInv'
<1>1. payment \in [Payments -> PaymentRows] /\ UNCHANGED <<order, req>>
  BY DEF Grounded, TypeOK, PaymentRows, XenditStep, InvoicePaid, InvoiceExpired, StrayExpired, PaymentExpired,
         rowVars
<1>2. \A q \in Payments : /\ payment'[q].order = payment[q].order
                          /\ payment'[q].status # "NONE" => payment[q].status # "NONE"
  <2>1. CASE UNCHANGED payment
    BY <2>1
  <2>2. CASE PaymentExpired(p)
    <3>1. /\ payment' = [payment EXCEPT ![p] = [payment[p] EXCEPT !.status = "EXPIRED"]]
          /\ payment[p].status # "NONE"
      BY <2>2 DEF PaymentExpired
    <3> QED
      BY <1>1, <3>1 DEF PaymentRows
  <2> QED
    BY <2>1, <2>2 DEF XenditStep, InvoicePaid, InvoiceExpired, StrayExpired
<1>3. ASSUME NEW q \in Requests
      PROVE  Fresh(q)'
  BY <1>1, <1>2 DEF WorkInv, Fresh
<1>4. ASSUME NEW q \in Payments
      PROVE  PastRejection(q)'
  BY <1>1, <1>2 DEF WorkInv, PastRejection
<1>5. WorkHasCourier'
  BY <1>1 DEF WorkInv, WorkHasCourier
<1> QED
  BY <1>3, <1>4, <1>5 DEF WorkInv

LEMMA WorkStep ==
    /\ Grounded /\ Grounded' /\ SeenFits /\ SlotInv /\ OnePerOrder /\ WorkInv /\ [Next]_vars
    => WorkInv'
<1> SUFFICES ASSUME Grounded, Grounded', SeenFits, SlotInv, OnePerOrder, WorkInv, [Next]_vars
             PROVE  WorkInv'
  OBVIOUS
<1>1. req \in [Requests -> RequestTypes]
  BY DEF Grounded, TypeOK
<1>2. ASSUME NEW r \in Requests, Arrive(r)
      PROVE  WorkInv'
  <2>1. Arrives(r)
    BY <1>1, <1>2, ArriveArrives
  <2>2. req'[r].order \in Orders
    BY <2>1 DEF Arrives, Grounded, RequestsGrounded, RequestGrounded
  <2> QED
    BY <2>1, <2>2, ArriveKeepsWork
<1>3. ASSUME NEW r \in Requests, Drop(r)
      PROVE  WorkInv'
  <2>1. RowsRest /\ Finish(r)
    BY <1>3 DEF Drop, Refuse, rowVars, bookVars, RowsRest
  <2> QED
    BY <1>1, <2>1, FinishEnds, RestKeepsWork DEF Others, Idle
<1>4. ASSUME NEW s \in Searches, SearchStep(s) \/ LoseSearch(s)
      PROVE  WorkInv'
  <2>1. CASE Found(s) \/ NobodyNear(s) \/ NobodyAround(s) \/ LoseSearch(s)
    BY <2>1, RestKeepsWork
    DEF Found, NobodyNear, NobodyAround, LoseSearch, rowVars, bookVars, RowsRest
  <2> QED
    BY <1>4, <2>1, GiveUpKeepsWork DEF SearchStep
<1>5. CASE UNCHANGED vars
  BY <1>5, RestKeepsWork DEF vars, rowVars, bookVars, RowsRest
<1> QED
  BY <1>2, <1>3, <1>4, <1>5, CourierKeepsWork, UserKeepsWork, CreateKeepsWork, XenditKeepsWork
  DEF Next, Proceed

LEMMA InitWork == Init => WorkInv
  BY DEF Init, WorkInv, WorkHasCourier, Fresh, PastRejection, Idle, NoRow, NoPayment

\* An order that a courier is at work on has a courier (WorkHasCourier), as long
\* as its requests come one at a time: with other orders, searches, callbacks and
\* crashes beside them.
THEOREM WorkersAssigned == Spec /\ []OnePerOrder => []WorkHasCourier
<1>1. /\ Grounded /\ Grounded' /\ SeenFits /\ SlotInv /\ OnePerOrder /\ WorkInv /\ [Next]_vars
      => WorkInv'
  BY WorkStep
<1>2. WorkInv => WorkHasCourier
  BY DEF WorkInv
<1> QED
  BY <1>1, <1>2, InitWork, AlwaysGrounded, AlwaysSeen, SlotsAgree, PTL DEF Spec

-----------------------------------------------------------------------------
(* Proof that money moves once.                                            *)

\* The statuses of After are kept, and a booker starts outside of them.
LEMMA AfterStays ==
    ASSUME NEW k \in EntryKinds
    PROVE  /\ "CANCELLED" \in After[k]
           /\ {"NONE", "CREATED", "MATCHED"} \intersect After[k] = {}
           /\ \A s, a : Allowed(Booker[k], s, a) => s \notin After[k]
           /\ \A op \in DOMAIN Target : \A s, a :
                 Allowed(op, s, a) /\ s \in After[k] => Target[op] \in After[k]
           /\ \A op \in {"reject", "startWeighing", "submit", "confirm", "payWallet", "payInvoice"} :
                 \A s, a : Allowed(op, s, a) => s \notin After[k]
           /\ Booker[k] \in {"complete", "payWallet", "cancel"}
           /\ Booker[k] = "complete" => "COMPLETED" \in After[k]
           /\ Booker[k] = "payWallet" => "PICKED_UP" \in After[k]
<1>1. CASE k = "proceeds" \/ k = "commission" \/ k = "points"
  <2>1. After[k] = {"COMPLETED", "CANCELLED"} /\ Booker[k] = "complete"
    BY <1>1 DEF After, Booker
  <2> QED
    BY <2>1, SeenBy DEF Allowed, Target, ValidTransitions
<1>2. CASE k = "fare"
  <2>1. /\ After[k] = {"PICKED_UP", "DELIVERING", "COMPLETED", "CANCELLED"}
        /\ Booker[k] = "payWallet"
    BY <1>2 DEF After, Booker
  <2> QED
    BY <2>1, SeenBy DEF Allowed, Target, ValidTransitions
<1>3. CASE k = "refund"
  <2>1. After[k] = {"CANCELLED"} /\ Booker[k] = "cancel"
    BY <1>3 DEF After, Booker
  <2> QED
    BY <2>1, SeenBy DEF Allowed, Target, ValidTransitions
<1> QED
  BY <1>1, <1>2, <1>3 DEF EntryKinds

\* A kind that the request of an order does not book has been booked only if
\* the status it has read, and the one of the order now, say so.
LEMMA BookedBefore ==
    ASSUME OnePerOrder, Grounded, WorkInv, OnceInv, NEW r \in Requests, req[r].op # "idle",
           NEW k \in EntryKinds, req[r].op # Booker[k]
    PROVE  LET o == req[r].order
           IN  /\ entries[o][k] \in {0, 1}
               /\ entries[o][k] = 0 \/ (order[o].status \in After[k] /\ req[r].seen \in After[k])
<1> DEFINE o == req[r].order
<1>1. o \in Orders /\ entries[o][k] \in Nat
  BY InFlight DEF Grounded, TypeOK
<1>2. BookedOnce(o, k) /\ Unbooked(r, k)
  BY <1>1 DEF OnceInv
<1>3. \A q \in Requests : req[q].op # Booker[k] \/ req[q].order # o
  <2>1. Booker[k] # "idle"
    BY AfterStays
  <2> QED
    BY <2>1 DEF OnePerOrder
<1> QED
  BY <1>1, <1>2, <1>3 DEF BookedOnce, Unbooked

\* The end of a request.
LEMMA EndKeepsOnce ==
    ASSUME OnePerOrder, Grounded, OnceInv, NEW r \in Requests, req[r].op # "idle", EndsRow(r),
           NoCallback',
           LET o == req[r].order
           IN  /\ \A q \in Orders \ {o} : entries'[q] = entries[q]
               /\ \A k \in EntryKinds :
                     /\ entries'[o][k] <= 1
                     /\ entries'[o][k] > 0 => order'[o].status \in After[k]
    PROVE  OnceInv'
<1> DEFINE o == req[r].order
<1>1. req'[r] = Idle /\ \A q \in Requests \ {r} : req'[q] = req[q]
  BY DEF EndsRow, Others
<1>2. ASSUME NEW k \in EntryKinds, NEW q \in Orders
      PROVE  BookedOnce(q, k)'
  <2>1. CASE q = o
    BY <2>1 DEF BookedOnce
  <2>2. CASE q # o
    <3>1. BookedOnce(q, k) /\ order'[q] = order[q] /\ entries'[q] = entries[q]
      BY <2>2 DEF OnceInv, EndsRow
    <3>2. \A t \in Requests : req[t].order = q => req'[t] = req[t]
      BY <1>1, <2>2
    <3> QED
      BY <3>1, <3>2 DEF BookedOnce
  <2> QED
    BY <2>1, <2>2
<1>3. ASSUME NEW k \in EntryKinds, NEW q \in Requests
      PROVE  Unbooked(q, k)'
  <2>1. Booker[k] # "idle"
    BY AfterStays
  <2>2. CASE q = r
    BY <1>1, <2>1, <2>2 DEF Unbooked, Idle
  <2>3. CASE q # r /\ req[q].op # "idle"
    <3>1. req[q].order \in Orders \ {o}
      BY <2>3, InFlight DEF OnePerOrder
    <3> QED
      BY <1>1, <2>3, <3>1 DEF OnceInv, Unbooked
  <2> QED
    BY <1>1, <2>1, <2>2, <2>3 DEF Unbooked
<1>4. \A q \in Requests : PaySteps(q)'
  BY <1>1 DEF OnceInv, PaySteps, Idle
<1> QED
  BY <1>2, <1>3, <1>4 DEF OnceInv

\* A request goes on, and may book a kind that it had not booked.
GoesBooking(r, pc) ==
    LET o == req[r].order
    IN  /\ GoesOn(r, pc) /\ req'[r].seen = req[r].seen
        /\ UNCHANGED <<order, payment>>
        /\ pc \notin {"debit", "invoice"}
        /\ \A q \in Orders \ {o} : entries'[q] = entries[q]
        /\ \A k \in EntryKinds :
              \/ /\ entries'[o][k] = entries[o][k]
                 /\ req[r].op = Booker[k] /\ pc \in Before[k] => req[r].pc \in Before[k]
              \/ /\ entries'[o][k] = entries[o][k] + 1
                 /\ req[r].op = Booker[k] /\ req[r].pc \in Before[k] /\ pc \notin Before[k]

LEMMA GoingKeepsOnce ==
    ASSUME OnePerOrder, Grounded, OnceInv, NEW r \in Requests, req[r].op # "idle",
           NEW pc, GoesBooking(r, pc)
    PROVE  OnceInv'
<1> DEFINE o == req[r].order
<1>1. o \in Orders
  BY InFlight
<1>2. ASSUME NEW k \in EntryKinds, NEW q \in Orders
      PROVE  BookedOnce(q, k)'
  <2>1. BookedOnce(q, k) /\ order'[q] = order[q] /\ Unbooked(r, k)
    BY <1>2 DEF OnceInv, GoesBooking
  <2>2. \A t \in Requests : req'[t].op = req[t].op /\ req'[t].order = req[t].order
    BY DEF GoesBooking, GoesOn, Others
  <2>3. CASE entries'[q][k] = entries[q][k]
    BY <2>1, <2>2, <2>3 DEF BookedOnce
  <2>4. CASE entries'[q][k] # entries[q][k]
    <3>1. /\ q = o /\ entries'[q][k] = entries[q][k] + 1
          /\ req[r].op = Booker[k] /\ req[r].pc \in Before[k]
      BY <1>2, <2>4 DEF GoesBooking
    <3>2. entries[q][k] = 0
      BY <2>1, <3>1 DEF Unbooked
    <3>3. entries'[q][k] = 1
      BY <3>1, <3>2
    <3> QED
      BY <2>2, <3>1, <3>3 DEF BookedOnce
  <2> QED
    BY <2>3, <2>4
<1>3. ASSUME NEW k \in EntryKinds, NEW q \in Requests
      PROVE  Unbooked(q, k)'
  <2>1. CASE q = r
    <3>1. /\ req'[r].op = req[r].op /\ req'[r].seen = req[r].seen /\ req'[r].pc = pc
          /\ req'[r].order = o
      BY DEF GoesBooking, GoesOn
    <3>2. Unbooked(r, k)
      BY DEF OnceInv
    <3>3. \/ /\ entries'[o][k] = entries[o][k]
             /\ req[r].op = Booker[k] /\ pc \in Before[k] => req[r].pc \in Before[k]
          \/ req[r].op = Booker[k] /\ pc \notin Before[k]
      BY DEF GoesBooking
    <3> QED
      BY <2>1, <3>1, <3>2, <3>3 DEF Unbooked
  <2>2. CASE q # r
    <3>1. req'[q] = req[q] /\ Unbooked(q, k) /\ Booker[k] # "idle"
      BY <2>2, AfterStays DEF GoesBooking, GoesOn, Others, OnceInv
    <3>2. req[q].op # "idle" => req[q].order \in Orders \ {o}
      BY <2>2, InFlight DEF OnePerOrder
    <3>3. req[q].op # "idle" => entries'[req[q].order] = entries[req[q].order]
      BY <3>2 DEF GoesBooking
    <3> QED
      BY <3>1, <3>3 DEF Unbooked
  <2> QED
    BY <2>1, <2>2
<1>4. ASSUME NEW q \in Requests
      PROVE  PaySteps(q)'
  BY DEF OnceInv, GoesBooking, GoesOn, Others, PaySteps
<1>5. NoCallback'
  BY DEF OnceInv, NoCallback, GoesBooking, GoesOn, Others
<1> QED
  BY <1>2, <1>3, <1>4, <1>5 DEF OnceInv

\* The bookings of requests that go on, each at its step.
LEMMA BookingGoes ==
    ASSUME OnePerOrder, Grounded, OnceInv, NEW r \in Requests, NEW kind, NEW pc,
           Book(req[r].order, kind), Continue(r, pc), UNCHANGED <<order, payment>>,
           \/ At(r, "complete", "creditUser") /\ kind = "proceeds" /\ pc = "creditCourier"
           \/ At(r, "complete", "creditCourier") /\ kind = "commission" /\ pc = "commit"
           \/ At(r, "payWallet", "debit") /\ kind = "fare" /\ pc = "commit"
           \/ At(r, "cancel", "refund") /\ kind = "refund" /\ pc = "refunded"
    PROVE  OnceInv'
<1> DEFINE o == req[r].order
<1>1. TypeOK /\ req \in [Requests -> RequestTypes] /\ req[r].op # "idle" /\ kind \in EntryKinds
  BY DEF Grounded, TypeOK, At, EntryKinds
<1>2. o \in Orders
  BY <1>1, InFlight
<1>3. /\ GoesOn(r, pc) /\ pc \notin {"debit", "invoice"} /\ req'[r].seen = req[r].seen
  BY <1>1, ContinueGoesOn DEF Continue, RequestTypes
<1>4. /\ entries'[o][kind] = entries[o][kind] + 1
      /\ \A k \in EntryKinds \ {kind} : entries'[o][k] = entries[o][k]
      /\ \A q \in Orders \ {o} : entries'[q] = entries[q]
  BY <1>1, <1>2, Booked
<1>5. req[r].op = Booker[kind] /\ req[r].pc \in Before[kind] /\ pc \notin Before[kind]
  BY DEF At, Booker, Before
<1>6. \A k \in EntryKinds : req[r].op = Booker[k] /\ pc \in Before[k] => req[r].pc \in Before[k]
  BY DEF At, Booker, Before, EntryKinds
<1>7. GoesBooking(r, pc)
  BY <1>3, <1>4, <1>5, <1>6 DEF GoesBooking
<1> QED
  BY <1>1, <1>7, GoingKeepsOnce

LEMMA RestingGoes ==
    ASSUME OnePerOrder, Grounded, OnceInv, NEW r \in Requests, req[r].op # "idle", NEW pc,
           Continue(r, pc), UNCHANGED <<order, payment, entries>>,
           pc \notin {"debit", "invoice"},
           \A k \in EntryKinds : req[r].op = Booker[k] /\ pc \in Before[k]
                                   => req[r].pc \in Before[k]
    PROVE  OnceInv'
<1>1. req \in [Requests -> RequestTypes]
  BY DEF Grounded, TypeOK
<1>2. GoesOn(r, pc) /\ req'[r].seen = req[r].seen
  BY <1>1, ContinueGoesOn DEF Continue, RequestTypes
<1>3. GoesBooking(r, pc)
  BY <1>2 DEF GoesBooking
<1> QED
  BY <1>3, GoingKeepsOnce

\* What the handlers write, all other things resting.
LEMMA RestOfBooks ==
    ASSUME OnePerOrder, OnceInv, WorkInv, Grounded, NEW r \in Requests, req[r].op # "idle",
           EndsRow(r), UNCHANGED <<payment, entries>>,
           \A k \in EntryKinds :
               IF req[r].op = Booker[k]
               THEN /\ entries[req[r].order][k] <= 1
                    /\ order'[req[r].order].status \in After[k] \/ entries[req[r].order][k] = 0
               ELSE order[req[r].order].status \in After[k] /\ req[r].seen \in After[k]
                      => order'[req[r].order].status \in After[k]
    PROVE  OnceInv'
<1> DEFINE o == req[r].order
<1>1. NoCallback'
  BY DEF OnceInv, NoCallback, EndsRow, Others, Idle
<1>2. ASSUME NEW k \in EntryKinds
      PROVE  /\ entries'[o][k] <= 1
             /\ entries'[o][k] > 0 => order'[o].status \in After[k]
  <2>1. CASE req[r].op = Booker[k]
    BY <2>1
  <2>2. CASE req[r].op # Booker[k]
    BY <2>2, BookedBefore
  <2> QED
    BY <2>1, <2>2
<1> QED
  BY <1>1, <1>2, EndKeepsOnce

LEMMA CourierKeepsOnce ==
    ASSUME OnePerOrder, Grounded, SeenFits, WorkInv, OnceInv, NEW r \in Requests, CourierStep(r)
    PROVE  OnceInv'
<1> DEFINE o == req[r].order
<1>1. /\ req \in [Requests -> RequestTypes] /\ order \in [Orders -> Rows] /\ TypeOK
      /\ Allowed(req[r].op, req[r].seen, req[r].actor)
  BY DEF Grounded, TypeOK, SeenFits
<1>2. ASSUME req[r].op \in {"reject", "startWeighing", "submit"}, Finish(r),
             UNCHANGED <<payment, entries>>,
             \A q \in Orders \ {o} : order'[q] = order[q]
      PROVE  OnceInv'
  <2>1. \A k \in EntryKinds : req[r].op # Booker[k] /\ req[r].seen \notin After[k]
    BY <1>1, <1>2, AfterStays
  <2>2. EndsRow(r)
    BY <1>1, <1>2, FinishEnds DEF EndsRow
  <2> QED
    BY <1>2, <2>1, <2>2, RestOfBooks
<1>3. CASE Claim(r)
  <2>1. /\ req[r].op = "accept" /\ Finish(r) /\ order[o].status \in {"CREATED", "MATCHED"}
        /\ \E row : order' = [order EXCEPT ![o] = row]
        /\ UNCHANGED <<payment, entries>>
    BY <1>3 DEF Claim, At, Claimable, bookVars
  <2>2. \A k \in EntryKinds : req[r].op # Booker[k] /\ order[o].status \notin After[k]
    BY <2>1, AfterStays
  <2>3. EndsRow(r)
    BY <1>1, <2>1, FinishEnds DEF EndsRow
  <2> QED
    BY <2>1, <2>2, <2>3, RestOfBooks
<1>4. CASE ClaimTooLate(r) \/ SubmitRefused(r)
  <2>1. /\ req[r].op \in {"accept", "submit"} /\ Finish(r)
        /\ UNCHANGED <<order, payment, entries>>
    BY <1>4 DEF ClaimTooLate, SubmitRefused, Refuse, At, rowVars, bookVars
  <2>2. \A k \in EntryKinds : req[r].op # Booker[k]
    BY <2>1, AfterStays
  <2>3. EndsRow(r)
    BY <1>1, <2>1, FinishEnds DEF EndsRow
  <2> QED
    BY <2>1, <2>2, <2>3, RestOfBooks
<1>5. CASE \/ \E s \in Searches : RejectCommit(r, s)
           \/ WeighCommit(r) \/ \E net \in NetValues : SubmitCommit(r, net)
  <2>1. /\ req[r].op \in {"reject", "startWeighing", "submit"} /\ Finish(r)
        /\ UNCHANGED <<payment, entries>>
        /\ \E row : order' = [order EXCEPT ![o] = row]
    BY <1>5 DEF RejectCommit, WeighCommit, SubmitCommit, At, bookVars
  <2> QED
    BY <1>1, <1>2, <2>1
<1>6. ASSUME NEW op \in DOMAIN Target, TransitionCommit(r, op)
      PROVE  OnceInv'
  <2>1. /\ req[r].op = op /\ op # "idle" /\ req[r].pc = "commit" /\ Finish(r)
        /\ SetStatus(o, Target[op]) /\ UNCHANGED payment
        /\ UNCHANGED entries \/ (op = "complete" /\ Book(o, "points"))
    BY <1>6 DEF TransitionCommit, At, Target
  <2>2. o \in Orders
    BY <2>1, InFlight
  <2>3. order'[o].status = Target[op] /\ \A q \in Orders \ {o} : order'[q] = order[q]
    BY <1>1, <2>1, <2>2, StatusSet
  <2>4. EndsRow(r)
    BY <1>1, <2>1, <2>3, FinishEnds DEF EndsRow
  <2>5. NoCallback'
    BY <2>1, <2>4 DEF OnceInv, NoCallback, EndsRow, Others, Idle
  <2>6. \A q \in Orders \ {o} : entries'[q] = entries[q]
    BY <1>1, <2>1, <2>2, Booked DEF EntryKinds
  <2>7. ASSUME NEW k \in EntryKinds
        PROVE  /\ entries'[o][k] <= 1
               /\ entries'[o][k] > 0 => order'[o].status \in After[k]
    <3>1. CASE op # Booker[k]
      <4>1. entries'[o][k] = entries[o][k]
        <5>1. k # "points" \/ op # "complete"
          BY <3>1 DEF Booker
        <5> QED
          BY <1>1, <2>1, <2>2, <5>1, Booked DEF EntryKinds
      <4>2. /\ entries[o][k] \in {0, 1}
            /\ entries[o][k] = 0 \/ req[r].seen \in After[k]
        BY <2>1, <3>1, BookedBefore
      <4>3. req[r].seen \in After[k] => Target[op] \in After[k]
        BY <1>1, <2>1, AfterStays
      <4> QED
        BY <2>3, <4>1, <4>2, <4>3
    <3>2. CASE op = Booker[k]
      <4>1. op = "complete" /\ Target[op] \in After[k]
        BY <3>2, AfterStays DEF Target
      <4>2. CASE entries'[o][k] = entries[o][k]
        <5>1. entries[o][k] <= 1
          BY <2>2 DEF OnceInv, BookedOnce
        <5> QED
          BY <2>3, <4>1, <4>2, <5>1
      <4>3. CASE entries'[o][k] # entries[o][k]
        <5>1. Book(o, "points") /\ k = "points"
          BY <1>1, <2>1, <2>2, <4>3, Booked DEF EntryKinds
        <5>2. entries[o][k] = 0
          BY <2>1, <3>2, <5>1 DEF OnceInv, Unbooked, Before
        <5>3. entries'[o][k] = 1
          BY <1>1, <2>2, <5>1, <5>2, Booked
        <5> QED
          BY <2>3, <4>1, <5>3
      <4> QED
        BY <4>2, <4>3
    <3> QED
      BY <3>1, <3>2
  <2> QED
    BY <2>1, <2>4, <2>5, <2>6, <2>7, EndKeepsOnce
<1>7. CASE CreditUser(r)
  <2>1. /\ At(r, "complete", "creditUser") /\ Continue(r, "creditCourier")
        /\ Book(o, "proceeds") /\ UNCHANGED <<order, payment>>
    BY <1>7 DEF CreditUser, rowVars
  <2> QED
    BY <1>1, <2>1, BookingGoes
<1>8. CASE CreditCourier(r)
  <2>1. /\ At(r, "complete", "creditCourier") /\ Continue(r, "commit")
        /\ Book(o, "commission") /\ UNCHANGED <<order, payment>>
    BY <1>8 DEF CreditCourier, rowVars
  <2> QED
    BY <1>1, <2>1, BookingGoes
<1>9. CASE ReadScale(r)
  <2>1. /\ At(r, "submit", "readScale") /\ Continue(r, "commit")
        /\ UNCHANGED <<order, payment, entries>>
    BY <1>9 DEF ReadScale, rowVars, bookVars
  <2> QED
    BY <2>1, AfterStays, RestingGoes DEF At
<1> QED
  BY <1>3, <1>4, <1>5, <1>6, <1>7, <1>8, <1>9 DEF CourierStep

\* Nothing that matters changes.
LEMMA IdleRests ==
    ASSUME OnceInv, UNCHANGED <<order, payment, entries>>,
           \A q \in Requests : req'[q] = req[q] \/ (req[q].op = "idle" /\ req'[q] = Idle)
    PROVE  OnceInv'
<1>1. ASSUME NEW k \in EntryKinds, NEW o \in Orders
      PROVE  BookedOnce(o, k)'
  <2>1. Booker[k] # "idle"
    BY AfterStays
  <2> QED
    BY <2>1 DEF OnceInv, BookedOnce
<1>2. ASSUME NEW k \in EntryKinds, NEW q \in Requests
      PROVE  Unbooked(q, k)'
  <2>1. Booker[k] # "idle"
    BY AfterStays
  <2> QED
    BY <2>1 DEF OnceInv, Unbooked, Idle
<1>3. NoCallback' /\ \A q \in Requests : PaySteps(q)'
  BY DEF OnceInv, NoCallback, PaySteps, Idle
<1> QED
  BY <1>1, <1>2, <1>3 DEF OnceInv

LEMMA UserKeepsOnce ==
    ASSUME ~MayFail, OnePerOrder, Grounded, SeenFits, SlotInv, WorkInv, OnceInv,
           NEW r \in Requests, UserStep(r)
    PROVE  OnceInv'
<1> DEFINE o == req[r].order
           p == req[r].pay
<1>1. /\ req \in [Requests -> RequestTypes] /\ order \in [Orders -> Rows] /\ TypeOK
      /\ payment \in [Payments -> PaymentRows] /\ Allowed(req[r].op, req[r].seen, req[r].actor)
  BY DEF Grounded, TypeOK, SeenFits, PaymentRows
<1>2. req[r].op # "idle" =>
        o \in Orders /\ \A k \in EntryKinds : BookedOnce(o, k) /\ Unbooked(r, k)
  BY InFlight DEF OnceInv
<1>3. ASSUME NEW s, SetStatus(o, s), Finish(r), req[r].op # "idle"
      PROVE  EndsRow(r) /\ order'[o].status = s
  <2>1. order'[o].status = s /\ \A q \in Orders \ {o} : order'[q] = order[q]
    BY <1>1, <1>2, <1>3, StatusSet
  <2> QED
    BY <1>1, <1>3, <2>1, FinishEnds DEF EndsRow
<1>4. CASE ConfirmCommit(r)
  <2>1. /\ req[r].op = "confirm" /\ Finish(r) /\ UNCHANGED <<payment, entries>>
        /\ \E s : SetStatus(o, s)
    BY <1>4 DEF ConfirmCommit, At, bookVars
  <2>2. \A k \in EntryKinds : req[r].op # Booker[k] /\ req[r].seen \notin After[k]
    BY <1>1, <2>1, AfterStays
  <2>3. EndsRow(r)
    BY <1>3, <2>1
  <2> QED
    BY <2>1, <2>2, <2>3, RestOfBooks
<1>5. CASE CancelCommit(r) \/ CancelFinish(r)
  <2>1. /\ req[r].op = "cancel" /\ Finish(r) /\ UNCHANGED <<payment, entries>>
        /\ SetStatus(o, "CANCELLED")
    BY <1>5 DEF CancelCommit, CancelFinish, At, bookVars
  <2>2. EndsRow(r) /\ order'[o].status = "CANCELLED"
    BY <1>3, <2>1
  <2>3. \A k \in EntryKinds : entries[o][k] <= 1 /\ "CANCELLED" \in After[k]
    BY <1>2, <2>1, AfterStays DEF BookedOnce
  <2> QED
    BY <2>1, <2>2, <2>3, RestOfBooks
<1>6. CASE PayRefused(r)
  <2>1. /\ req[r].pc \in {"debit", "invoice"} /\ Finish(r)
        /\ UNCHANGED <<order, payment, entries>>
    BY <1>6 DEF PayRefused, Refuse, rowVars, bookVars
  <2>2. EndsRow(r)
    BY <1>1, <2>1, FinishEnds DEF EndsRow
  <2>3. CASE req[r].op = "idle"
    BY <2>1, <2>2, <2>3, IdleRests DEF EndsRow, Others, Idle
  <2>4. CASE req[r].op # "idle"
    <3>1. ASSUME NEW k \in EntryKinds, req[r].op = Booker[k]
          PROVE  entries[o][k] = 0
      <4>1. PaySteps(r)
        BY DEF OnceInv
      <4> QED
        BY <1>2, <2>1, <2>4, <3>1, <4>1 DEF PaySteps, Unbooked, Booker, Before, EntryKinds
    <3> QED
      BY <2>1, <2>2, <2>4, <3>1, RestOfBooks
  <2> QED
    BY <2>3, <2>4
<1>7. CASE PayWalletCommit(r)
  <2> DEFINE row == [status |-> "PAID", method |-> "WALLET", order |-> o]
  <2>1. /\ req[r].op = "payWallet" /\ Finish(r) /\ UNCHANGED entries
        /\ SetStatus(o, "PICKED_UP") /\ payment' = [payment EXCEPT ![p] = row]
    BY <1>7 DEF PayWalletCommit, At
  <2>2. EndsRow(r) /\ order'[o].status = "PICKED_UP"
    BY <1>3, <2>1
  <2>3. NoCallback'
    BY <1>1, <2>1, <2>2 DEF OnceInv, NoCallback, EndsRow, Others, Idle
  <2>4. ASSUME NEW k \in EntryKinds
        PROVE  /\ entries[o][k] <= 1
               /\ entries[o][k] > 0 => "PICKED_UP" \in After[k]
    <3>1. CASE req[r].op = Booker[k]
      BY <1>2, <2>1, <3>1, AfterStays DEF BookedOnce
    <3>2. CASE req[r].op # Booker[k]
      <4>1. entries[o][k] = 0
        BY <1>1, <2>1, <3>2, AfterStays, BookedBefore
      <4> QED
        BY <4>1
    <3> QED
      BY <3>1, <3>2
  <2> QED
    BY <2>1, <2>2, <2>3, <2>4, EndKeepsOnce
<1>8. CASE RecordInvoice(r)
  <2> DEFINE row == [status |-> "PENDING", method |-> "XENDIT", order |-> o]
  <2>1. /\ req[r].op = "payInvoice" /\ Finish(r) /\ UNCHANGED <<order, entries>>
        /\ payment' = [payment EXCEPT ![p] = row]
    BY <1>8 DEF RecordInvoice, At, rowVars
  <2>2. EndsRow(r)
    BY <1>1, <2>1, FinishEnds DEF EndsRow
  <2>3. NoCallback'
    BY <1>1, <2>1, <2>2 DEF OnceInv, NoCallback, EndsRow, Others, Idle
  <2>4. ASSUME NEW k \in EntryKinds
        PROVE  entries[o][k] = 0
    BY <1>1, <2>1, AfterStays, BookedBefore
  <2> QED
    BY <2>1, <2>2, <2>3, <2>4, EndKeepsOnce
<1>9. CASE DebitFare(r)
  <2>1. /\ At(r, "payWallet", "debit") /\ Continue(r, "commit")
        /\ Book(o, "fare") /\ UNCHANGED <<order, payment>>
    BY <1>9 DEF DebitFare, rowVars
  <2> QED
    BY <2>1, BookingGoes
<1>10. CASE CancelRefund(r)
  <2>1. /\ At(r, "cancel", "refund") /\ Continue(r, "refunded")
        /\ Book(o, "refund") /\ UNCHANGED <<order, payment>>
    BY <1>10 DEF CancelRefund, rowVars
  <2> QED
    BY <2>1, BookingGoes
<1>11. CASE CancelLock(r)
  <2>1. /\ At(r, "cancel", "commit") /\ Continue(r, "refund")
        /\ UNCHANGED <<order, payment, entries>>
    BY <1>11 DEF CancelLock, rowVars, bookVars
  <2>2. \A k \in EntryKinds : req[r].op = Booker[k] => req[r].pc \in Before[k]
    BY <2>1 DEF At, Booker, Before, EntryKinds
  <2> QED
    BY <2>1, <2>2, RestingGoes DEF At
<1>12. CASE CreateInvoice(r)
  <2>1. /\ At(r, "payInvoice", "invoice") /\ Continue(r, "commit")
        /\ UNCHANGED <<order, payment, entries>>
    BY <1>12 DEF CreateInvoice, rowVars
  <2> QED
    BY <2>1, AfterStays, RestingGoes DEF At
<1>13. ~PaidCommit(r) /\ ~IdTaken(r)
  BY DEF OnceInv, NoCallback, PaidCommit, At, IdTaken, SlotInv, SlotKnown, Paying
<1> QED
  BY <1>4, <1>5, <1>6, <1>7, <1>8, <1>9, <1>10, <1>11, <1>12, <1>13 DEF UserStep

\* A new request works on an order for which no kind of its own is booked.
LEMMA ArriveKeepsOnce ==
    ASSUME OnePerOrder', "paid" \notin Endpoints, Grounded', SeenFits', OnceInv,
           NEW r \in Requests, Arrives(r)
    PROVE  OnceInv'
<1> DEFINE o == req'[r].order
<1>1. o \in Orders
  BY DEF Arrives, Grounded, RequestsGrounded, RequestGrounded
<1>2. /\ UNCHANGED <<order, payment, entries>>
      /\ req[r] = Idle /\ req'[r].op # "idle"
      /\ \A q \in Requests \ {r} : req'[q] = req[q]
      /\ req'[r].seen = order[o].status
  BY DEF Arrives, Others
<1>3. ASSUME NEW k \in EntryKinds, NEW q \in Orders
      PROVE  BookedOnce(q, k)'
  <2>1. Booker[k] # "idle" /\ BookedOnce(q, k)
    BY <1>3, AfterStays DEF OnceInv
  <2>2. \A t \in Requests : req[t].op = Booker[k] => req'[t] = req[t]
    BY <1>2, <2>1 DEF Idle
  <2> QED
    BY <1>2, <2>1, <2>2 DEF BookedOnce
<1>4. ASSUME NEW k \in EntryKinds
      PROVE  Unbooked(r, k)'
  <2>1. entries[o][k] \in Nat
    BY <1>1, <1>2 DEF Grounded, TypeOK
  <2>2. \A q \in Requests : req[q].op # Booker[k] \/ req[q].order # o
    <3>1. Booker[k] # "idle"
      BY AfterStays
    <3> QED
      BY <1>2, <3>1 DEF OnePerOrder, Idle
  <2>3. order[o].status \notin After[k] => entries[o][k] = 0
    BY <1>1, <2>1, <2>2 DEF OnceInv, BookedOnce
  <2>4. Allowed(req'[r].op, req'[r].seen, req'[r].actor)
    BY DEF SeenFits
  <2>5. req'[r].op = Booker[k] => order[o].status \notin After[k]
    BY <1>2, <2>4, AfterStays
  <2> QED
    BY <1>2, <2>3, <2>5 DEF Unbooked
<1>5. ASSUME NEW k \in EntryKinds, NEW q \in Requests
      PROVE  Unbooked(q, k)'
  <2>1. CASE q = r
    BY <1>4, <2>1
  <2>2. CASE q # r
    BY <1>2, <2>2 DEF OnceInv, Unbooked
  <2> QED
    BY <2>1, <2>2
<1>6. \A q \in Requests : PaySteps(q)'
  BY <1>2 DEF OnceInv, PaySteps, Arrives
<1>7. NoCallback'
  BY <1>2 DEF OnceInv, NoCallback, Arrives
<1> QED
  BY <1>3, <1>5, <1>6, <1>7 DEF OnceInv

\* A new order has nothing booked, and an auto-cancelled one can book no more.
LEMMA RowsKeepOnce ==
    ASSUME Grounded, OnceInv, UNCHANGED <<payment, entries, req>>, NEW o \in Orders,
           \A q \in Orders \ {o} : order'[q] = order[q],
           order[o].status = "NONE" \/ order'[o].status = "CANCELLED"
    PROVE  OnceInv'
<1>1. ASSUME NEW k \in EntryKinds, NEW q \in Orders
      PROVE  BookedOnce(q, k)'
  <2>1. BookedOnce(q, k) /\ "CANCELLED" \in After[k] /\ "NONE" \notin After[k]
    BY <1>1, AfterStays DEF OnceInv
  <2> QED
    BY <2>1 DEF BookedOnce
<1>2. \A k \in EntryKinds : \A q \in Requests : Unbooked(q, k)'
  BY DEF OnceInv, Unbooked
<1>3. NoCallback' /\ \A q \in Requests : PaySteps(q)'
  BY DEF OnceInv, NoCallback, PaySteps
<1> QED
  BY <1>1, <1>2, <1>3 DEF OnceInv

\* Without callbacks Xendit changes no PAID payment: it has an OPEN or EXPIRED
\* invoice, and a payment from the wallet has none.
LEMMA XenditKeepsOnce ==
    ASSUME Grounded, SlotInv, OnceInv, NEW p \in Payments, XenditStep(p)
    PROVE  OnceInv'
<1>1. /\ payment \in [Payments -> PaymentRows] /\ UNCHANGED <<order, req, entries>>
  BY DEF Grounded, TypeOK, PaymentRows, XenditStep, InvoicePaid, InvoiceExpired, StrayExpired, PaymentExpired,
         rowVars
<1>2. \A q \in Payments : payment'[q].status = "PAID" => payment'[q] = payment[q]
  <2>1. CASE UNCHANGED payment
    BY <2>1
  <2>2. CASE PaymentExpired(p)
    <3>1. payment' = [payment EXCEPT ![p] = [payment[p] EXCEPT !.status = "EXPIRED"]]
      BY <2>2 DEF PaymentExpired
    <3> QED
      BY <1>1, <3>1 DEF PaymentRows
  <2> QED
    BY <2>1, <2>2 DEF XenditStep, InvoicePaid, InvoiceExpired, StrayExpired
<1>3. NoCallback'
  BY <1>1, <1>2 DEF OnceInv, NoCallback
<1>4. /\ \A k \in EntryKinds : \A o \in Orders : BookedOnce(o, k)'
      /\ \A k \in EntryKinds : \A q \in Requests : Unbooked(q, k)'
      /\ \A q \in Requests : PaySteps(q)'
  BY <1>1 DEF OnceInv, BookedOnce, Unbooked, PaySteps
<1> QED
  BY <1>3, <1>4 DEF OnceInv

LEMMA OnceStep ==
    ASSUME ~MayFail, "paid" \notin Endpoints
    PROVE  /\ Grounded /\ Grounded' /\ SeenFits /\ SeenFits' /\ SlotInv /\ WorkInv
           /\ OnePerOrder /\ OnePerOrder' /\ OnceInv /\ [Next]_vars
           => OnceInv'
<1> SUFFICES ASSUME Grounded, Grounded', SeenFits, SeenFits', SlotInv, WorkInv,
                    OnePerOrder, OnePerOrder', OnceInv, [Next]_vars
             PROVE  OnceInv'
  OBVIOUS
<1>1. /\ req \in [Requests -> RequestTypes] /\ order \in [Orders -> Rows]
      /\ search \in [Searches -> [stage : Stages, order : Orders \union {None}]]
  BY DEF Grounded, TypeOK
<1>2. ASSUME NEW r \in Requests, Arrive(r)
      PROVE  OnceInv'
  BY <1>1, <1>2, ArriveArrives, ArriveKeepsOnce
<1>3. ASSUME NEW o \in Orders, NEW schedule \in Schedules, NEW s \in Searches,
             Create(o, schedule, s)
      PROVE  OnceInv'
  <2>1. /\ order[o].status = "NONE" /\ UNCHANGED <<payment, entries, req>>
        /\ \E row : order' = [order EXCEPT ![o] = row]
    BY <1>3 DEF Create, bookVars
  <2>2. \A q \in Orders \ {o} : order'[q] = order[q]
    BY <1>1, <2>1
  <2> QED
    BY <2>1, <2>2, RowsKeepOnce
<1>4. ASSUME NEW s \in Searches, SearchStep(s) \/ LoseSearch(s)
      PROVE  OnceInv'
  <2>1. CASE Found(s) \/ NobodyNear(s) \/ NobodyAround(s) \/ LoseSearch(s)
    BY <2>1, IdleRests
    DEF Found, NobodyNear, NobodyAround, LoseSearch, rowVars, bookVars
  <2>2. CASE GiveUp(s)
    <3> DEFINE o == search[s].order
    <3>1. /\ SetStatus(o, "CANCELLED") /\ UNCHANGED <<payment, entries, req>>
          /\ search[s].stage # "idle"
      BY <2>2 DEF GiveUp, bookVars
    <3>2. o \in Orders
      BY <3>1 DEF Grounded, SearchesGrounded
    <3>3. order'[o].status = "CANCELLED" /\ \A q \in Orders \ {o} : order'[q] = order[q]
      BY <1>1, <3>1, <3>2, StatusSet
    <3> QED
      BY <3>1, <3>2, <3>3, RowsKeepOnce
  <2> QED
    BY <1>4, <2>1, <2>2 DEF SearchStep
<1>5. CASE UNCHANGED vars
  BY <1>5, IdleRests DEF vars, rowVars, bookVars
<1>6. \A r \in Requests : ~Drop(r)
  BY DEF Drop
<1> QED
  BY <1>2, <1>3, <1>4, <1>5, <1>6, CourierKeepsOnce, UserKeepsOnce, XenditKeepsOnce
  DEF Next, Proceed

LEMMA InitOnce == Init => OnceInv
<1> SUFFICES ASSUME Init PROVE OnceInv
  OBVIOUS
<1>1. ASSUME NEW k \in EntryKinds
      PROVE  /\ \A o \in Orders : BookedOnce(o, k)
             /\ \A r \in Requests : Unbooked(r, k)
  <2>1. Booker[k] # "idle"
    BY AfterStays
  <2> QED
    BY <2>1 DEF Init, BookedOnce, Unbooked, Idle
<1> QED
  BY <1>1 DEF Init, OnceInv, PaySteps, NoCallback, Idle, NoPayment

\* A refund follows a fare, when only the wallet pays.
LEMMA RefundFollowsFare ==
    ASSUME Grounded, NoStrays, RefundIsBacked, OnceInv, FaresKept, NEW o \in Orders
    PROVE  entries[o]["refund"] <= entries[o]["fare"]
<1>1. /\ entries[o]["refund"] \in Nat /\ entries[o]["fare"] \in Nat
      /\ entries[o]["refund"] <= 1
  BY DEF Grounded, TypeOK, EntryKinds, OnceInv, BookedOnce
<1>2. ASSUME entries[o]["refund"] > 0
      PROVE  entries[o]["fare"] >= 1
  <2>1. PICK p \in Payments : payment[p].order = o /\ payment[p].status = "PAID"
    BY <1>2 DEF RefundIsBacked, Backing, NoStrays
  <2>2. p \in WalletPaid(o)
    BY <2>1 DEF OnceInv, NoCallback, WalletPaid
  <2>3. /\ IsFiniteSet(WalletPaid(o)) /\ IsFiniteSet(Debited(o))
        /\ Cardinality(WalletPaid(o)) + Cardinality(Debited(o)) <= entries[o]["fare"]
    BY DEF FaresKept, FareKept
  <2>4. Cardinality(WalletPaid(o)) \in Nat \ {0} /\ Cardinality(Debited(o)) \in Nat
    BY <2>2, <2>3, FS_EmptySet, FS_CardinalityType
  <2> QED
    BY <1>1, <2>3, <2>4
<1> QED
  BY <1>1, <1>2

\* Each kind of money moves at most once for an order and a refund follows a
\* fare (SettledOnce), as long as the order's requests come one at a time, none
\* dies half way and there are no callbacks.  Other orders and the searches, which
\* cancel orders unasked, run beside them.
THEOREM OnceSettled ==
    ASSUME ~MayFail, "paid" \notin Endpoints
    PROVE  Spec /\ []OnePerOrder => []SettledOnce
<1>1. /\ Grounded /\ Grounded' /\ SeenFits /\ SeenFits' /\ SlotInv /\ WorkInv
      /\ OnePerOrder /\ OnePerOrder' /\ OnceInv /\ [Next]_vars
      => OnceInv'
  BY OnceStep
<1>2. /\ Grounded /\ Grounded' /\ SeenFits /\ SlotInv /\ OnePerOrder /\ WorkInv /\ [Next]_vars
      => WorkInv'
  BY WorkStep
<1>3. Grounded /\ NoStrays /\ RefundIsBacked /\ OnceInv /\ FaresKept => SettledOnce
  BY RefundFollowsFare DEF OnceInv, BookedOnce, SettledOnce
<1> QED
  BY <1>1, <1>2, <1>3, InitWork, InitOnce, AlwaysGrounded, AlwaysSeen, SlotsAgree,
     AlwaysNoStrays, RefundsBacked, AlwaysFares, PTL DEF Spec

-----------------------------------------------------------------------------
(* What a handler has checked, one request of an order at a time.          *)

\* An order's status changes as its caller may change it now, except by a
\* callback, which looks at no status, and where the auto-cancel of a search is
\* on one side.
Rightly(o) ==
    \/ order'[o].status = order[o].status
    \/ order[o].status = "NONE" /\ order'[o].status = "CREATED"
    \/ \E r \in Requests :
          /\ req[r].order = o /\ req'[r] = Idle
          /\ Entitled(req[r].actor, order[o].status, order'[o].status)
    \/ order[o].status = "CANCELLED"
    \/ \E r \in Requests : req[r].op = "paid" /\ req[r].order = o /\ req'[r] = Idle
    \/ order'[o].status = "CANCELLED" /\ \E s \in Searches : search[s].stage = "giveUp"

OnlySearchesSurprise == [][\A o \in Orders : Rightly(o)]_vars

\* One request at a time, what a handler has read of the order is stale only
\* where a search has cancelled it meanwhile.
THEOREM SearchesSurprise == Spec /\ []OnePerOrder => OnlySearchesSurprise
<1>1. Grounded /\ RowsPlain /\ SeenFits /\ WorkInv /\ [Next]_vars => [\A o \in Orders : Rightly(o)]_vars
  <2> SUFFICES ASSUME Grounded, RowsPlain, SeenFits, WorkInv, [Next]_vars, NEW o \in Orders
               PROVE  Rightly(o)
    OBVIOUS
  <2>1. Change(o)
    BY KeptStep DEF Kept
  <2>2. ASSUME NEW r \in Requests, req[r].op # "idle", MadeBy(r, o)
        PROVE  Rightly(o)
    <3>1. req[r].order = o /\ order[o].status \in {req[r].seen, "CANCELLED"}
      BY <2>2 DEF WorkInv, Fresh, MadeBy
    <3> QED
      BY <2>2, <3>1 DEF Rightly, MadeBy
  <2>3. ASSUME NEW s \in Searches, search[s] = [stage |-> "giveUp", order |-> o]
        PROVE  search[s].stage = "giveUp"
    BY <2>3
  <2> QED
    BY <2>1, <2>2, <2>3 DEF Change, Rightly, At
<1>2. /\ Grounded /\ Grounded' /\ SeenFits /\ SlotInv /\ OnePerOrder /\ WorkInv /\ [Next]_vars
      => WorkInv'
  BY WorkStep
<1> QED
  BY <1>1, <1>2, InitWork, AlwaysGrounded, AlwaysSeen, SlotsAgree, PTL
  DEF Spec, OnlySearchesSurprise

\* A callback under way has its payment to itself.
CallbackInv ==
    \A r \in Requests : req[r].op = "paid" => payment[req[r].pay].status # "PAID"

\* A payment becomes PAID by the end of a request that works on it.
LEMMA BecomesPaid ==
    ASSUME TypeOK, [Next]_vars, NEW p \in Payments,
           payment[p].status # "PAID", payment'[p].status = "PAID"
    PROVE  \E q \in Requests :
              /\ req[q].op \in {"payWallet", "paid"} /\ req[q].pay = p
              /\ req'[q] = Idle
<1>1. req \in [Requests -> RequestTypes] /\ payment \in [Payments -> PaymentRows]
  BY DEF TypeOK, PaymentRows
<1>2. CASE SameBooks
  BY <1>2 DEF SameBooks
<1>3. ASSUME NEW q \in Payments, XenditStep(q)
      PROVE  FALSE
  <2>1. payment' = payment \/ payment' = [payment EXCEPT ![q] = [payment[q] EXCEPT !.status = "EXPIRED"]]
    BY <1>3 DEF XenditStep, InvoicePaid, InvoiceExpired, StrayExpired, PaymentExpired
  <2>2. [payment[q] EXCEPT !.status = "EXPIRED"].status = "EXPIRED"
    BY <1>1 DEF PaymentRows
  <2> QED
    BY <1>1, <2>1, <2>2
<1>4. ASSUME NEW q \in Requests, Works(q)
      PROVE  /\ req[q].op \in {"payWallet", "paid"} /\ req[q].pay = p
             /\ req'[q] = Idle
  <2>1. CASE PayWalletCommit(q) \/ PaidCommit(q)
    BY <1>1, <2>1, FinishEnds DEF PayWalletCommit, PaidCommit, At
  <2>2. CASE RecordInvoice(q)
    BY <1>1, <2>2 DEF RecordInvoice
  <2>3. CASE ~(PayWalletCommit(q) \/ RecordInvoice(q) \/ PaidCommit(q))
    BY <1>4, <2>3
    DEF Works, ReadScale, CancelLock, CreditUser, CreditCourier, Settles, DebitFare,
        CreateInvoice, CancelRefund, bookVars
  <2> QED
    BY <2>1, <2>2, <2>3
<1> QED
  BY <1>1, <1>2, <1>3, <1>4, StepKinds DEF Calls, Leaves

\* A callback that goes on was there before, or has just read its payment.
LEMMA CallbackStep ==
    ASSUME Grounded, SlotInv, OnePerOrder, CallbackInv, [Next]_vars
    PROVE  CallbackInv'
<1> SUFFICES ASSUME NEW r \in Requests, req'[r].op = "paid", payment'[req'[r].pay].status = "PAID"
             PROVE  FALSE
  BY DEF CallbackInv
<1>1. TypeOK /\ req \in [Requests -> RequestTypes]
  BY DEF Grounded, TypeOK
<1>2. CASE req[r].op = "paid" /\ req'[r].pay = req[r].pay
  <2>1. /\ req[r].pay \in Payments /\ payment[req[r].pay].status \notin {"NONE", "PAID"}
        /\ payment[req[r].pay].order = req[r].order
    BY <1>2 DEF SlotInv, SlotKnown, CallbackInv
  <2>2. PICK q \in Requests : /\ req[q].op \in {"payWallet", "paid"} /\ req[q].pay = req[r].pay
                              /\ req'[q] = Idle
    BY <1>1, <1>2, <2>1, BecomesPaid
  <2>3. req[q].op = "paid"
    BY <1>2, <2>1, <2>2 DEF SlotInv, SlotKnown, NoInvoice
  <2>4. req[q].order = req[r].order
    BY <2>1, <2>2, <2>3 DEF SlotInv, SlotKnown
  <2>5. q # r
    BY <2>2 DEF Idle
  <2> QED
    BY <1>2, <2>3, <2>4, <2>5 DEF OnePerOrder
<1>3. CASE ~(req[r].op = "paid" /\ req'[r].pay = req[r].pay)
  <2>1. ASSUME NEW q \in Requests, Calls(q) PROVE FALSE
    BY <1>3, <2>1 DEF Calls, Others, SameBooks
  <2>2. ASSUME NEW q \in Requests, Leaves(q) PROVE FALSE
    BY <1>3, <2>2 DEF Leaves, Others, Idle
  <2>3. ASSUME NEW q \in Requests, Works(q) PROVE FALSE
    <3>1. Finish(q) \/ \E pc : Continue(q, pc)
      BY <2>3 DEF Works, ReadScale, CancelLock, CreditUser, CreditCourier, Settles, DebitFare,
                  PayWalletCommit, CreateInvoice, RecordInvoice, PaidCommit, CancelRefund
    <3> QED
      BY <1>1, <1>3, <3>1, FinishEnds, ContinueGoesOn DEF Others, GoesOn, Idle
  <2>4. ASSUME NEW p \in Payments, XenditStep(p) PROVE FALSE
    BY <1>3, <2>4 DEF XenditStep, InvoicePaid, InvoiceExpired, StrayExpired, PaymentExpired
  <2> QED
    BY <1>1, <1>3, <2>1, <2>2, <2>3, <2>4, StepKinds
<1> QED
  BY <1>2, <1>3

\* One request at a time, a callback for a payment that is PAID changes nothing,
\* as the documents have it (CallbackIsIdempotent): its check is not stale.
THEOREM CallbacksIdempotent == Spec /\ []OnePerOrder => CallbackIsIdempotent
<1>1. Init => CallbackInv
  BY DEF Init, CallbackInv, Idle
<1>2. Grounded /\ SlotInv /\ OnePerOrder /\ CallbackInv /\ [Next]_vars => CallbackInv'
  BY CallbackStep
<1>3. CallbackInv =>
        [\A r \in Requests :
           At(r, "paid", "commit") /\ req'[r] = Idle /\ payment[req[r].pay].status = "PAID"
             => order' = order]_vars
  BY DEF CallbackInv, At
<1> QED
  BY <1>1, <1>2, <1>3, AlwaysGrounded, SlotsAgree, PTL DEF Spec, CallbackIsIdempotent
=============================================================================
