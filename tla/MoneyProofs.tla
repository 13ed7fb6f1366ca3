----------------------------- MODULE MoneyProofs -----------------------------
(***************************************************************************)
(* Proofs about the money of Orders: payments are funded, refunds are      *)
(* backed, and, when no request dies half way, fares and settlements are   *)
(* whole.                                                                  *)
(*                                                                         *)
(* The argument: a handler that has moved money and has not recorded why   *)
(* is a request in flight, at a known step.  So a sum that is only right   *)
(* between handlers is right at all times once these requests are counted. *)
(***************************************************************************)
EXTENDS OrdersProofs, FiniteSetTheorems

-----------------------------------------------------------------------------
(* Payment slots.                                                          *)

Paying == {"payWallet", "payInvoice"}

\* Two requests that are about to record a payment record two payments, unless
\* two calls of one kind drew one external id.
SlotsApart ==
    \A r, q \in Requests :
        r # q /\ req[r].op \in Paying /\ req[q].op \in Paying /\ req[r].pay = req[q].pay
          => MayFail /\ req[r].op = req[q].op

\* What a request knows of the payment it works on.
SlotKnown(r) ==
    /\ req[r].op \in Paying =>
          /\ req[r].pay \in Payments
          /\ MayFail \/ payment[req[r].pay] = NoPayment
    /\ req[r].op = "payWallet" =>
          invoice[req[r].pay] = NoInvoice /\ payment[req[r].pay].method # "XENDIT"
    /\ req[r].op = "payInvoice" => payment[req[r].pay].method # "WALLET"
    /\ req[r].op = "paid" =>
          /\ req[r].pay \in Payments /\ payment[req[r].pay].status # "NONE"
          /\ invoice[req[r].pay].own = "PAID" /\ payment[req[r].pay].order = req[r].order

\* What a payment's row says of its invoice.
RowFunded(p) ==
    /\ payment[p].method = "NONE" => payment[p].status = "NONE" /\ invoice[p].own = "NONE"
    /\ payment[p].method = "WALLET" => payment[p].status = "PAID" /\ invoice[p] = NoInvoice
    /\ payment[p].method = "XENDIT" /\ payment[p].status = "PAID" => invoice[p].own = "PAID"

SlotInv ==
    /\ SlotsApart
    /\ \A r \in Requests : SlotKnown(r)
    /\ \A p \in Payments : RowFunded(p)

-----------------------------------------------------------------------------
(* Refunds.                                                                *)

Backed(o) == \E p \in Payments : payment[p].order = o /\ Backing(p)

\* A cancel that has found a payment, and holds the row's lock, found money that
\* came in.
RefundInv ==
    /\ RefundIsBacked
    /\ \A r \in Requests : req[r].pc \in {"refund", "refunded"} => Backed(req[r].order)

-----------------------------------------------------------------------------
(* Fares.                                                                  *)

\* The requests that have debited the fare and not recorded the payment.
Debited(o) == {r \in Requests : At(r, "payWallet", "commit") /\ req[r].order = o}

\* Each fare has a payment, or a request that is about to record it; unless it
\* died on the way.
FareKept(o) ==
    LET known == Cardinality(WalletPaid(o)) + Cardinality(Debited(o))
    IN  /\ IsFiniteSet(WalletPaid(o)) /\ IsFiniteSet(Debited(o))
        /\ known <= entries[o]["fare"]
        /\ ~MayFail => known = entries[o]["fare"]

-----------------------------------------------------------------------------
(* Settlements.                                                            *)

\* The completions of an order that have yet to pay the commission, and those
\* that have paid it and have yet to book the points.
Crediting(o) == {r \in Requests : At(r, "complete", "creditCourier") /\ req[r].order = o}
Credited(o) == {r \in Requests : At(r, "complete", "commit") /\ req[r].order = o
                                   /\ req[r].net # None}

SettlementKept(o) ==
    /\ IsFiniteSet(Crediting(o)) /\ IsFiniteSet(Credited(o))
    /\ entries[o]["commission"] = entries[o]["points"] + Cardinality(Credited(o))
    /\ entries[o]["proceeds"] <= entries[o]["points"] + Cardinality(Credited(o))
                                   + Cardinality(Crediting(o))
    /\ entries[o]["points"] > 0 => "COMPLETED" \in history[o]

\* A completion is at a credit only of a net total that is known.
CreditsKnown ==
    \A r \in Requests :
        req[r].op = "complete" /\ req[r].pc \in {"creditUser", "creditCourier"}
          => req[r].net # None

-----------------------------------------------------------------------------
(* The steps, by what they do to the books.                                *)

SameBooks == UNCHANGED <<payment, invoice, entries>>

Others(r) == \A q \in Requests \ {r} : req'[q] = req[q]

\* A call arrives.
Calls(r) ==
    /\ SameBooks
    /\ Others(r)
    /\ req[r] = Idle
    /\ req'[r].pc \notin {"refund", "refunded"}
    /\ req'[r].op \in Paying => req'[r].pay \in Payments /\ Drawable(req'[r].pay, req'[r].op)
    /\ req'[r].op = "payWallet" => req'[r].pc = "debit"
    /\ req'[r].op = "paid" =>
          /\ req'[r].pay \in Payments /\ payment[req'[r].pay].status \notin {"NONE", "PAID"}
          /\ invoice[req'[r].pay].own = "PAID" /\ payment[req'[r].pay].order = req'[r].order
    /\ req'[r].op = "complete" =>
          (req'[r].net # None <=> req'[r].pc \in {"creditUser", "creditCourier"})

\* A request that has moved money, or has an invoice, and has not recorded why.
Owing(r) ==
    \/ At(r, "payWallet", "commit")
    \/ At(r, "payInvoice", "commit")
    \/ At(r, "complete", "creditCourier")
    \/ At(r, "complete", "commit") /\ req[r].net # None

\* A request ends and leaves the books alone: one that owes has died, or found
\* its external id taken.
Leaves(r) ==
    /\ SameBooks
    /\ Others(r)
    /\ req'[r] = Idle
    /\ Owing(r) => MayFail \/ IdTaken(r)

\* A request goes on.
GoesOn(r, pc) ==
    /\ Others(r)
    /\ req'[r].pc = pc
    /\ req'[r].op = req[r].op
    /\ req'[r].order = req[r].order
    /\ req'[r].pay = req[r].pay
    /\ req'[r].net = req[r].net

\* A completion books the points and ends.
Settles(r) ==
    /\ At(r, "complete", "commit")
    /\ req[r].net # None
    /\ SetStatus(req[r].order, "COMPLETED")
    /\ Book(req[r].order, "points")
    /\ Finish(r)
    /\ UNCHANGED <<payment, invoice>>

\* A request works on the books.
Works(r) ==
    \/ ReadScale(r) \/ CancelLock(r)
    \/ CreditUser(r) \/ CreditCourier(r) \/ Settles(r)
    \/ DebitFare(r) \/ PayWalletCommit(r)
    \/ CreateInvoice(r) \/ RecordInvoice(r) \/ PaidCommit(r)
    \/ CancelRefund(r)

LEMMA ContinueGoesOn ==
    ASSUME req \in [Requests -> RequestTypes], NEW r \in Requests, NEW pc, Continue(r, pc)
    PROVE  GoesOn(r, pc)
  BY DEF Continue, GoesOn, Others, RequestTypes

LEMMA FinishEnds ==
    ASSUME req \in [Requests -> RequestTypes], NEW r \in Requests, Finish(r)
    PROVE  Others(r) /\ req'[r] = Idle
  BY DEF Finish, Others

LEMMA BeginCalls ==
    ASSUME req \in [Requests -> RequestTypes], NEW r \in Requests,
           NEW op, NEW pc, NEW o, NEW a, NEW p, Begin(r, op, pc, o, a, p),
           pc \notin {"refund", "refunded"},
           op \in Paying => p \in Payments /\ Drawable(p, op),
           op = "payWallet" => pc = "debit",
           op = "paid" => /\ p \in Payments /\ payment[p].status \notin {"NONE", "PAID"}
                          /\ invoice[p].own = "PAID" /\ payment[p].order = o,
           op = "complete" => (order[o].net # None <=> pc \in {"creditUser", "creditCourier"})
    PROVE  Calls(r)
<1>1. /\ req[r] = Idle /\ SameBooks /\ Others(r)
      /\ req'[r].op = op /\ req'[r].pc = pc /\ req'[r].order = o
      /\ req'[r].pay = p /\ req'[r].net = order[o].net
  BY DEF Begin, SameBooks, Others, bookVars
<1> QED
  BY <1>1 DEF Calls

LEMMA ArriveCalls ==
    ASSUME req \in [Requests -> RequestTypes], NEW r \in Requests, Arrive(r)
    PROVE  Calls(r)
<1>1. ASSUME NEW o \in Orders, NEW c \in Couriers, CourierRead(r, o, c)
      PROVE  Calls(r)
  <2>1. ASSUME NEW op \in DOMAIN Target, TransitionRead(r, op, o, c)
        PROVE  Calls(r)
    <3>1. op \in {"depart", "arrive", "pickup", "deliver", "complete"}
      BY DEF Target
    <3> DEFINE pc == FirstStep(op, order[o])
    <3>2. /\ pc \notin {"refund", "refunded"}
          /\ op = "complete" => (order[o].net # None <=> pc \in {"creditUser", "creditCourier"})
      BY DEF FirstStep
    <3>3. Begin(r, op, pc, o, c, None)
      BY <2>1 DEF TransitionRead
    <3> HIDE DEF pc
    <3> QED
      BY <3>1, <3>2, <3>3, BeginCalls DEF Paying
  <2>2. CASE \/ AcceptRead(r, o, c) \/ RejectRead(r, o, c)
             \/ WeighRead(r, o, c) \/ SubmitRead(r, o, c)
    <3>1. \/ Begin(r, "accept", "commit", o, c, None)
          \/ Begin(r, "reject", "commit", o, c, None)
          \/ Begin(r, "startWeighing", "commit", o, c, None)
          \/ Begin(r, "submit", "readScale", o, c, None)
      BY <2>2 DEF AcceptRead, RejectRead, WeighRead, SubmitRead
    <3> QED
      BY <3>1, BeginCalls DEF Paying
  <2> QED
    BY <1>1, <2>1, <2>2 DEF CourierRead
<1>2. ASSUME NEW o \in Orders, UserRead(r, o)
      PROVE  Calls(r)
  <2>1. ASSUME NEW op \in {"payWallet", "payInvoice"}, NEW p \in Payments,
               PayRead(r, op, o, p)
        PROVE  Calls(r)
    <3> DEFINE pc == IF op = "payWallet" THEN "debit" ELSE "invoice"
    <3>1. Begin(r, op, pc, o, "USER", p) /\ Drawable(p, op)
      BY <2>1 DEF PayRead
    <3>2. pc \notin {"refund", "refunded"} /\ (op = "payWallet" => pc = "debit")
      OBVIOUS
    <3> HIDE DEF pc
    <3> QED
      BY <3>1, <3>2, BeginCalls DEF Paying
  <2>2. CASE ConfirmRead(r, o) \/ \E a \in Couriers \union {"USER", "ADMIN"} : CancelRead(r, o, a)
    <3>1. \/ Begin(r, "confirm", "commit", o, "USER", None)
          \/ \E a : Begin(r, "cancel", "commit", o, a, None)
      BY <2>2 DEF ConfirmRead, CancelRead
    <3> QED
      BY <3>1, BeginCalls DEF Paying
  <2> QED
    BY <1>2, <2>1, <2>2 DEF UserRead
<1>3. ASSUME NEW p \in Payments, PaidRead(r, p)
      PROVE  Calls(r)
  <2>1. /\ Begin(r, "paid", "commit", payment[p].order, "XENDIT", p)
        /\ invoice[p].own = "PAID" /\ payment[p].status \notin {"NONE", "PAID"}
    BY <1>3 DEF PaidRead
  <2> QED
    BY <2>1, BeginCalls DEF Paying
<1> QED
  BY <1>1, <1>2, <1>3 DEF Arrive

LEMMA ProceedWorks ==
    ASSUME req \in [Requests -> RequestTypes], NEW r \in Requests, Proceed(r)
    PROVE  Works(r) \/ Leaves(r)
<1>1. ASSUME NEW op \in DOMAIN Target, TransitionCommit(r, op)
      PROVE  Works(r) \/ Leaves(r)
  <2>1. CASE op = "complete" /\ req[r].net # None
    BY <1>1, <2>1 DEF TransitionCommit, Works, Settles, Target
  <2>2. CASE ~(op = "complete" /\ req[r].net # None)
    <3>1. SameBooks /\ ~Owing(r) /\ Finish(r)
      BY <1>1, <2>2 DEF TransitionCommit, At, SameBooks, Owing, Target
    <3> QED
      BY <3>1, FinishEnds DEF Leaves
  <2> QED
    BY <2>1, <2>2
<1>2. ASSUME \/ Claim(r) \/ ClaimTooLate(r) \/ WeighCommit(r) \/ SubmitRefused(r)
             \/ \E s \in Searches : RejectCommit(r, s)
             \/ \E net \in NetValues : SubmitCommit(r, net)
             \/ ConfirmCommit(r) \/ PayRefused(r) \/ CancelCommit(r) \/ CancelFinish(r)
      PROVE  Leaves(r)
  <2>1. SameBooks /\ Finish(r)
    BY <1>2
    DEF Claim, ClaimTooLate, WeighCommit, SubmitRefused, RejectCommit, SubmitCommit,
        ConfirmCommit, PayRefused, CancelCommit, CancelFinish, Refuse, SameBooks, bookVars
  <2>2. ~Owing(r)
    BY <1>2
    DEF Claim, ClaimTooLate, WeighCommit, SubmitRefused, RejectCommit, SubmitCommit,
        ConfirmCommit, PayRefused, CancelCommit, CancelFinish, At, Owing
  <2> QED
    BY <2>1, <2>2, FinishEnds DEF Leaves
<1>3. CASE IdTaken(r)
  <2>1. SameBooks /\ Finish(r)
    BY <1>3 DEF IdTaken, Refuse, SameBooks, bookVars
  <2> QED
    BY <1>3, <2>1, FinishEnds DEF Leaves
<1>4. CASE CourierStep(r)
  BY <1>1, <1>2, <1>4 DEF CourierStep, Works
<1>5. CASE UserStep(r)
  BY <1>2, <1>3, <1>5 DEF UserStep, Works
<1> QED
  BY <1>4, <1>5 DEF Proceed

\* Every step calls, works, leaves, is Xendit's, or leaves books and requests
\* alone.
LEMMA StepKinds ==
    ASSUME req \in [Requests -> RequestTypes], [Next]_vars
    PROVE  \/ SameBooks /\ UNCHANGED req
           \/ \E r \in Requests : Calls(r) \/ Works(r) \/ Leaves(r)
           \/ \E p \in Payments : XenditStep(p)
<1>1. ASSUME NEW r \in Requests, Drop(r)
      PROVE  Leaves(r)
  <2>1. SameBooks /\ Finish(r) /\ MayFail
    BY <1>1 DEF Drop, Refuse, SameBooks, bookVars
  <2> QED
    BY <2>1, FinishEnds DEF Leaves
<1>2. ASSUME \/ \E o \in Orders, schedule \in Schedules, s \in Searches : Create(o, schedule, s)
             \/ \E s \in Searches : SearchStep(s) \/ LoseSearch(s)
             \/ UNCHANGED vars
      PROVE  SameBooks /\ UNCHANGED req
  BY <1>2 DEF Create, SearchStep, LoseSearch, Found, NobodyNear, NobodyAround, GiveUp,
              SameBooks, vars, bookVars
<1> QED
  BY <1>1, <1>2, ArriveCalls, ProceedWorks DEF Next

-----------------------------------------------------------------------------
(* Payment slots.                                                          *)

PaymentRows ==
    [status : {"NONE", "PENDING", "PAID", "EXPIRED"}, method : {"NONE", "WALLET", "XENDIT"},
     order : Orders \union {None}]

\* Invoices and payments stay: what is known of them stays.
LEMMA SlotsKept ==
    ASSUME SlotInv, UNCHANGED <<payment, invoice>>,
           \A q \in Requests :
               \/ req'[q].op = "idle"
               \/ req'[q].op = req[q].op /\ req'[q].pay = req[q].pay /\ req'[q].order = req[q].order
    PROVE  SlotInv'
<1>1. SlotsApart'
  BY DEF SlotInv, SlotsApart, Paying
<1>2. ASSUME NEW q \in Requests
      PROVE  SlotKnown(q)'
  BY DEF SlotInv, SlotKnown, Paying
<1>3. ASSUME NEW p \in Payments
      PROVE  RowFunded(p)'
  BY DEF SlotInv, RowFunded
<1> QED
  BY <1>1, <1>2, <1>3 DEF SlotInv

\* A new call pays with a slot that nobody uses, or one of its kind that drew the
\* same external id.
LEMMA CallsKeepSlots ==
    ASSUME SlotInv, NEW r \in Requests, Calls(r)
    PROVE  SlotInv'
<1>1. UNCHANGED <<payment, invoice>> /\ Others(r) /\ req[r] = Idle
  BY DEF Calls, SameBooks
<1>2. SlotsApart'
  <2>1. ASSUME NEW q \in Requests \ {r}, req'[q].op \in Paying, req'[r].op \in Paying,
               req'[q].pay = req'[r].pay
        PROVE  MayFail /\ req'[q].op = req'[r].op
    BY <1>1, <2>1 DEF Calls, Drawable, Others
  <2>2. ASSUME NEW q \in Requests \ {r}, NEW t \in Requests \ {r}, q # t,
               req'[q].op \in Paying, req'[t].op \in Paying, req'[q].pay = req'[t].pay
        PROVE  MayFail /\ req'[q].op = req'[t].op
    BY <1>1, <2>2 DEF Others, SlotInv, SlotsApart
  <2> QED
    BY <2>1, <2>2 DEF SlotsApart
<1>3. SlotKnown(r)'
  BY <1>1 DEF Calls, Drawable, SlotKnown, Paying, NoPayment
<1>4. ASSUME NEW q \in Requests \ {r}
      PROVE  SlotKnown(q)'
  BY <1>1 DEF Others, SlotInv, SlotKnown, Paying
<1>5. ASSUME NEW p \in Payments
      PROVE  RowFunded(p)'
  BY <1>1 DEF SlotInv, RowFunded
<1> QED
  BY <1>2, <1>3, <1>4, <1>5 DEF SlotInv

\* The calls go on, or end: the slots stay apart.
LEMMA ApartKept ==
    ASSUME SlotsApart,
           \A q \in Requests :
               \/ req'[q].op = "idle"
               \/ req'[q].op = req[q].op /\ req'[q].pay = req[q].pay
    PROVE  SlotsApart'
  BY DEF SlotsApart, Paying

\* The step of a request that pays, at its own slot: what its row and its invoice
\* become, for the rows and the calls that know of the slot.
LEMMA SlotWritten ==
    ASSUME SlotInv, NEW r \in Requests, NEW p \in Payments, p = req[r].pay,
           req[r].op \in Paying \union {"paid"},
           \A q \in Requests : \/ req'[q].op = "idle"
                               \/ /\ req'[q].op = req[q].op /\ req'[q].pay = req[q].pay
                                  /\ req'[q].order = req[q].order,
           req'[r].op \in {"idle", "payInvoice"},
           \A q \in Payments \ {p} : payment'[q] = payment[q] /\ invoice'[q] = invoice[q],
           RowFunded(p)',
           payment'[p] = payment[p] \/ req[r].op = "paid" \/ MayFail
             \/ \A q \in Requests : req'[q].op \in Paying => req'[q].pay # p,
           payment[p].status # "NONE"
             => /\ payment'[p].status # "NONE" /\ payment'[p].method = payment[p].method
                /\ payment'[p].order = payment[p].order
                /\ invoice'[p].own = invoice[p].own,
           req[r].op # "payWallet" => payment'[p].method # "WALLET",
           req[r].op = "payWallet" => payment'[p].method # "XENDIT" /\ invoice'[p] = invoice[p],
           req[r].op = "paid" => payment[p].status # "NONE" /\ invoice' = invoice
    PROVE  SlotInv'
<1>1. SlotsApart'
  BY ApartKept DEF SlotInv
<1>2. ASSUME NEW q \in Requests
      PROVE  SlotKnown(q)'
  <2>1. SlotKnown(q)
    BY DEF SlotInv
  <2>2. CASE req'[q].op = "idle"
    BY <2>2 DEF SlotKnown, Paying
  <2>3. CASE req'[q].op # "idle" /\ req[q].pay # p
    BY <2>1, <2>3 DEF SlotKnown, Paying
  <2>4. CASE req'[q].op # "idle" /\ req[q].pay = p /\ req[q].op = "paid"
    BY <2>1, <2>4 DEF SlotKnown, Paying
  <2>5. CASE req'[q].op # "idle" /\ req[q].pay = p /\ req[q].op \in Paying
    <3>1. CASE req[r].op = "paid"
      BY <2>1, <2>5, <3>1 DEF SlotKnown, Paying, NoPayment
    <3>2. CASE req[r].op \in Paying
      <4>1. req[q].op = req[r].op
        BY <2>5, <3>2 DEF SlotInv, SlotsApart
      <4> QED
        BY <2>1, <2>5, <3>2, <4>1 DEF SlotKnown, Paying
    <3> QED
      BY <3>1, <3>2
  <2>6. CASE req'[q].op # "idle" /\ req[q].op \notin Paying \union {"paid"}
    BY <2>6 DEF SlotKnown, Paying
  <2> QED
    BY <2>2, <2>3, <2>4, <2>5, <2>6
<1>3. ASSUME NEW q \in Payments
      PROVE  RowFunded(q)'
  BY DEF SlotInv, RowFunded
<1> QED
  BY <1>1, <1>2, <1>3 DEF SlotInv

\* What a request that works on the books does to slots.
LEMMA WorksKeepsSlots ==
    ASSUME SlotInv, req \in [Requests -> RequestTypes], payment \in [Payments -> PaymentRows],
           invoice \in [Payments -> Invoices],
           NEW r \in Requests, Works(r)
    PROVE  SlotInv'
<1>0. PICK p : p = req[r].pay
  OBVIOUS
<1> USE <1>0
<1>1. CASE ReadScale(r) \/ CancelLock(r) \/ CreditUser(r) \/ CreditCourier(r) \/ DebitFare(r)
           \/ CancelRefund(r)
  <2>1. UNCHANGED <<payment, invoice>> /\ \E pc : Continue(r, pc)
    BY <1>1 DEF ReadScale, CancelLock, CreditUser, CreditCourier, DebitFare, CancelRefund,
                bookVars
  <2>2. \A q \in Requests : /\ req'[q].op = req[q].op /\ req'[q].pay = req[q].pay
                            /\ req'[q].order = req[q].order
    BY <2>1, ContinueGoesOn DEF GoesOn, Others
  <2> QED
    BY <2>1, <2>2, SlotsKept
<1>2. CASE Settles(r)
  <2>1. UNCHANGED <<payment, invoice>> /\ Others(r) /\ req'[r] = Idle
    BY <1>2, FinishEnds DEF Settles
  <2> QED
    BY <2>1, SlotsKept DEF Others, Idle
<1>3. CASE CreateInvoice(r)
  <2>1. /\ invoice' = [invoice EXCEPT ![p] = [invoice[p] EXCEPT !.stray = @ \union {r}]]
        /\ UNCHANGED payment
        /\ Continue(r, "commit") /\ req[r].op = "payInvoice"
    BY <1>3 DEF CreateInvoice, At
  <2>2. p \in Payments /\ payment[p].method # "WALLET" /\ RowFunded(p)
    BY <2>1 DEF SlotInv, SlotKnown, Paying
  <2>3. \A q \in Requests : /\ req'[q].op = req[q].op /\ req'[q].pay = req[q].pay
                            /\ req'[q].order = req[q].order
    BY <2>1, ContinueGoesOn DEF GoesOn, Others
  <2>4. /\ invoice'[p].own = invoice[p].own
        /\ \A q \in Payments \ {p} : invoice'[q] = invoice[q]
    BY <2>1, <2>2 DEF Invoices
  <2>5. RowFunded(p)'
    BY <2>1, <2>2, <2>4 DEF RowFunded
  <2> QED
    BY <2>1, <2>2, <2>3, <2>4, <2>5, SlotWritten DEF Paying
<1>4. CASE PayWalletCommit(r) \/ RecordInvoice(r)
  <2>1. req[r].op \in Paying /\ Finish(r) /\ payment[p] = NoPayment
    BY <1>4 DEF PayWalletCommit, RecordInvoice, At, Paying
  <2>2. /\ p \in Payments /\ payment[p].status = "NONE"
        /\ req[r].op = "payWallet" => invoice[p] = NoInvoice
    BY <2>1 DEF SlotInv, SlotKnown, NoPayment
  <2>3. Others(r) /\ req'[r] = Idle
    BY <2>1, FinishEnds
  <2>4. /\ \A q \in Payments \ {p} : payment'[q] = payment[q] /\ invoice'[q] = invoice[q]
        /\ \/ /\ req[r].op = "payWallet" /\ UNCHANGED invoice
              /\ payment'[p].method = "WALLET" /\ payment'[p].status = "PAID"
           \/ /\ req[r].op = "payInvoice"
              /\ payment'[p].method = "XENDIT" /\ payment'[p].status = "PENDING"
    BY <1>4, <2>2 DEF PayWalletCommit, RecordInvoice, At
  <2>5. RowFunded(p)'
    BY <2>2, <2>4 DEF RowFunded
  <2>6. MayFail \/ \A q \in Requests : req'[q].op \in Paying => req'[q].pay # p
    BY <2>1, <2>3 DEF SlotInv, SlotsApart, Others, Idle, Paying
  <2>7. \A q \in Requests : \/ req'[q].op = "idle"
                            \/ /\ req'[q].op = req[q].op /\ req'[q].pay = req[q].pay
                               /\ req'[q].order = req[q].order
    BY <2>3 DEF Others, Idle
  <2>8. req'[r].op = "idle"
    BY <2>3 DEF Idle
  <2> QED
    BY <2>1, <2>2, <2>4, <2>5, <2>6, <2>7, <2>8, SlotWritten DEF Paying
<1>5. CASE PaidCommit(r)
  <2>1. /\ req[r].op = "paid" /\ UNCHANGED invoice /\ Finish(r)
        /\ payment' = [payment EXCEPT ![p] = [payment[p] EXCEPT !.status = "PAID"]]
    BY <1>5 DEF PaidCommit, At
  <2>2. /\ p \in Payments /\ payment[p].status # "NONE" /\ invoice[p].own = "PAID"
        /\ RowFunded(p)
    BY <2>1 DEF SlotInv, SlotKnown
  <2>3. /\ payment'[p].status = "PAID" /\ payment'[p].method = payment[p].method
        /\ payment'[p].order = payment[p].order
        /\ \A q \in Payments \ {p} : payment'[q] = payment[q]
    BY <2>1, <2>2 DEF PaymentRows
  <2>4. Others(r) /\ req'[r] = Idle
    BY <2>1, FinishEnds
  <2>5. RowFunded(p)' /\ payment[p].method # "WALLET"
    BY <2>1, <2>2, <2>3 DEF RowFunded, NoInvoice
  <2>6. \A q \in Requests : \/ req'[q].op = "idle"
                            \/ /\ req'[q].op = req[q].op /\ req'[q].pay = req[q].pay
                               /\ req'[q].order = req[q].order
    BY <2>4 DEF Others, Idle
  <2>7. req'[r].op = "idle"
    BY <2>4 DEF Idle
  <2> QED
    BY <2>1, <2>2, <2>3, <2>5, <2>6, <2>7, SlotWritten DEF Paying
<1> QED
  BY <1>1, <1>2, <1>3, <1>4, <1>5 DEF Works

\* What a callback or an invoice does to slots.
LEMMA XenditKeepsSlots ==
    ASSUME SlotInv, payment \in [Payments -> PaymentRows],
           invoice \in [Payments -> Invoices],
           NEW p \in Payments, XenditStep(p)
    PROVE  SlotInv'
<1>0. UNCHANGED req
  BY DEF XenditStep, InvoicePaid, InvoiceExpired, StrayExpired, PaymentExpired
<1>1. SlotsApart'
  BY <1>0 DEF SlotInv, SlotsApart
<1>2. CASE InvoicePaid(p) \/ InvoiceExpired(p) \/ \E i \in Requests : StrayExpired(p, i)
  <2>1. /\ UNCHANGED payment
        /\ invoice[p] # NoInvoice
        /\ invoice'[p].own = invoice[p].own \/ invoice[p].own = "OPEN"
        /\ \A q \in Payments \ {p} : invoice'[q] = invoice[q]
    <3>1. CASE InvoicePaid(p) \/ InvoiceExpired(p)
      BY <3>1 DEF InvoicePaid, InvoiceExpired, NoInvoice
    <3>2. CASE \E i \in Requests : StrayExpired(p, i)
      BY <3>2 DEF StrayExpired, NoInvoice, Invoices
    <3> QED
      BY <1>2, <3>1, <3>2
  <2>2. ASSUME NEW q \in Requests
        PROVE  SlotKnown(q)'
    <3>1. SlotKnown(q)
      BY DEF SlotInv
    <3> QED
      BY <1>0, <2>1, <3>1 DEF SlotKnown, Paying
  <2>3. ASSUME NEW q \in Payments
        PROVE  RowFunded(q)'
    <3>1. RowFunded(q)
      BY DEF SlotInv
    <3> QED
      BY <2>1, <3>1 DEF RowFunded
  <2> QED
    BY <1>1, <2>2, <2>3 DEF SlotInv
<1>3. CASE PaymentExpired(p)
  <2>1. /\ invoice[p] # NoInvoice /\ payment[p].status # "NONE" /\ UNCHANGED invoice
        /\ payment' = [payment EXCEPT ![p] = [payment[p] EXCEPT !.status = "EXPIRED"]]
    BY <1>3 DEF PaymentExpired, NoInvoice
  <2>2. /\ payment'[p].status = "EXPIRED" /\ payment'[p].method = payment[p].method
        /\ payment'[p].order = payment[p].order
        /\ \A q \in Payments \ {p} : payment'[q] = payment[q]
    BY <2>1 DEF PaymentRows
  <2>3. ASSUME NEW q \in Requests
        PROVE  SlotKnown(q)'
    <3>1. SlotKnown(q)
      BY DEF SlotInv
    <3> QED
      BY <1>0, <2>1, <2>2, <3>1 DEF SlotKnown, Paying, NoPayment
  <2>4. ASSUME NEW q \in Payments
        PROVE  RowFunded(q)'
    <3>1. RowFunded(q)
      BY DEF SlotInv
    <3> QED
      BY <2>1, <2>2, <3>1 DEF RowFunded
  <2> QED
    BY <1>1, <2>3, <2>4 DEF SlotInv
<1> QED
  BY <1>2, <1>3 DEF XenditStep

LEMMA SlotsStep == TypeOK /\ SlotInv /\ [Next]_vars => SlotInv'
<1> SUFFICES ASSUME TypeOK, SlotInv, [Next]_vars PROVE SlotInv'
  OBVIOUS
<1>1. /\ req \in [Requests -> RequestTypes]
      /\ payment \in [Payments -> PaymentRows]
      /\ invoice \in [Payments -> Invoices]
  BY DEF TypeOK, PaymentRows, Invoices
<1>2. ASSUME NEW r \in Requests, Leaves(r)
      PROVE  SlotInv'
  BY <1>2, SlotsKept DEF Leaves, SameBooks, Others, Idle
<1>3. CASE SameBooks /\ UNCHANGED req
  BY <1>3, SlotsKept DEF SameBooks
<1> QED
  BY <1>1, <1>2, <1>3, StepKinds, CallsKeepSlots, WorksKeepsSlots, XenditKeepsSlots

LEMMA InitSlots == Init => SlotInv
  BY DEF Init, SlotInv, SlotsApart, SlotKnown, RowFunded, Idle, Paying, NoPayment,
         NoInvoice

\* Requests share an external id only with calls of their kind, and each
\* payment's row agrees with its invoice.
THEOREM SlotsAgree == Spec => []SlotInv
<1>1. TypeOK /\ SlotInv /\ [Next]_vars => SlotInv'
  BY SlotsStep
<1> QED
  BY <1>1, InitSlots, TypeCorrect, PTL DEF Spec

-----------------------------------------------------------------------------
(* Money that came in stays; refunds.                                      *)

\* No callback and no other request takes the backing of a payment away: only
\* the expiry of a second invoice with its external id ends PAID, and that is on
\* record; a slot with a row is not used again.
BackingStays ==
    \A p \in Payments : Backing(p) => Backing(p)' /\ payment'[p].order = payment[p].order

LEMMA BackingsStay ==
    ASSUME TypeOK, SlotInv, [Next]_vars
    PROVE  BackingStays
<1>1. /\ req \in [Requests -> RequestTypes] /\ payment \in [Payments -> PaymentRows]
      /\ invoice \in [Payments -> Invoices]
  BY DEF TypeOK, PaymentRows, Invoices
<1>2. ASSUME NEW r \in Requests, Works(r)
      PROVE  BackingStays
  <2> DEFINE p == req[r].pay
  <2>1. CASE ~(PayWalletCommit(r) \/ RecordInvoice(r) \/ PaidCommit(r) \/ CreateInvoice(r))
    BY <1>2, <2>1
    DEF Works, ReadScale, CancelLock, CreditUser, CreditCourier, Settles, DebitFare,
        CancelRefund, bookVars, BackingStays, Backing
  <2>2. CASE PayWalletCommit(r) \/ RecordInvoice(r)
    <3>1. p \in Payments /\ payment[p].method = "NONE"
      BY <2>2 DEF PayWalletCommit, RecordInvoice, At, Paying, SlotInv, SlotKnown, NoPayment
    <3>2. ~Backing(p)
      BY <3>1 DEF Backing, SlotInv, RowFunded
    <3>3. \A q \in Payments \ {p} : payment'[q] = payment[q] /\ invoice'[q] = invoice[q]
      BY <1>1, <2>2, <3>1 DEF PayWalletCommit, RecordInvoice
    <3> QED
      BY <3>2, <3>3 DEF BackingStays, Backing
  <2>3. CASE PaidCommit(r)
    <3>1. /\ payment' = [payment EXCEPT ![p] = [payment[p] EXCEPT !.status = "PAID"]]
          /\ UNCHANGED invoice
      BY <2>3 DEF PaidCommit
    <3> QED
      BY <1>1, <3>1 DEF BackingStays, Backing, PaymentRows
  <2>4. CASE CreateInvoice(r)
    <3>1. /\ invoice' = [invoice EXCEPT ![p] = [invoice[p] EXCEPT !.stray = @ \union {r}]]
          /\ UNCHANGED payment
      BY <2>4 DEF CreateInvoice
    <3> QED
      BY <1>1, <3>1 DEF BackingStays, Backing, Invoices
  <2> QED
    BY <2>1, <2>2, <2>3, <2>4
<1>3. ASSUME NEW p \in Payments, XenditStep(p)
      PROVE  BackingStays
  <2>1. CASE InvoicePaid(p) \/ InvoiceExpired(p)
    <3>1. /\ invoice[p].own = "OPEN" /\ UNCHANGED payment
          /\ invoice'[p].lapsed = invoice[p].lapsed
          /\ \A q \in Payments \ {p} : invoice'[q] = invoice[q]
      BY <1>1, <2>1 DEF InvoicePaid, InvoiceExpired, Invoices
    <3> QED
      BY <3>1 DEF BackingStays, Backing
  <2>2. CASE \E i \in Requests : StrayExpired(p, i)
    <3>1. /\ UNCHANGED payment /\ invoice'[p].own = invoice[p].own /\ invoice'[p].lapsed
          /\ \A q \in Payments \ {p} : invoice'[q] = invoice[q]
      BY <1>1, <2>2 DEF StrayExpired, Invoices
    <3> QED
      BY <3>1 DEF BackingStays, Backing
  <2>3. CASE PaymentExpired(p)
    <3>1. /\ UNCHANGED invoice
          /\ invoice[p].own = "EXPIRED" \/ invoice[p].lapsed
          /\ payment' = [payment EXCEPT ![p] = [payment[p] EXCEPT !.status = "EXPIRED"]]
      BY <2>3 DEF PaymentExpired
    <3>2. /\ payment'[p].method = payment[p].method /\ payment'[p].order = payment[p].order
          /\ \A q \in Payments \ {p} : payment'[q] = payment[q]
      BY <1>1, <3>1 DEF PaymentRows
    <3>3. Backing(p) => invoice[p].lapsed
      BY <3>1 DEF Backing, SlotInv, RowFunded, NoInvoice
    <3> QED
      BY <3>1, <3>2, <3>3 DEF BackingStays, Backing
  <2> QED
    BY <1>3, <2>1, <2>2, <2>3 DEF XenditStep
<1>4. ASSUME SameBooks
      PROVE  BackingStays
  BY <1>4 DEF SameBooks, BackingStays, Backing
<1> QED
  BY <1>2, <1>3, <1>4, <1>1, StepKinds DEF Calls, Leaves

LEMMA RefundsStep == Grounded /\ SlotInv /\ RefundInv /\ [Next]_vars => RefundInv'
<1> SUFFICES ASSUME Grounded, SlotInv, RefundInv, [Next]_vars PROVE RefundInv'
  OBVIOUS
<1>1. TypeOK /\ req \in [Requests -> RequestTypes]
  BY DEF Grounded, TypeOK
<1>2. \A o : Backed(o) => Backed(o)'
  BY <1>1, BackingsStay DEF Backed, BackingStays
<1>2a. \A o : HasPaid(o) => Backed(o)
  <2>1. payment \in [Payments -> PaymentRows]
    BY DEF Grounded, TypeOK, PaymentRows
  <2> QED
    BY <2>1 DEF HasPaid, Backed, Backing, SlotInv, RowFunded, PaymentRows
<1>3. ASSUME \A o \in Orders : entries'[o]["refund"] > 0
               => entries[o]["refund"] > 0 \/ Backed(o),
             \A r \in Requests : req'[r].pc \in {"refund", "refunded"}
               => /\ req'[r].order = req[r].order
                  /\ req[r].pc \in {"refund", "refunded"} \/ Backed(req[r].order)
      PROVE  RefundInv'
  BY <1>2, <1>3 DEF RefundInv, RefundIsBacked, Backed
<1>4. ASSUME NEW r \in Requests, Calls(r) \/ Leaves(r)
      PROVE  RefundInv'
  BY <1>3, <1>4 DEF Calls, Leaves, Others, SameBooks, Idle
<1>5. CASE \/ SameBooks /\ UNCHANGED req
           \/ \E p \in Payments : XenditStep(p)
  BY <1>3, <1>5 DEF SameBooks, XenditStep, InvoicePaid, InvoiceExpired, StrayExpired, PaymentExpired
<1>6. ASSUME NEW r \in Requests, Works(r)
      PROVE  RefundInv'
  <2>1. CASE \/ ReadScale(r) \/ CreateInvoice(r)
    <3>1. UNCHANGED entries /\ Continue(r, "commit")
      BY <2>1 DEF ReadScale, CreateInvoice, bookVars
    <3> QED
      BY <1>1, <1>3, <3>1, ContinueGoesOn DEF GoesOn, Others
  <2>2. CASE CancelLock(r)
    <3>1. UNCHANGED entries /\ Continue(r, "refund") /\ Backed(req[r].order)
      BY <1>2a, <2>2 DEF CancelLock, bookVars
    <3> QED
      BY <1>1, <1>3, <3>1, ContinueGoesOn DEF GoesOn, Others
  <2>3. ASSUME NEW kind \in EntryKinds \ {"refund"}, Book(req[r].order, kind),
               req[r].op # "idle",
               \/ \E pc \in Steps \ {"refund", "refunded"} : Continue(r, pc)
               \/ Finish(r)
        PROVE  RefundInv'
    <3>1. \A o \in Orders : entries'[o]["refund"] = entries[o]["refund"]
      BY <1>1, <2>3, Booked, InFlight DEF EntryKinds
    <3>2. CASE Finish(r)
      BY <1>1, <1>3, <3>1, <3>2, FinishEnds DEF Others, Idle
    <3>3. CASE \E pc \in Steps \ {"refund", "refunded"} : Continue(r, pc)
      BY <1>1, <1>3, <3>1, <3>3, ContinueGoesOn DEF GoesOn, Others
    <3> QED
      BY <2>3, <3>2, <3>3
  <2>4. CASE CreditUser(r) \/ CreditCourier(r) \/ Settles(r) \/ DebitFare(r)
    BY <2>3, <2>4 DEF CreditUser, CreditCourier, Settles, DebitFare, At, EntryKinds, Steps
  <2>5. CASE PayWalletCommit(r) \/ RecordInvoice(r) \/ PaidCommit(r)
    <3>1. UNCHANGED entries /\ Finish(r)
      BY <2>5 DEF PayWalletCommit, RecordInvoice, PaidCommit
    <3> QED
      BY <1>1, <1>3, <3>1, FinishEnds DEF Others, Idle
  <2>6. CASE CancelRefund(r)
    <3>1. /\ Book(req[r].order, "refund") /\ Continue(r, "refunded")
          /\ req[r].op # "idle" /\ req[r].pc = "refund"
      BY <2>6 DEF CancelRefund, At
    <3>2. req[r].order \in Orders /\ Backed(req[r].order)
      BY <3>1, InFlight DEF RefundInv
    <3>3. \A o \in Orders \ {req[r].order} : entries'[o] = entries[o]
      BY <1>1, <3>1, <3>2, Booked DEF EntryKinds
    <3> QED
      BY <1>1, <1>3, <3>1, <3>2, <3>3, ContinueGoesOn DEF GoesOn, Others
  <2> QED
    BY <1>6, <2>1, <2>2, <2>4, <2>5, <2>6 DEF Works
<1> QED
  BY <1>1, <1>4, <1>5, <1>6, StepKinds

LEMMA InitRefunds == Init => RefundInv
  BY DEF Init, RefundInv, RefundIsBacked, Idle, EntryKinds

\* A refund is made only for an order with a payment that came in, and its row
\* stays PAID unless a second invoice with its external id expires:
\* cancelOrder looks for it under the row's lock, and nothing else takes it back.
THEOREM RefundsBacked == Spec => []RefundIsBacked
<1>1. Grounded /\ SlotInv /\ RefundInv /\ [Next]_vars => RefundInv'
  BY RefundsStep
<1>2. RefundInv => RefundIsBacked
  BY DEF RefundInv
<1> QED
  BY <1>1, <1>2, InitRefunds, AlwaysGrounded, SlotsAgree, PTL DEF Spec

\* The invoices that no row names are those of calls about to record them.
NoStrays ==
    \A p \in Payments :
        /\ ~invoice[p].lapsed
        /\ \A i \in invoice[p].stray : At(i, "payInvoice", "commit") /\ req[i].pay = p

LEMMA NoStraysStep ==
    ASSUME ~MayFail, TypeOK, SlotInv, NoStrays, [Next]_vars
    PROVE  NoStrays'
<1>1. req \in [Requests -> RequestTypes] /\ invoice \in [Payments -> Invoices]
  BY DEF TypeOK, Invoices
<1>2. \A p \in Payments : invoice[p].stray \subseteq Requests
  BY <1>1 DEF Invoices
<1>3. CASE SameBooks /\ UNCHANGED req
  BY <1>3 DEF SameBooks, NoStrays, At
<1>4. ASSUME NEW r \in Requests, Calls(r)
      PROVE  NoStrays'
  <2>1. UNCHANGED invoice /\ Others(r) /\ req[r] = Idle
    BY <1>4 DEF Calls, SameBooks
  <2>2. \A p \in Payments : r \notin invoice[p].stray
    BY <2>1 DEF NoStrays, At, Idle
  <2> QED
    BY <1>2, <2>1, <2>2 DEF NoStrays, At, Others
<1>5. ASSUME NEW r \in Requests, Leaves(r)
      PROVE  NoStrays'
  <2>1. UNCHANGED invoice /\ Others(r) /\ ~IdTaken(r)
    BY <1>5 DEF Leaves, SameBooks, IdTaken, SlotInv, SlotKnown, Paying
  <2>2. \A p \in Payments : r \notin invoice[p].stray
    BY <1>5, <2>1 DEF NoStrays, Leaves, Owing
  <2> QED
    BY <1>2, <2>1, <2>2 DEF NoStrays, At, Others
<1>6. ASSUME NEW r \in Requests, Works(r)
      PROVE  NoStrays'
  <2>0. PICK p : p = req[r].pay
    OBVIOUS
  <2>1. CASE CreateInvoice(r)
    <3>1. /\ invoice' = [invoice EXCEPT ![p] = [invoice[p] EXCEPT !.stray = @ \union {r}]]
          /\ At(r, "payInvoice", "invoice") /\ GoesOn(r, "commit")
      BY <1>1, <2>0, <2>1, ContinueGoesOn DEF CreateInvoice
    <3>2. p \in Payments
      BY <2>0, <3>1 DEF SlotInv, SlotKnown, Paying, At
    <3>3. /\ invoice'[p].stray = invoice[p].stray \union {r}
          /\ invoice'[p].lapsed = invoice[p].lapsed
          /\ \A q \in Payments \ {p} : invoice'[q] = invoice[q]
      BY <1>1, <3>1, <3>2 DEF Invoices
    <3>4. At(r, "payInvoice", "commit")' /\ req'[r].pay = p
      BY <2>0, <3>1 DEF At, GoesOn
    <3>5. \A q \in Payments : r \notin invoice[q].stray
      BY <3>1 DEF NoStrays, At
    <3> QED
      BY <1>2, <3>1, <3>3, <3>4, <3>5 DEF NoStrays, At, GoesOn, Others
  <2>2. CASE RecordInvoice(r)
    <3>1. /\ invoice' = [invoice EXCEPT ![p] = [invoice[p] EXCEPT !.own = "OPEN", !.stray = @ \ {r}]]
          /\ Others(r)
      BY <1>1, <2>0, <2>2, FinishEnds DEF RecordInvoice
    <3>2. \A q \in Payments : /\ r \notin invoice'[q].stray
                              /\ invoice'[q].stray \subseteq invoice[q].stray
                              /\ invoice'[q].lapsed = invoice[q].lapsed
      BY <1>1, <2>0, <3>1 DEF Invoices, NoStrays
    <3> QED
      BY <1>2, <3>1, <3>2 DEF NoStrays, At, Others
  <2>3. CASE ~(CreateInvoice(r) \/ RecordInvoice(r))
    <3>1. /\ UNCHANGED invoice /\ ~At(r, "payInvoice", "commit")
          /\ Finish(r) \/ \E pc : Continue(r, pc)
      BY <1>6, <2>3
      DEF Works, ReadScale, CancelLock, CreditUser, CreditCourier, Settles, DebitFare,
          PayWalletCommit, PaidCommit, CancelRefund, At, bookVars
    <3>2. Others(r)
      BY <1>1, <3>1, FinishEnds, ContinueGoesOn DEF GoesOn
    <3>3. \A q \in Payments : r \notin invoice[q].stray
      BY <3>1 DEF NoStrays
    <3> QED
      BY <1>2, <3>1, <3>2, <3>3 DEF NoStrays, At, Others
  <2> QED
    BY <2>1, <2>2, <2>3
<1>7. ASSUME NEW p \in Payments, XenditStep(p)
      PROVE  NoStrays'
  <2>1. \A i \in Requests : ~StrayExpired(p, i)
    BY DEF StrayExpired, NoStrays
  <2>2. /\ UNCHANGED req
        /\ \/ UNCHANGED invoice
           \/ \E s : invoice' = [invoice EXCEPT ![p] = [invoice[p] EXCEPT !.own = s]]
    BY <1>7, <2>1 DEF XenditStep, InvoicePaid, InvoiceExpired, PaymentExpired
  <2>3. \A q \in Payments : /\ invoice'[q].stray = invoice[q].stray
                            /\ invoice'[q].lapsed = invoice[q].lapsed
    BY <1>1, <2>2 DEF Invoices
  <2> QED
    BY <2>2, <2>3 DEF NoStrays, At
<1> QED
  BY <1>1, <1>3, <1>4, <1>5, <1>6, <1>7, StepKinds

LEMMA InitStrays == Init => NoStrays
  BY DEF Init, NoStrays, NoInvoice

LEMMA AlwaysNoStrays ==
    ASSUME ~MayFail
    PROVE  Spec => []NoStrays
<1>1. TypeOK /\ SlotInv /\ NoStrays /\ [Next]_vars => NoStrays'
  BY NoStraysStep
<1> QED
  BY <1>1, InitStrays, TypeCorrect, SlotsAgree, PTL DEF Spec

\* Where no two calls share an external id and none dies, an order that was
\* refunded keeps a payment that says PAID, whatever callbacks come later.
THEOREM RefundsStayPaid ==
    ASSUME ~MayFail
    PROVE  Spec => [](\A o \in Orders : entries[o]["refund"] > 0 => HasPaid(o))
<1>1. NoStrays /\ RefundIsBacked => \A o \in Orders : entries[o]["refund"] > 0 => HasPaid(o)
  BY DEF NoStrays, RefundIsBacked, Backing, HasPaid
<1> QED
  BY <1>1, AlwaysNoStrays, RefundsBacked, PTL

-----------------------------------------------------------------------------
(* Counting.                                                               *)

One(b) == IF b THEN 1 ELSE 0

\* Two sets that differ at x at most.
LEMMA Differ ==
    ASSUME NEW S, NEW T, NEW x, IsFiniteSet(S), T \ {x} = S \ {x}
    PROVE  /\ IsFiniteSet(T)
           /\ Cardinality(S) \in Nat /\ Cardinality(T) \in Nat
           /\ Cardinality(T) + One(x \in S) = Cardinality(S) + One(x \in T)
<1> DEFINE R == S \ {x}
<1>1. IsFiniteSet(R) /\ Cardinality(S) = Cardinality(R) + One(x \in S)
  <2>1. IsFiniteSet(R) /\ Cardinality(R) = IF x \in S THEN Cardinality(S) - 1 ELSE Cardinality(S)
    BY FS_RemoveElement
  <2>2. Cardinality(S) \in Nat
    BY FS_CardinalityType
  <2> HIDE DEF R
  <2> QED
    BY <2>1, <2>2 DEF One
<1>2. T = R \/ T = R \union {x}
  OBVIOUS
<1>3. IsFiniteSet(T) /\ Cardinality(T) = Cardinality(R) + One(x \in T)
  <2>1. CASE x \in T
    <3>1. T = R \union {x} /\ x \notin R
      BY <2>1
    <3> HIDE DEF R
    <3> QED
      BY <1>1, <2>1, <3>1, FS_AddElement DEF One
  <2>2. CASE x \notin T
    <3>1. T = R
      BY <2>2, <1>2
    <3> HIDE DEF R
    <3>2. Cardinality(R) \in Nat
      BY <1>1, FS_CardinalityType
    <3> QED
      BY <1>1, <2>2, <3>1, <3>2 DEF One
  <2> QED
    BY <2>1, <2>2
<1>4. Cardinality(R) \in Nat /\ Cardinality(S) \in Nat /\ Cardinality(T) \in Nat
  BY <1>1, <1>3, FS_CardinalityType
<1> HIDE DEF R
<1> QED
  BY <1>1, <1>3, <1>4 DEF One

-----------------------------------------------------------------------------
(* Fares.                                                                  *)

\* A fare that is booked, a payment that is recorded and a request that owes
\* the record: one step moves the three together.
LEMMA FareMoves ==
    ASSUME NEW o, FareKept(o), NEW r, NEW p,
           Debited(o)' \ {r} = Debited(o) \ {r},
           WalletPaid(o)' \ {p} = WalletPaid(o) \ {p},
           entries[o]["fare"] \in Nat, entries'[o]["fare"] \in Nat,
           LET gain == One(r \in Debited(o)') + One(p \in WalletPaid(o)') + entries[o]["fare"]
               loss == One(r \in Debited(o)) + One(p \in WalletPaid(o)) + entries'[o]["fare"]
           IN  gain <= loss /\ (~MayFail => gain = loss)
    PROVE  FareKept(o)'
<1> DEFINE D == Debited(o)
           W == WalletPaid(o)
           n == entries[o]["fare"]
<1>1. /\ IsFiniteSet(D) /\ IsFiniteSet(W)
      /\ Cardinality(W) + Cardinality(D) <= n
      /\ ~MayFail => Cardinality(W) + Cardinality(D) = n
  BY DEF FareKept
<1>2. /\ IsFiniteSet(D') /\ Cardinality(D) \in Nat /\ Cardinality(D') \in Nat
      /\ Cardinality(D') + One(r \in D) = Cardinality(D) + One(r \in D')
  BY <1>1, Differ
<1>3. /\ IsFiniteSet(W') /\ Cardinality(W) \in Nat /\ Cardinality(W') \in Nat
      /\ Cardinality(W') + One(p \in W) = Cardinality(W) + One(p \in W')
  BY <1>1, Differ
<1>4. \A b \in BOOLEAN : One(b) \in {0, 1}
  BY DEF One
<1>5. /\ Cardinality(W') + Cardinality(D') <= n'
      /\ ~MayFail => Cardinality(W') + Cardinality(D') = n'
  <2>1. /\ One(r \in D') + One(p \in W') + n <= One(r \in D) + One(p \in W) + n'
        /\ ~MayFail => One(r \in D') + One(p \in W') + n = One(r \in D) + One(p \in W) + n'
    OBVIOUS
  <2>2. One(r \in D) \in Nat /\ One(r \in D') \in Nat /\ One(p \in W) \in Nat /\ One(p \in W') \in Nat
    BY DEF One
  <2>3. n \in Nat /\ n' \in Nat
    OBVIOUS
  <2> HIDE DEF D, W, n
  <2> QED
    BY <1>1, <1>2, <1>3, <2>1, <2>2, <2>3
<1> QED
  BY <1>2, <1>3, <1>5 DEF FareKept

LEMMA FareStep ==
    ASSUME Grounded, SlotInv, [Next]_vars, NEW o \in Orders, FareKept(o)
    PROVE  FareKept(o)'
<1>1. TypeOK /\ req \in [Requests -> RequestTypes] /\ payment \in [Payments -> PaymentRows]
  BY DEF Grounded, TypeOK, PaymentRows
<1>2. TypeOK'
  BY NextGrounded DEF Grounded
<1>3. entries[o]["fare"] \in Nat /\ entries'[o]["fare"] \in Nat
  BY <1>1, <1>2 DEF TypeOK, EntryKinds
<1>4. ASSUME NEW r \in Requests, Others(r)
      PROVE  Debited(o)' \ {r} = Debited(o) \ {r}
  BY <1>4 DEF Others, Debited, At
\* No payment changes: only r and the ledger do.
<1>5. ASSUME NEW r \in Requests, Others(r), WalletPaid(o)' = WalletPaid(o),
             \/ /\ entries'[o]["fare"] = entries[o]["fare"]
                /\ r \in Debited(o)' => r \in Debited(o)
                /\ ~MayFail /\ r \in Debited(o) => r \in Debited(o)'
             \/ /\ entries'[o]["fare"] = entries[o]["fare"] + 1
                /\ r \notin Debited(o) /\ r \in Debited(o)'
      PROVE  FareKept(o)'
  <2>1. Debited(o)' \ {r} = Debited(o) \ {r}
    BY <1>4, <1>5
  <2> QED
    BY <1>3, <1>5, <2>1, FareMoves DEF One
<1>6. ASSUME UNCHANGED <<req, entries>>, WalletPaid(o)' = WalletPaid(o)
      PROVE  FareKept(o)'
  <2>1. Debited(o)' = Debited(o)
    BY <1>6 DEF Debited, At
  <2> QED
    BY <1>6, <2>1 DEF FareKept
<1>7. UNCHANGED payment => WalletPaid(o)' = WalletPaid(o)
  BY DEF WalletPaid
<1>8. CASE SameBooks /\ UNCHANGED req
  BY <1>6, <1>7, <1>8 DEF SameBooks
<1>9. ASSUME NEW r \in Requests, Calls(r)
      PROVE  FareKept(o)'
  <2>1. r \notin Debited(o) /\ r \notin Debited(o)'
    BY <1>9 DEF Calls, Debited, At, Idle
  <2> QED
    BY <1>5, <1>7, <1>9, <2>1 DEF Calls, SameBooks
<1>10. ASSUME NEW r \in Requests, Leaves(r)
       PROVE  FareKept(o)'
  <2>1. IdTaken(r) => MayFail
    BY DEF IdTaken, SlotInv, SlotKnown, Paying
  <2>2. r \notin Debited(o)' /\ (~MayFail => r \notin Debited(o))
    BY <1>10, <2>1 DEF Leaves, Debited, At, Idle, Owing
  <2> QED
    BY <1>5, <1>7, <1>10, <2>2 DEF Leaves, SameBooks
<1>11. ASSUME NEW p \in Payments, XenditStep(p)
       PROVE  FareKept(o)'
  <2>1. UNCHANGED <<req, entries>>
    BY <1>11 DEF XenditStep, InvoicePaid, InvoiceExpired, StrayExpired, PaymentExpired
  <2>2. CASE PaymentExpired(p)
    <3>1. /\ payment[p].method # "WALLET"
          /\ payment' = [payment EXCEPT ![p] = [payment[p] EXCEPT !.status = "EXPIRED"]]
      BY <2>2 DEF PaymentExpired, SlotInv, RowFunded, NoInvoice
    <3>2. /\ payment'[p].method # "WALLET" /\ \A q \in Payments \ {p} : payment'[q] = payment[q]
      BY <1>1, <3>1 DEF PaymentRows
    <3>3. WalletPaid(o)' = WalletPaid(o)
      BY <3>1, <3>2 DEF WalletPaid
    <3> QED
      BY <1>6, <2>1, <3>3
  <2>3. CASE InvoicePaid(p) \/ InvoiceExpired(p) \/ \E i \in Requests : StrayExpired(p, i)
    BY <1>6, <1>7, <2>1, <2>3 DEF InvoicePaid, InvoiceExpired, StrayExpired
  <2> QED
    BY <1>11, <2>2, <2>3 DEF XenditStep
<1>12. ASSUME NEW r \in Requests, Works(r)
       PROVE  FareKept(o)'
  <2>1. CASE ReadScale(r) \/ CancelLock(r) \/ CreateInvoice(r)
    <3>1. /\ req[r].op # "payWallet" /\ \E pc : Continue(r, pc)
          /\ UNCHANGED <<payment, entries>>
      BY <2>1 DEF ReadScale, CancelLock, CreateInvoice, At, bookVars
    <3>2. Others(r) /\ req'[r].op # "payWallet"
      BY <1>1, <3>1, ContinueGoesOn DEF GoesOn
    <3> QED
      BY <1>5, <1>7, <3>1, <3>2 DEF Debited, At
  <2>2. CASE CreditUser(r) \/ CreditCourier(r) \/ CancelRefund(r) \/ Settles(r)
    <3>1. /\ req[r].op \notin {"payWallet", "idle"}
          /\ (\E pc : Continue(r, pc)) \/ Finish(r)
          /\ \E k \in EntryKinds \ {"fare"} : Book(req[r].order, k)
          /\ UNCHANGED payment
      BY <2>2 DEF CreditUser, CreditCourier, CancelRefund, Settles, At, EntryKinds
    <3>2. Others(r) /\ req'[r].op # "payWallet"
      BY <1>1, <3>1, ContinueGoesOn, FinishEnds DEF GoesOn, Idle
    <3>3. entries'[o]["fare"] = entries[o]["fare"]
      BY <1>1, <3>1, Booked, InFlight DEF EntryKinds
    <3> QED
      BY <1>5, <1>7, <3>1, <3>2, <3>3 DEF Debited, At
  <2>3. CASE DebitFare(r)
    <3>1. /\ At(r, "payWallet", "debit") /\ Continue(r, "commit")
          /\ Book(req[r].order, "fare") /\ UNCHANGED payment
      BY <2>3 DEF DebitFare
    <3>2. GoesOn(r, "commit") /\ req[r].order \in Orders
      BY <1>1, <3>1, ContinueGoesOn, InFlight DEF At
    <3>3. /\ entries'[o]["fare"] = entries[o]["fare"] + One(req[r].order = o)
      BY <1>1, <1>3, <3>1, <3>2, Booked DEF EntryKinds, One
    <3>4. r \notin Debited(o) /\ (r \in Debited(o)' <=> req[r].order = o)
      BY <3>1, <3>2 DEF Debited, At, GoesOn
    <3> QED
      BY <1>3, <1>5, <1>7, <3>1, <3>2, <3>3, <3>4 DEF GoesOn, One
  <2>4. CASE PayWalletCommit(r)
    <3> DEFINE p == req[r].pay
    <3>1. /\ At(r, "payWallet", "commit") /\ Finish(r) /\ UNCHANGED entries
          /\ payment' = [payment EXCEPT ![p] = [status |-> "PAID", method |-> "WALLET",
                                                 order |-> req[r].order]]
      BY <2>4 DEF PayWalletCommit
    <3>2. Others(r) /\ req'[r] = Idle
      BY <1>1, <3>1, FinishEnds
    <3>3. p \in Payments /\ payment[p] = NoPayment
      BY <2>4, <3>1 DEF PayWalletCommit, At, SlotInv, SlotKnown, Paying
    <3>4. /\ \A q \in Payments \ {p} : payment'[q] = payment[q]
          /\ payment'[p] = [status |-> "PAID", method |-> "WALLET", order |-> req[r].order]
      BY <1>1, <3>1, <3>3
    <3>5. /\ WalletPaid(o)' \ {p} = WalletPaid(o) \ {p}
          /\ p \notin WalletPaid(o)
          /\ p \in WalletPaid(o)' <=> req[r].order = o
      BY <3>3, <3>4 DEF WalletPaid, NoPayment
    <3>6. /\ r \in Debited(o) <=> req[r].order = o
          /\ r \notin Debited(o)'
      BY <3>1, <3>2 DEF Debited, At, Idle
    <3>7. Debited(o)' \ {r} = Debited(o) \ {r}
      BY <1>4, <3>2
    <3> HIDE DEF p
    <3> QED
      BY <1>3, <3>1, <3>5, <3>6, <3>7, FareMoves DEF One
  <2>5. CASE RecordInvoice(r) \/ PaidCommit(r)
    <3> DEFINE p == req[r].pay
    <3>1. UNCHANGED entries /\ Finish(r) /\ req[r].op # "payWallet"
      BY <2>5 DEF RecordInvoice, PaidCommit, At
    <3>2. p \in Payments
      BY <2>5 DEF RecordInvoice, PaidCommit, At, SlotInv, SlotKnown, Paying
    <3>3. \/ payment[p] = NoPayment
          \/ payment[p].method # "WALLET"
      BY <2>5 DEF RecordInvoice, PaidCommit, At, SlotInv, SlotKnown, RowFunded, NoInvoice
    <3>4. /\ \A q \in Payments \ {p} : payment'[q] = payment[q]
          /\ payment'[p].method # "WALLET"
      <4>1. CASE RecordInvoice(r)
        BY <1>1, <3>2, <4>1 DEF RecordInvoice
      <4>2. CASE PaidCommit(r)
        <5>1. payment' = [payment EXCEPT ![p] = [payment[p] EXCEPT !.status = "PAID"]]
          BY <4>2 DEF PaidCommit
        <5> QED
          BY <1>1, <3>2, <3>3, <5>1 DEF PaymentRows, NoPayment
      <4> QED
        BY <2>5, <4>1, <4>2
    <3>5. WalletPaid(o)' = WalletPaid(o)
      BY <3>2, <3>3, <3>4 DEF WalletPaid, NoPayment
    <3>6. Others(r) /\ req'[r] = Idle
      BY <1>1, <3>1, FinishEnds
    <3>7. r \notin Debited(o) /\ r \notin Debited(o)'
      BY <3>1, <3>6 DEF Debited, At, Idle
    <3> QED
      BY <1>5, <3>1, <3>5, <3>6, <3>7
  <2> QED
    BY <1>12, <2>1, <2>2, <2>3, <2>4, <2>5 DEF Works
<1> QED
  BY <1>1, <1>8, <1>9, <1>10, <1>11, <1>12, StepKinds

FaresKept == \A o \in Orders : FareKept(o)

LEMMA FaresStep == Grounded /\ SlotInv /\ FaresKept /\ [Next]_vars => FaresKept'
  BY FareStep DEF FaresKept

LEMMA InitFares == Init => FaresKept
<1> SUFFICES ASSUME Init, NEW o \in Orders PROVE FareKept(o)
  BY DEF FaresKept
<1>1. WalletPaid(o) = {} /\ Debited(o) = {} /\ entries[o]["fare"] = 0
  BY DEF Init, WalletPaid, Debited, At, Idle, NoPayment, EntryKinds
<1> QED
  BY <1>1, FS_EmptySet DEF FareKept

LEMMA AlwaysFares == Spec => []FaresKept
  BY FaresStep, InitFares, AlwaysGrounded, SlotsAgree, PTL DEF Spec

\* No payment is recorded as PAID without the money, whatever dies in between
\* and in whichever order the callbacks come (PaidIsFunded).
THEOREM PaidFunded == Spec => []PaidIsFunded
<1>1. TypeOK /\ SlotInv /\ FaresKept => PaidIsFunded
  <2> SUFFICES ASSUME TypeOK, SlotInv, FaresKept PROVE PaidIsFunded
    OBVIOUS
  <2>1. ASSUME NEW o \in Orders
        PROVE  Cardinality(WalletPaid(o)) <= entries[o]["fare"]
    <3>1. /\ IsFiniteSet(WalletPaid(o)) /\ IsFiniteSet(Debited(o))
          /\ Cardinality(WalletPaid(o)) + Cardinality(Debited(o)) <= entries[o]["fare"]
      BY DEF FaresKept, FareKept
    <3>2. entries[o]["fare"] \in Nat
      BY DEF TypeOK, EntryKinds
    <3> QED
      BY <3>1, <3>2, FS_CardinalityType
  <2>2. ASSUME NEW p \in Payments, payment[p].status = "PAID", payment[p].method = "XENDIT"
        PROVE  invoice[p].own = "PAID"
    BY <2>2 DEF SlotInv, RowFunded
  <2> QED
    BY <2>1, <2>2 DEF PaidIsFunded
<1> QED
  BY <1>1, TypeCorrect, SlotsAgree, AlwaysFares, PTL

\* payOrder's two transactions leave no fare without a payment: true as long as
\* no request dies between them (FaresRecorded).
THEOREM FaresMatch ==
    ASSUME ~MayFail
    PROVE  Spec => []FaresRecorded
<1>1. FaresKept /\ TypeOK => FaresRecorded
  <2> SUFFICES ASSUME FaresKept, TypeOK, NEW o \in Orders,
                      \A r \in Requests : ~(req[r].order = o /\ req[r].op = "payWallet")
               PROVE  entries[o]["fare"] = Cardinality(WalletPaid(o))
    BY DEF FaresRecorded
  <2>1. Debited(o) = {}
    BY DEF Debited, At
  <2>2. /\ IsFiniteSet(WalletPaid(o))
        /\ Cardinality(WalletPaid(o)) + Cardinality(Debited(o)) = entries[o]["fare"]
    BY DEF FaresKept, FareKept
  <2>3. Cardinality(WalletPaid(o)) \in Nat /\ Cardinality(Debited(o)) = 0
    BY <2>1, <2>2, FS_CardinalityType, FS_EmptySet
  <2> QED
    BY <2>2, <2>3
<1> QED
  BY <1>1, TypeCorrect, AlwaysFares, PTL

-----------------------------------------------------------------------------
(* Settlements.                                                            *)

LEMMA LogGrows ==
    ASSUME TypeOK, NEW o, NEW s, Log(o, s)
    PROVE  HistoryGrows
  BY DEF TypeOK, Log, HistoryGrows

\* Whatever happens, no stage leaves an order's timeline.
LEMMA HistoryStep ==
    ASSUME TypeOK, [Next]_vars
    PROVE  HistoryGrows
<1>1. UNCHANGED history => HistoryGrows
  BY DEF HistoryGrows
<1>2. ASSUME NEW r \in Requests, CourierStep(r)
      PROVE  HistoryGrows
  <2>1. CASE \/ Claim(r) \/ (\E op \in DOMAIN Target : TransitionCommit(r, op))
             \/ (\E s \in Searches : RejectCommit(r, s)) \/ WeighCommit(r)
             \/ \E net \in NetValues : SubmitCommit(r, net)
    <3>1. \E s : Log(req[r].order, s)
      BY <2>1 DEF Claim, TransitionCommit, SetStatus, RejectCommit, WeighCommit, SubmitCommit
    <3> QED
      BY <3>1, LogGrows
  <2>2. CASE ClaimTooLate(r) \/ CreditUser(r) \/ CreditCourier(r) \/ ReadScale(r) \/ SubmitRefused(r)
    BY <1>1, <2>2
    DEF ClaimTooLate, CreditUser, CreditCourier, ReadScale, SubmitRefused, Refuse, rowVars
  <2> QED
    BY <1>2, <2>1, <2>2 DEF CourierStep
<1>3. ASSUME NEW r \in Requests, UserStep(r)
      PROVE  HistoryGrows
  <2>1. CASE \/ ConfirmCommit(r) \/ PayWalletCommit(r) \/ PaidCommit(r)
             \/ CancelCommit(r) \/ CancelFinish(r)
    <3>1. \E s : Log(req[r].order, s)
      BY <2>1 DEF ConfirmCommit, PayWalletCommit, PaidCommit, CancelCommit, CancelFinish, SetStatus
    <3> QED
      BY <3>1, LogGrows
  <2>2. CASE \/ DebitFare(r) \/ PayRefused(r) \/ CreateInvoice(r) \/ RecordInvoice(r)
             \/ IdTaken(r) \/ CancelLock(r) \/ CancelRefund(r)
    BY <1>1, <2>2
    DEF DebitFare, PayRefused, CreateInvoice, RecordInvoice, IdTaken, CancelLock, CancelRefund,
        Refuse, rowVars
  <2> QED
    BY <1>3, <2>1, <2>2 DEF UserStep
<1>4. ASSUME NEW s \in Searches, SearchStep(s) \/ LoseSearch(s)
      PROVE  HistoryGrows
  <2>1. CASE GiveUp(s)
    BY <2>1, LogGrows DEF GiveUp, SetStatus
  <2>2. CASE Found(s) \/ NobodyNear(s) \/ NobodyAround(s) \/ LoseSearch(s)
    BY <1>1, <2>2 DEF Found, NobodyNear, NobodyAround, LoseSearch, rowVars
  <2> QED
    BY <1>4, <2>1, <2>2 DEF SearchStep
<1>5. ASSUME NEW o \in Orders, NEW schedule \in Schedules, NEW s \in Searches,
             Create(o, schedule, s)
      PROVE  HistoryGrows
  BY <1>5, LogGrows DEF Create
<1>6. ASSUME \/ \E r \in Requests : Arrive(r) \/ Drop(r)
             \/ \E p \in Payments : XenditStep(p)
             \/ UNCHANGED vars
      PROVE  HistoryGrows
  <2>1. ASSUME NEW r \in Requests, Arrive(r)
        PROVE  UNCHANGED history
    BY <2>1, ArriveReads DEF rowVars
  <2>2. CASE \/ \E r \in Requests : Drop(r)
             \/ \E p \in Payments : XenditStep(p)
             \/ UNCHANGED vars
    BY <1>1, <2>2
    DEF Drop, Refuse, XenditStep, InvoicePaid, InvoiceExpired, StrayExpired, PaymentExpired, vars, rowVars
  <2> QED
    BY <1>1, <1>6, <2>1, <2>2
<1> QED
  BY <1>2, <1>3, <1>4, <1>5, <1>6 DEF Next, Proceed

LEMMA CreditsStep == TypeOK /\ CreditsKnown /\ [Next]_vars => CreditsKnown'
<1> SUFFICES ASSUME TypeOK, CreditsKnown, [Next]_vars PROVE CreditsKnown'
  OBVIOUS
<1>1. req \in [Requests -> RequestTypes]
  BY DEF TypeOK
<1>2. ASSUME NEW r \in Requests, Calls(r) \/ Leaves(r)
      PROVE  CreditsKnown'
  BY <1>2 DEF Calls, Leaves, Others, CreditsKnown, Idle
<1>3. ASSUME NEW r \in Requests, Works(r)
      PROVE  CreditsKnown'
  <2>1. \/ Finish(r)
        \/ Continue(r, "creditCourier") /\ req[r].op = "complete" /\ req[r].pc = "creditUser"
        \/ \E pc \in Steps \ {"creditUser", "creditCourier"} : Continue(r, pc)
    BY <1>3
    DEF Works, ReadScale, CancelLock, CreditUser, CreditCourier, Settles, DebitFare,
        PayWalletCommit, CreateInvoice, RecordInvoice, PaidCommit, CancelRefund, At, Steps
  <2>2. CASE Finish(r)
    BY <1>1, <2>2, FinishEnds DEF Others, CreditsKnown, Idle
  <2>3. ASSUME NEW pc, Continue(r, pc),
               pc \in {"creditUser", "creditCourier"}
                 => req[r].op = "complete" /\ req[r].pc = "creditUser"
        PROVE  CreditsKnown'
    BY <1>1, <2>3, ContinueGoesOn DEF GoesOn, Others, CreditsKnown
  <2> QED
    BY <2>1, <2>2, <2>3
<1>4. ASSUME \/ SameBooks /\ UNCHANGED req
             \/ \E p \in Payments : XenditStep(p)
      PROVE  CreditsKnown'
  BY <1>4 DEF XenditStep, InvoicePaid, InvoiceExpired, StrayExpired, PaymentExpired, CreditsKnown
<1> QED
  BY <1>1, <1>2, <1>3, <1>4, StepKinds

\* One step of r moves the ledger rows of a settlement and what r owes together.
Balanced(o, r) ==
    /\ entries'[o]["points"] > entries[o]["points"] => "COMPLETED" \in history'[o]
    /\ entries'[o]["commission"] + entries[o]["points"] + One(r \in Credited(o))
         = entries[o]["commission"] + entries'[o]["points"] + One(r \in Credited(o)')
    /\ entries'[o]["proceeds"] + entries[o]["points"]
             + One(r \in Credited(o)) + One(r \in Crediting(o))
         <= entries[o]["proceeds"] + entries'[o]["points"]
              + One(r \in Credited(o)') + One(r \in Crediting(o)')

LEMMA SettlementMoves ==
    ASSUME TypeOK, TypeOK', HistoryGrows, NEW o \in Orders, SettlementKept(o), NEW r,
           Crediting(o)' \ {r} = Crediting(o) \ {r},
           Credited(o)' \ {r} = Credited(o) \ {r},
           Balanced(o, r)
    PROVE  SettlementKept(o)'
<1> DEFINE C == Crediting(o)
           D == Credited(o)
           e == entries[o]
<1>1. /\ IsFiniteSet(C) /\ IsFiniteSet(D)
      /\ e["commission"] = e["points"] + Cardinality(D)
      /\ e["proceeds"] <= e["points"] + Cardinality(D) + Cardinality(C)
      /\ e["points"] > 0 => "COMPLETED" \in history[o]
  BY DEF SettlementKept
<1>2. /\ IsFiniteSet(C') /\ Cardinality(C) \in Nat /\ Cardinality(C') \in Nat
      /\ Cardinality(C') + One(r \in C) = Cardinality(C) + One(r \in C')
  BY <1>1, Differ
<1>3. /\ IsFiniteSet(D') /\ Cardinality(D) \in Nat /\ Cardinality(D') \in Nat
      /\ Cardinality(D') + One(r \in D) = Cardinality(D) + One(r \in D')
  BY <1>1, Differ
<1>4. \A k \in {"commission", "points", "proceeds"} : e[k] \in Nat /\ (e')[k] \in Nat
  BY DEF TypeOK, EntryKinds
<1>5. /\ One(r \in C) \in Nat /\ One(r \in C') \in Nat
      /\ One(r \in D) \in Nat /\ One(r \in D') \in Nat
  BY DEF One
<1>6. /\ (e')["points"] > e["points"] => "COMPLETED" \in history'[o]
      /\ (e')["commission"] + e["points"] + One(r \in D)
           = e["commission"] + (e')["points"] + One(r \in D')
      /\ (e')["proceeds"] + e["points"] + One(r \in D) + One(r \in C)
           <= e["proceeds"] + (e')["points"] + One(r \in D') + One(r \in C')
  BY DEF Balanced
<1>7. "COMPLETED" \in history[o] => "COMPLETED" \in history'[o]
  BY DEF HistoryGrows
<1>8. /\ (e')["commission"] = (e')["points"] + Cardinality(D')
      /\ (e')["proceeds"] <= (e')["points"] + Cardinality(D') + Cardinality(C')
  <2> DEFINE c == e["commission"]
             p == e["points"]
             s == e["proceeds"]
             d == Cardinality(D)
             m == Cardinality(C)
             i == One(r \in D)
             j == One(r \in C)
             c1 == c'
             p1 == p'
             s1 == s'
             d1 == d'
             m1 == m'
             i1 == i'
             j1 == j'
  <2>1. /\ c \in Nat /\ p \in Nat /\ s \in Nat /\ c1 \in Nat /\ p1 \in Nat /\ s1 \in Nat
        /\ d \in Nat /\ m \in Nat /\ d1 \in Nat /\ m1 \in Nat
        /\ i \in Nat /\ j \in Nat /\ i1 \in Nat /\ j1 \in Nat
    BY <1>2, <1>3, <1>4, <1>5
  <2>2. c = p + d /\ s <= p + d + m
    BY <1>1
  <2>3. d1 + i = d + i1 /\ m1 + j = m + j1
    BY <1>2, <1>3
  <2>4. c1 + p + i = c + p1 + i1 /\ s1 + p + i + j <= s + p1 + i1 + j1
    BY <1>6
  <2> HIDE DEF c, p, s, d, m, i, j, c1, p1, s1, d1, m1, i1, j1
  <2>5. c1 = p1 + d1
    BY <2>1, <2>2, <2>3, <2>4
  <2>6. s1 <= p1 + d1 + m1
    BY <2>1, <2>2, <2>3, <2>4
  <2> QED
    BY <2>5, <2>6 DEF c, p, s, d, m, c1, p1, s1, d1, m1
<1>9. (e')["points"] > 0 => "COMPLETED" \in history'[o]
  BY <1>1, <1>4, <1>6, <1>7
<1> QED
  BY <1>2, <1>3, <1>8, <1>9 DEF SettlementKept

LEMMA SettlementStep ==
    ASSUME ~MayFail, Grounded, CreditsKnown, [Next]_vars, NEW o \in Orders, SettlementKept(o)
    PROVE  SettlementKept(o)'
<1>1. TypeOK /\ req \in [Requests -> RequestTypes]
  BY DEF Grounded, TypeOK
<1>2. TypeOK' /\ HistoryGrows
  BY <1>1, NextGrounded, HistoryStep DEF Grounded
<1>3. \A k \in {"commission", "points", "proceeds"} : entries[o][k] \in Nat /\ entries'[o][k] \in Nat
  BY <1>1, <1>2 DEF TypeOK, EntryKinds
<1>4. ASSUME NEW r \in Requests, Others(r)
      PROVE  /\ Crediting(o)' \ {r} = Crediting(o) \ {r}
             /\ Credited(o)' \ {r} = Credited(o) \ {r}
  BY <1>4 DEF Others, Crediting, Credited, At
\* The ledger's rows of a settlement stay: a request may only begin to owe some.
<1>5. ASSUME NEW r \in Requests, Others(r),
             \A k \in {"commission", "points", "proceeds"} : entries'[o][k] = entries[o][k],
             r \in Credited(o)' <=> r \in Credited(o),
             r \in Crediting(o) => r \in Crediting(o)'
      PROVE  SettlementKept(o)'
  <2>1. /\ Crediting(o)' \ {r} = Crediting(o) \ {r}
        /\ Credited(o)' \ {r} = Credited(o) \ {r}
    BY <1>4, <1>5
  <2>2. /\ One(r \in Credited(o)') = One(r \in Credited(o))
        /\ One(r \in Crediting(o)) <= One(r \in Crediting(o)')
        /\ \A b \in BOOLEAN : One(b) \in {0, 1}
    BY <1>5 DEF One
  <2> QED
    BY <1>1, <1>2, <1>3, <1>5, <2>1, <2>2, SettlementMoves DEF One, Balanced
<1>6. ASSUME UNCHANGED <<req, entries>>
      PROVE  SettlementKept(o)'
  <2>1. Crediting(o)' = Crediting(o) /\ Credited(o)' = Credited(o)
    BY <1>6 DEF Crediting, Credited, At
  <2> QED
    BY <1>2, <1>6, <2>1 DEF SettlementKept, HistoryGrows
<1>7. CASE \/ SameBooks /\ UNCHANGED req
           \/ \E p \in Payments : XenditStep(p)
  BY <1>6, <1>7 DEF SameBooks, XenditStep, InvoicePaid, InvoiceExpired, StrayExpired, PaymentExpired
<1>8. ASSUME NEW r \in Requests, Calls(r)
      PROVE  SettlementKept(o)'
  <2>1. r \notin Credited(o) /\ r \notin Crediting(o) /\ r \notin Credited(o)'
    BY <1>8 DEF Calls, Credited, Crediting, At, Idle
  <2> QED
    BY <1>5, <1>8, <2>1 DEF Calls, SameBooks
<1>9. ASSUME NEW r \in Requests, Leaves(r)
      PROVE  SettlementKept(o)'
  <2>1. r \notin Credited(o) /\ r \notin Crediting(o) /\ r \notin Credited(o)'
    BY <1>9 DEF Leaves, Owing, IdTaken, Credited, Crediting, At, Idle
  <2> QED
    BY <1>5, <1>9, <2>1 DEF Leaves, SameBooks
<1>10. ASSUME NEW r \in Requests, Works(r)
       PROVE  SettlementKept(o)'
  <2>1. CASE \/ ReadScale(r) \/ CancelLock(r) \/ CreateInvoice(r) \/ DebitFare(r) \/ CancelRefund(r)
             \/ PayWalletCommit(r) \/ RecordInvoice(r) \/ PaidCommit(r)
    <3>1. /\ req[r].op \notin {"complete", "idle"}
          /\ (\E pc : Continue(r, pc)) \/ Finish(r)
          /\ UNCHANGED entries \/ \E k \in {"fare", "refund"} : Book(req[r].order, k)
      BY <2>1
      DEF ReadScale, CancelLock, CreateInvoice, DebitFare, CancelRefund, PayWalletCommit,
          RecordInvoice, PaidCommit, At, bookVars
    <3>2. Others(r) /\ req'[r].op # "complete"
      BY <1>1, <3>1, ContinueGoesOn, FinishEnds DEF GoesOn, Idle
    <3>3. \A k \in {"commission", "points", "proceeds"} : entries'[o][k] = entries[o][k]
      BY <1>1, <3>1, Booked, InFlight DEF EntryKinds
    <3> QED
      BY <1>5, <3>1, <3>2, <3>3 DEF Credited, Crediting, At
  <2> DEFINE here == One(req[r].order = o)
  <2>2. here \in {0, 1}
    BY DEF One
  <2>3. ASSUME NEW k \in {"commission", "points", "proceeds"}, Book(req[r].order, k),
               req[r].op # "idle"
        PROVE  /\ entries'[o][k] = entries[o][k] + here
               /\ \A i \in {"commission", "points", "proceeds"} \ {k} : entries'[o][i] = entries[o][i]
    <3>1. req[r].order \in Orders
      BY <2>3, InFlight
    <3> QED
      BY <1>1, <1>3, <2>3, <3>1, Booked DEF EntryKinds, One
  <2>4. CASE CreditUser(r)
    <3>1. /\ At(r, "complete", "creditUser") /\ Continue(r, "creditCourier")
          /\ Book(req[r].order, "proceeds")
      BY <2>4 DEF CreditUser
    <3>2. GoesOn(r, "creditCourier")
      BY <1>1, <3>1, ContinueGoesOn
    <3>3. /\ r \notin Credited(o) /\ r \notin Credited(o)' /\ r \notin Crediting(o)
          /\ r \in Crediting(o)' <=> req[r].order = o
      BY <3>1, <3>2 DEF Credited, Crediting, At, GoesOn
    <3>4. /\ One(r \in Credited(o)) = 0 /\ One(r \in Credited(o)') = 0
          /\ One(r \in Crediting(o)) = 0 /\ One(r \in Crediting(o)') = here
      BY <3>3 DEF One
    <3>5. /\ entries'[o]["proceeds"] = entries[o]["proceeds"] + here
          /\ \A i \in {"commission", "points"} : entries'[o][i] = entries[o][i]
      BY <2>3, <3>1 DEF At
    <3>6. /\ Crediting(o)' \ {r} = Crediting(o) \ {r}
          /\ Credited(o)' \ {r} = Credited(o) \ {r}
      BY <1>4, <3>2 DEF GoesOn
    <3> HIDE DEF here
    <3> QED
      BY <1>1, <1>2, <1>3, <2>2, <3>4, <3>5, <3>6, SettlementMoves DEF Balanced
  <2>5. CASE CreditCourier(r)
    <3>1. /\ At(r, "complete", "creditCourier") /\ Continue(r, "commit")
          /\ Book(req[r].order, "commission")
      BY <2>5 DEF CreditCourier
    <3>2. GoesOn(r, "commit") /\ req[r].net # None
      BY <1>1, <3>1, ContinueGoesOn DEF CreditsKnown, At
    <3>3. /\ r \notin Credited(o) /\ r \notin Crediting(o)'
          /\ r \in Crediting(o) <=> req[r].order = o
          /\ r \in Credited(o)' <=> req[r].order = o
      BY <3>1, <3>2 DEF Credited, Crediting, At, GoesOn
    <3>4. /\ One(r \in Credited(o)) = 0 /\ One(r \in Credited(o)') = here
          /\ One(r \in Crediting(o)) = here /\ One(r \in Crediting(o)') = 0
      BY <3>3 DEF One
    <3>5. /\ entries'[o]["commission"] = entries[o]["commission"] + here
          /\ \A i \in {"proceeds", "points"} : entries'[o][i] = entries[o][i]
      BY <2>3, <3>1 DEF At
    <3>6. /\ Crediting(o)' \ {r} = Crediting(o) \ {r}
          /\ Credited(o)' \ {r} = Credited(o) \ {r}
      BY <1>4, <3>2 DEF GoesOn
    <3> HIDE DEF here
    <3> QED
      BY <1>1, <1>2, <1>3, <2>2, <3>4, <3>5, <3>6, SettlementMoves DEF Balanced
  <2>6. CASE Settles(r)
    <3>1. /\ At(r, "complete", "commit") /\ req[r].net # None /\ Finish(r)
          /\ Book(req[r].order, "points") /\ Log(req[r].order, "COMPLETED")
      BY <2>6 DEF Settles, SetStatus
    <3>2. Others(r) /\ req'[r] = Idle
      BY <1>1, <3>1, FinishEnds
    <3>3. /\ r \notin Credited(o)' /\ r \notin Crediting(o)' /\ r \notin Crediting(o)
          /\ r \in Credited(o) <=> req[r].order = o
      BY <3>1, <3>2 DEF Credited, Crediting, At, Idle
    <3>4. /\ One(r \in Credited(o)) = here /\ One(r \in Credited(o)') = 0
          /\ One(r \in Crediting(o)) = 0 /\ One(r \in Crediting(o)') = 0
      BY <3>3 DEF One
    <3>5. /\ entries'[o]["points"] = entries[o]["points"] + here
          /\ \A i \in {"proceeds", "commission"} : entries'[o][i] = entries[o][i]
      BY <2>3, <3>1 DEF At
    <3>6. here = 1 => "COMPLETED" \in history'[o]
      BY <1>1, <3>1 DEF One, Log, TypeOK
    <3>7. /\ Crediting(o)' \ {r} = Crediting(o) \ {r}
          /\ Credited(o)' \ {r} = Credited(o) \ {r}
      BY <1>4, <3>2
    <3> HIDE DEF here
    <3> QED
      BY <1>1, <1>2, <1>3, <2>2, <3>4, <3>5, <3>6, <3>7, SettlementMoves DEF Balanced
  <2> QED
    BY <1>10, <2>1, <2>4, <2>5, <2>6 DEF Works
<1> QED
  BY <1>1, <1>7, <1>8, <1>9, <1>10, StepKinds

SettlementsKept == \A o \in Orders : SettlementKept(o)

LEMMA InitSettlements == Init => CreditsKnown /\ SettlementsKept
<1> SUFFICES ASSUME Init PROVE CreditsKnown /\ SettlementsKept
  OBVIOUS
<1>1. ASSUME NEW o \in Orders
      PROVE  SettlementKept(o)
  <2>1. /\ Crediting(o) = {} /\ Credited(o) = {}
        /\ entries[o]["commission"] = 0 /\ entries[o]["points"] = 0 /\ entries[o]["proceeds"] = 0
    BY DEF Init, Crediting, Credited, At, Idle, EntryKinds
  <2> QED
    BY <2>1, FS_EmptySet DEF SettlementKept
<1> QED
  BY <1>1 DEF Init, CreditsKnown, SettlementsKept, Idle

\* A completed order is settled whole, in order: commission, then points and
\* COMPLETED.  Commission and points agree while no request completes the order
\* and as long as none dies between them (SettlementWhole).
THEOREM SettlementsWhole ==
    ASSUME ~MayFail
    PROVE  Spec => []SettlementWhole
<1>1. Grounded /\ CreditsKnown /\ [Next]_vars => CreditsKnown'
  BY CreditsStep DEF Grounded
<1>2. Grounded /\ CreditsKnown /\ SettlementsKept /\ [Next]_vars => SettlementsKept'
  BY SettlementStep DEF SettlementsKept
<1>3. SettlementsKept /\ TypeOK => SettlementWhole
  <2> SUFFICES ASSUME SettlementsKept, TypeOK, NEW o \in Orders,
                      \A r \in Requests : ~(req[r].order = o /\ req[r].op = "complete")
               PROVE  /\ entries[o]["commission"] = entries[o]["points"]
                      /\ entries[o]["proceeds"] <= entries[o]["points"]
                      /\ entries[o]["points"] > 0 => "COMPLETED" \in history[o]
    BY DEF SettlementWhole
  <2>1. Crediting(o) = {} /\ Credited(o) = {}
    BY DEF Crediting, Credited, At
  <2>2. Cardinality(Crediting(o)) = 0 /\ Cardinality(Credited(o)) = 0
    BY <2>1, FS_EmptySet
  <2>3. \A k \in {"commission", "points", "proceeds"} : entries[o][k] \in Nat
    BY DEF TypeOK, EntryKinds
  <2> QED
    BY <2>2, <2>3 DEF SettlementsKept, SettlementKept
<1> QED
  BY <1>1, <1>2, <1>3, InitSettlements, TypeCorrect, AlwaysGrounded, PTL DEF Spec

-----------------------------------------------------------------------------
(* Money and the timeline.                                                 *)

\* The stage that each stage of the timeline rests on.
Rests == [ON_GOING |-> "CREATED", ARRIVED |-> "ON_GOING", WEIGHING |-> "ARRIVED",
          WAITING_PAYMENT |-> "WEIGHING", PICKED_UP |-> "WEIGHING",
          DELIVERING |-> "PICKED_UP", COMPLETED |-> "DELIVERING"]

Staged(o) ==
    /\ history[o] # {} => "CREATED" \in history[o]
    /\ \A s \in DOMAIN Rests : s \in history[o] => Rests[s] \in history[o]

\* The stage at which each kind of money is first booked.
BookedAt == [proceeds |-> "DELIVERING", commission |-> "DELIVERING", points |-> "DELIVERING",
             fare |-> "WAITING_PAYMENT", refund |-> "WAITING_PAYMENT"]

Justified(o) == \A k \in EntryKinds : entries[o][k] > 0 => BookedAt[k] \in history[o]

\* A timeline as Lifecycle lets it grow.
LEMMA StageAdded ==
    ASSUME NEW o \in Orders, Staged(o), NEW s, history'[o] = history[o] \union {s},
           \/ s = "CREATED"
           \/ s \in {"MATCHED", "ON_GOING", "REASSIGNING"} /\ "CREATED" \in history[o]
           \/ s \in DOMAIN LC!LeadsTo /\ LC!LeadsTo[s] \intersect history[o] # {}
    PROVE  Staged(o)'
<1>1. "CREATED" \in history[o] \/ s = "CREATED"
  BY DEF Staged
<1>2. s \in DOMAIN Rests => Rests[s] \in history[o]
  BY DEF Staged, Rests, LC!LeadsTo
<1>3. ASSUME NEW t \in DOMAIN Rests, t \in history'[o]
      PROVE  Rests[t] \in history'[o]
  BY <1>2, <1>3 DEF Staged
<1> QED
  BY <1>1, <1>3 DEF Staged

\* The timelines of Orders do, since Orders implements Lifecycle.
LEMMA StagesStep ==
    ASSUME history \in [Orders -> SUBSET Statuses], [LC!Next]_(LC!vars), NEW o \in Orders,
           Staged(o)
    PROVE  Staged(o)'
<1>1. CASE UNCHANGED history
  BY <1>1 DEF Staged
<1>2. ASSUME NEW q \in Orders, NEW s, LC!Add(q, s),
             \/ s = "CREATED"
             \/ s \in {"MATCHED", "ON_GOING", "REASSIGNING"} /\ (Staged(q) => "CREATED" \in history[q])
             \/ s \in DOMAIN LC!LeadsTo /\ LC!LeadsTo[s] \intersect history[q] # {}
      PROVE  Staged(o)'
  <2>1. CASE q = o
    <3>1. history'[o] = history[o] \union {s}
      BY <1>2, <2>1 DEF LC!Add
    <3>3. Staged(q)
      BY <2>1
    <3> QED
      BY <1>2, <2>1, <3>1, <3>3, StageAdded
  <2>2. CASE q # o
    BY <1>2, <2>2 DEF LC!Add, Staged
  <2> QED
    BY <2>1, <2>2
<1>3. ASSUME NEW q \in Orders, LC!Place(q)
      PROVE  Staged(o)'
  BY <1>2, <1>3 DEF LC!Place
<1>4. ASSUME NEW q \in Orders, NEW s \in DOMAIN LC!LeadsTo, LC!Advance(q, s)
      PROVE  Staged(o)'
  BY <1>2, <1>4 DEF LC!Advance
<1>5. ASSUME NEW q \in Orders, NEW c \in Couriers, LC!Claim(q, c)
      PROVE  Staged(o)'
  <2>1. PICK s \in {"MATCHED", "ON_GOING"} : LC!Add(q, s)
    BY <1>5 DEF LC!Claim
  <2> QED
    BY <1>2, <1>5, <2>1 DEF LC!Claim
<1>6. ASSUME NEW q \in Orders, LC!Release(q)
      PROVE  Staged(o)'
  <2>1. Staged(q) => "CREATED" \in history[q]
    BY <1>6 DEF LC!Release, Staged
  <2> QED
    BY <1>2, <1>6, <2>1 DEF LC!Release
<1>7. ASSUME NEW q \in Orders, LC!PayProceeds(q) \/ LC!Refund(q)
      PROVE  Staged(o)'
  BY <1>1, <1>7 DEF LC!PayProceeds, LC!Refund
<1> QED
  BY <1>1, <1>3, <1>4, <1>5, <1>6, <1>7 DEF LC!Next, LC!vars

\* What is booked is booked at its stage or later.
LEMMA JustifiedStep ==
    ASSUME Grounded, [Next]_vars, NEW o \in Orders, Justified(o)
    PROVE  Justified(o)'
<1>1. TypeOK /\ TypeOK' /\ HistoryGrows /\ req \in [Requests -> RequestTypes]
  BY NextGrounded, HistoryStep DEF Grounded, TypeOK
<1>2. CASE UNCHANGED entries
  BY <1>1, <1>2 DEF Justified, HistoryGrows, BookedAt, EntryKinds
<1>3. ASSUME NEW r \in Requests, NEW kind \in EntryKinds, Book(req[r].order, kind),
             req[r].order \in Orders, BookedAt[kind] \in history[req[r].order]
      PROVE  Justified(o)'
  <2>1. ASSUME NEW k \in EntryKinds, entries'[o][k] > 0
        PROVE  BookedAt[k] \in history'[o]
    <3>1. CASE entries'[o][k] = entries[o][k]
      BY <1>1, <2>1, <3>1 DEF Justified, HistoryGrows
    <3>2. CASE entries'[o][k] # entries[o][k]
      <4>1. o = req[r].order /\ k = kind
        BY <1>1, <1>3, <3>2, Booked
      <4> QED
        BY <1>1, <1>3, <4>1 DEF HistoryGrows
    <3> QED
      BY <3>1, <3>2
  <2> QED
    BY <2>1 DEF Justified
<1>4. ASSUME NEW r \in Requests, Works(r)
      PROVE  Justified(o)'
  <2>1. \/ UNCHANGED entries
        \/ \E kind \in {"proceeds", "commission", "points"} :
              Book(req[r].order, kind) /\ req[r].op = "complete"
        \/ Book(req[r].order, "fare") /\ req[r].op = "payWallet"
        \/ Book(req[r].order, "refund") /\ req[r].op = "cancel" /\ req[r].pc = "refund"
    BY <1>4
    DEF Works, ReadScale, CancelLock, CreditUser, CreditCourier, Settles, DebitFare,
        PayWalletCommit, CreateInvoice, RecordInvoice, PaidCommit, CancelRefund, At, bookVars
  <2>2. ASSUME req[r].op # "idle"
        PROVE  /\ req[r].order \in Orders
               /\ req[r].op = "complete" => "DELIVERING" \in history[req[r].order]
               /\ req[r].op = "payWallet" \/ req[r].pc = "refund"
                    => "WAITING_PAYMENT" \in history[req[r].order]
    <3>1. RequestGrounded(r)
      BY <2>2, InFlight
    <3> QED
      BY <3>1 DEF RequestGrounded, Basis
  <2>3. CASE \E kind \in {"proceeds", "commission", "points"} :
               Book(req[r].order, kind) /\ req[r].op = "complete"
    <3>1. PICK kind \in {"proceeds", "commission", "points"} :
            Book(req[r].order, kind) /\ req[r].op = "complete"
      BY <2>3
    <3>2. kind \in EntryKinds /\ BookedAt[kind] = "DELIVERING"
      BY DEF EntryKinds, BookedAt
    <3> QED
      BY <1>3, <2>2, <3>1, <3>2
  <2>4. CASE Book(req[r].order, "fare") /\ req[r].op = "payWallet"
    <3>1. "fare" \in EntryKinds /\ BookedAt["fare"] = "WAITING_PAYMENT"
      BY DEF EntryKinds, BookedAt
    <3> QED
      BY <1>3, <2>2, <2>4, <3>1
  <2>5. CASE Book(req[r].order, "refund") /\ req[r].op = "cancel" /\ req[r].pc = "refund"
    <3>1. "refund" \in EntryKinds /\ BookedAt["refund"] = "WAITING_PAYMENT"
      BY DEF EntryKinds, BookedAt
    <3> QED
      BY <1>3, <2>2, <2>5, <3>1
  <2> QED
    BY <1>2, <2>1, <2>3, <2>4, <2>5
<1>5. ASSUME \/ SameBooks /\ UNCHANGED req
             \/ \E r \in Requests : Calls(r) \/ Leaves(r)
             \/ \E p \in Payments : XenditStep(p)
      PROVE  UNCHANGED entries
  BY <1>5 DEF SameBooks, Calls, Leaves, XenditStep, InvoicePaid, InvoiceExpired, StrayExpired, PaymentExpired
<1> QED
  BY <1>1, <1>2, <1>4, <1>5, StepKinds

TimelinesKept == \A o \in Orders : Staged(o) /\ Justified(o)

\* Completed and paid orders were worked for (WorkPrecedesMoney), whatever runs
\* against them: each handler books at a stage that its guards have read, and the
\* timeline has every stage before it, as Lifecycle has it.
THEOREM WorkIsDone == Spec => []WorkPrecedesMoney
<1>1. Init => TimelinesKept
  BY DEF Init, TimelinesKept, Staged, Justified, EntryKinds
<1>2. Grounded /\ TimelinesKept /\ [Next]_vars => TimelinesKept'
  <2> SUFFICES ASSUME Grounded, TimelinesKept, [Next]_vars, NEW o \in Orders
               PROVE  Staged(o)' /\ Justified(o)'
    BY DEF TimelinesKept
  <2>1. history \in [Orders -> SUBSET Statuses] /\ [LC!Next]_(LC!vars)
    BY NextImplements DEF Grounded, TypeOK
  <2> QED
    BY <2>1, StagesStep, JustifiedStep DEF TimelinesKept
<1>3. TimelinesKept => WorkPrecedesMoney
  <2> SUFFICES ASSUME TimelinesKept, NEW o \in Orders
               PROVE  /\ "COMPLETED" \in history[o]
                         \/ (\E k \in {"proceeds", "commission", "points"} : entries[o][k] > 0)
                           => {"CREATED", "ON_GOING", "ARRIVED", "WEIGHING", "PICKED_UP", "DELIVERING"}
                                \subseteq history[o]
                      /\ entries[o]["fare"] > 0 \/ entries[o]["refund"] > 0
                           => {"CREATED", "ON_GOING", "ARRIVED", "WEIGHING", "WAITING_PAYMENT"}
                                \subseteq history[o]
    BY DEF WorkPrecedesMoney
  <2>1. /\ "COMPLETED" \in history[o] => "DELIVERING" \in history[o]
        /\ "DELIVERING" \in history[o] => "PICKED_UP" \in history[o]
        /\ "PICKED_UP" \in history[o] \/ "WAITING_PAYMENT" \in history[o] => "WEIGHING" \in history[o]
        /\ "WEIGHING" \in history[o] => "ARRIVED" \in history[o]
        /\ "ARRIVED" \in history[o] => "ON_GOING" \in history[o]
        /\ "ON_GOING" \in history[o] => "CREATED" \in history[o]
    BY DEF TimelinesKept, Staged, Rests
  <2>2. /\ (\E k \in {"proceeds", "commission", "points"} : entries[o][k] > 0)
             => "DELIVERING" \in history[o]
        /\ entries[o]["fare"] > 0 \/ entries[o]["refund"] > 0 => "WAITING_PAYMENT" \in history[o]
    BY DEF TimelinesKept, Justified, BookedAt, EntryKinds
  <2> QED
    BY <2>1, <2>2
<1> QED
  BY <1>1, <1>2, <1>3, AlwaysGrounded, PTL DEF Spec
=============================================================================
