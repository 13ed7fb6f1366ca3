------------------------------- MODULE Orders -------------------------------
(***************************************************************************)
(* OrdersService with everything that runs against its rows: requests of   *)
(* owners, couriers and admins, broadcasts, and Xendit's callbacks, each   *)
(* interleaved at every await.                                             *)
(***************************************************************************)
EXTENDS CourierFlow, UserFlow

Init ==
    /\ order = [o \in Orders |-> NoRow]
    /\ history = [o \in Orders |-> {}]
    /\ scale = [o \in Orders |-> "none"]
    /\ offered = [o \in Orders |-> FALSE]
    /\ search = [s \in Searches |-> Quiet]
    /\ payment = [p \in Payments |-> NoPayment]
    /\ invoice = [p \in Payments |-> NoInvoice]
    /\ entries = [o \in Orders |-> [k \in EntryKinds |-> 0]]
    /\ req = [r \in Requests |-> Idle]

\* A call arrives: the caller's choice, never owed.
Arrive(r) ==
    \/ \E o \in Orders : UserRead(r, o)
    \/ \E o \in Orders, c \in Couriers : CourierRead(r, o, c)
    \/ \E p \in Payments : PaidRead(r, p)

\* A request in flight takes its next step.
Proceed(r) == CourierStep(r) \/ UserStep(r)

Next ==
    \/ \E o \in Orders, schedule \in Schedules, s \in Searches : Create(o, schedule, s)
    \/ \E r \in Requests : Arrive(r) \/ Proceed(r) \/ Drop(r)
    \/ \E s \in Searches : SearchStep(s) \/ LoseSearch(s)
    \/ \E p \in Payments : XenditStep(p)

Spec == Init /\ [][Next]_vars

(***************************************************************************)
(* Node's event loop runs every continuation that is ready: a request in   *)
(* flight and a search in flight take their next step.  Xendit repeats a   *)
(* callback until it is answered; its request competes for a slot of the   *)
(* model with other calls, hence strong fairness.  Nobody has to call.     *)
(***************************************************************************)
Fairness ==
    /\ \A r \in Requests : WF_vars(Proceed(r))
    /\ \A s \in Searches : WF_vars(SearchStep(s))
    /\ \A p \in Payments : SF_vars(\E r \in Requests : PaidRead(r, p))

FairSpec == Spec /\ Fairness

-----------------------------------------------------------------------------
(* Safety.                                                                 *)

RequestTypes ==
    [op : Operations \union {"idle"}, pc : Steps, order : Orders \union {None},
     actor : Couriers \union Roles \union {None}, pay : Payments \union {None},
     seen : Statuses \union {"NONE"}, net : NetValues \union {None}]

\* Every variable stays within its type.
TypeOK ==
    /\ order \in [Orders -> Rows]
    /\ history \in [Orders -> SUBSET Statuses]
    /\ scale \in [Orders -> {"none", "weights", "text"}]
    /\ offered \in [Orders -> BOOLEAN]
    /\ search \in [Searches -> [stage : Stages, order : Orders \union {None}]]
    /\ payment \in [Payments -> [status : {"NONE", "PENDING", "PAID", "EXPIRED"},
                                 method : {"NONE", "WALLET", "XENDIT"},
                                 order : Orders \union {None}]]
    /\ invoice \in [Payments -> [own : {"NONE", "OPEN", "PAID", "EXPIRED"},
                                 stray : SUBSET Requests, lapsed : BOOLEAN]]
    /\ entries \in [Orders -> [EntryKinds -> Nat]]
    /\ req \in [Requests -> RequestTypes]

\* An instant order is never shown as MATCHED, and a scheduled one is on its
\* way only after it was: acceptOrder and depart agree on the schedule however
\* accepts, rejects and departs of several couriers interleave.
ScheduleRespected ==
    \A o \in Orders :
        /\ order[o].schedule = "INSTANT" => "MATCHED" \notin history[o]
        /\ order[o].schedule = "SCHEDULED" /\ "ON_GOING" \in history[o]
             => "MATCHED" \in history[o]

\* The wallet payments recorded as PAID for an order.
WalletPaid(o) ==
    {p \in Payments : payment[p].status = "PAID" /\ payment[p].method = "WALLET"
                        /\ payment[p].order = o}

\* No payment is recorded as PAID without the money: each wallet payment has a
\* fare debited, each Xendit payment its own invoice paid, whatever dies in
\* between, however often and in whichever order the callbacks come, and with
\* external ids that two calls share.
PaidIsFunded ==
    /\ \A o \in Orders : Cardinality(WalletPaid(o)) <= entries[o]["fare"]
    /\ \A p \in Payments :
           payment[p].status = "PAID" /\ payment[p].method = "XENDIT" => invoice[p].own = "PAID"

\* The payment p of which the money came in, and which says so, unless another
\* invoice with its external id has expired: that callback finds the wrong row.
Backing(p) ==
    /\ payment[p].method = "WALLET" \/ invoice[p].own = "PAID"
    /\ payment[p].status = "PAID" \/ invoice[p].lapsed

\* A refund is made only for an order with a payment that came in, and the row
\* keeps saying PAID, whatever callbacks and cancels come later, as long as no
\* second invoice was made under its external id.
RefundIsBacked ==
    \A o \in Orders :
        entries[o]["refund"] > 0 => \E p \in Payments : payment[p].order = o /\ Backing(p)

\* While no request is paying for an order from the wallet, the fares debited
\* and the wallet payments recorded agree: payOrder's two transactions leave no
\* fare without a payment (as long as no request dies between them).
FaresRecorded ==
    \A o \in Orders :
        (\A r \in Requests : ~(req[r].order = o /\ req[r].op = "payWallet"))
          => entries[o]["fare"] = Cardinality(WalletPaid(o))

\* While no request is completing an order, its settlement is whole: commission
\* and points were booked the same number of times, sale proceeds at most as
\* often, and an order with any of them is shown as completed.
SettlementWhole ==
    \A o \in Orders :
        (\A r \in Requests : ~(req[r].order = o /\ req[r].op = "complete"))
          => /\ entries[o]["commission"] = entries[o]["points"]
             /\ entries[o]["proceeds"] <= entries[o]["points"]
             /\ entries[o]["points"] > 0 => "COMPLETED" \in history[o]

\* Nobody is paid for work that was not done: an order is completed, and its
\* proceeds, commission and points are booked, only after a courier was on the
\* way, arrived, weighed, picked up and delivered; a fare and a refund follow a
\* weighing and a request for payment.
WorkPrecedesMoney ==
    \A o \in Orders :
        /\ "COMPLETED" \in history[o] \/ (\E k \in {"proceeds", "commission", "points"} : entries[o][k] > 0)
             => {"CREATED", "ON_GOING", "ARRIVED", "WEIGHING", "PICKED_UP", "DELIVERING"}
                  \subseteq history[o]
        /\ entries[o]["fare"] > 0 \/ entries[o]["refund"] > 0
             => {"CREATED", "ON_GOING", "ARRIVED", "WEIGHING", "WAITING_PAYMENT"} \subseteq history[o]

\* An order that a courier is at work on has a courier.  Only true while the
\* requests of an order come one at a time (SerialProofs): a transition that was
\* read before a reject and written after it leaves an order at work with nobody
\* assigned.
WorkHasCourier ==
    \A o \in Orders :
        order[o].status \notin {"NONE", "CREATED", "CANCELLED"} => order[o].courier # None

\* Each kind of money moves at most once for an order, and a refund follows a
\* fare.  Only true while the requests of an order come one at a time and
\* invoices are not used (SerialProofs): two requests that both read DELIVERING both pay out.
SettledOnce ==
    \A o \in Orders :
        /\ \A k \in EntryKinds : entries[o][k] <= 1
        /\ entries[o]["refund"] <= entries[o]["fare"]

-----------------------------------------------------------------------------
(* Action properties.                                                      *)

\* The changes of an order's status that are each role's to make: the courier
\* claims, gives back and works the stages off, the owner answers the weighing
\* and pays, and cancellations follow the table of order_flow_backlog.md:265-269.
Changes(a) ==
    IF a = "USER" THEN
        {<<"WEIGHING", "WAITING_PAYMENT">>, <<"WEIGHING", "PICKED_UP">>,
         <<"WAITING_PAYMENT", "PICKED_UP">>}
    ELSE IF a \in Couriers THEN
        {<<"CREATED", "MATCHED">>, <<"CREATED", "ON_GOING">>, <<"MATCHED", "MATCHED">>,
         <<"MATCHED", "CREATED">>, <<"MATCHED", "ON_GOING">>, <<"ON_GOING", "ARRIVED">>,
         <<"ARRIVED", "WEIGHING">>, <<"WEIGHING", "WEIGHING">>, <<"WEIGHING", "PICKED_UP">>,
         <<"WAITING_PAYMENT", "PICKED_UP">>, <<"PICKED_UP", "DELIVERING">>,
         <<"DELIVERING", "COMPLETED">>}
    ELSE {}

UserCancels == {"CREATED", "MATCHED", "ON_GOING"}

Cancels(a) ==
    IF a = "USER" THEN UserCancels
    ELSE IF a \in Couriers THEN {"MATCHED", "ON_GOING", "ARRIVED", "WEIGHING", "WAITING_PAYMENT"}
    ELSE Statuses \ {"COMPLETED", "CANCELLED"}

\* May the caller a bring an order from s to t?  The owner's cancellation from
\* WAITING_PAYMENT is the code's: the documents forbid it (UsersCancelEarly).
Entitled(a, s, t) ==
    \/ <<s, t>> \in Changes(a)
    \/ t = "CANCELLED" /\ s \in Cancels(a)
    \/ t = "CANCELLED" /\ s = "WAITING_PAYMENT" /\ a = "USER"

\* The changes of an order's status that are made for a caller by request r:
\* an accept reads again as it writes, the others rest on their first read.
MadeBy(r, o) ==
    /\ req[r].order = o
    /\ req'[r] = Idle
    /\ Entitled(req[r].actor,
                IF req[r].op = "accept" THEN order[o].status ELSE req[r].seen,
                order'[o].status)

\* Nobody gets an order where the role may not bring it: every change of status
\* is the placing of the order, or one that is the caller's to make from the
\* status the caller had read, whichever handlers commit in between; so a change
\* against the table has overwritten one.  Only the callback and the auto-cancel
\* write for nobody: they never look at the status.
ChangesAreEntitled ==
    [][\A o \in Orders :
         \/ order'[o].status = order[o].status
         \/ order[o].status = "NONE" /\ order'[o].status = "CREATED"
         \/ \E r \in Requests : MadeBy(r, o)
         \/ /\ order'[o].status = "PICKED_UP"
            /\ \E r \in Requests : At(r, "paid", "commit") /\ req[r].order = o /\ req'[r] = Idle
         \/ /\ order'[o].status = "CANCELLED"
            /\ \E s \in Searches :
                  search[s] = [stage |-> "giveUp", order |-> o] /\ search'[s] = Quiet]_vars

\* As the documents have it: an owner cancels only before the courier arrives.
\* The code does not: its list of blocked statuses lacks WAITING_PAYMENT.
UsersCancelEarly ==
    [][\A o \in Orders, r \in Requests :
         /\ req[r].op = "cancel" /\ req[r].actor = "USER" /\ req[r].order = o
         /\ req'[r] = Idle /\ order'[o].status = "CANCELLED"
         => order[o].status \in UserCancels]_vars

\* As the documents have it: the search's timeout cancels no order that has a
\* courier.  The code does not: the auto-cancel never reads the order again.
AssignedNotTimedOut ==
    [][\A s \in Searches :
         search[s].stage = "giveUp" /\ search'[s] = Quiet
           => order[search[s].order].courier = None]_vars

\* As the documents have it: an order the owner has to pay for is picked up
\* only once it is paid.  The code does not: the courier's pickup endpoint takes
\* it from WEIGHING or WAITING_PAYMENT to PICKED_UP.
PickedUpIsPaid ==
    \A o \in Orders :
        /\ order[o].status \in {"PICKED_UP", "DELIVERING", "COMPLETED"}
        /\ order[o].net # None
        /\ order[o].net < 0
        => HasPaid(o)

\* As the documents have it: a callback for a payment that is PAID changes
\* nothing.  The code does not: the check is made on an earlier read.
CallbackIsIdempotent ==
    [][\A r \in Requests :
         At(r, "paid", "commit") /\ req'[r] = Idle /\ payment[req[r].pay].status = "PAID"
           => order' = order]_vars

-----------------------------------------------------------------------------
(* Liveness.                                                               *)

\* Every request that got past its first read is answered, even while cancels
\* hold the row's lock.
RequestsFinish == \A r \in Requests : req[r] # Idle ~> req[r] = Idle

\* An order does not stay unanswered: it leaves CREATED or some courier was
\* told about it (as long as the process does not stop).
OrderAnswered ==
    \A o \in Orders :
        order[o].status = "CREATED" ~> order[o].status # "CREATED" \/ offered[o]

\* A paid invoice ends up as a PAID payment.
PaymentLands ==
    \A p \in Payments : invoice[p].own = "PAID" ~> payment[p].status = "PAID"

-----------------------------------------------------------------------------
(* The abstract lifecycle.                                                 *)

LC == INSTANCE Lifecycle WITH
        reached <- history,
        holder <- [o \in Orders |-> order[o].courier],
        proceeds <- [o \in Orders |-> entries[o]["proceeds"]],
        refunds <- [o \in Orders |-> entries[o]["refund"]]

\* The interleaved handlers implement the lifecycle: no stage without one that
\* leads to it, no courier replaced without a release, no proceeds before the
\* delivery and no refund before a payment was asked for.
ImplementsLifecycle == LC!Spec

-----------------------------------------------------------------------------
(* The inductive invariant behind the theorems of OrdersProofs.            *)

\* The stages on which the writes of each operation rest: what its guards have
\* read is on the timeline, and what is on the timeline stays there.
Basis ==
    [accept |-> {"CREATED"}, depart |-> {"MATCHED"}, arrive |-> {"ON_GOING"},
     pickup |-> {"WEIGHING", "WAITING_PAYMENT"}, deliver |-> {"PICKED_UP"},
     complete |-> {"DELIVERING"}, reject |-> {"MATCHED"},
     startWeighing |-> {"ARRIVED", "WEIGHING"}, submit |-> {"WEIGHING"},
     confirm |-> {"WEIGHING"}, cancel |-> {"CREATED"},
     payWallet |-> {"WAITING_PAYMENT"}, payInvoice |-> {"WAITING_PAYMENT"},
     paid |-> {"WAITING_PAYMENT"}]

RowsLogged ==
    \A o \in Orders :
        IF order[o].status = "NONE"
        THEN history[o] = {} /\ order[o].courier = None
        ELSE {"CREATED", order[o].status} \subseteq history[o]

RequestGrounded(r) ==
    /\ req[r].order \in Orders
    /\ Basis[req[r].op] \intersect history[req[r].order] # {}
    /\ "CREATED" \in history[req[r].order]
    /\ req[r].op = "accept" => req[r].actor \in Couriers
    /\ req[r].op = "paid" => req[r].pay \in Payments /\ payment[req[r].pay].status # "NONE"
    /\ req[r].pc \in {"refund", "refunded"} => "WAITING_PAYMENT" \in history[req[r].order]

RequestsGrounded == \A r \in Requests : req[r].op # "idle" => RequestGrounded(r)

PaymentsGrounded ==
    \A p \in Payments :
        payment[p].status # "NONE"
          => payment[p].order \in Orders /\ "WAITING_PAYMENT" \in history[payment[p].order]

SearchesGrounded ==
    \A s \in Searches :
        search[s].stage # "idle"
          => search[s].order \in Orders /\ "CREATED" \in history[search[s].order]

Grounded ==
    /\ TypeOK
    /\ RowsLogged
    /\ RequestsGrounded
    /\ PaymentsGrounded
    /\ SearchesGrounded
    /\ ScheduleRespected
=============================================================================
