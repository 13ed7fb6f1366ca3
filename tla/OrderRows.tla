----------------------------- MODULE OrderRows -----------------------------
(***************************************************************************)
(* The rows the order handlers share, and what is common to the handlers.  *)
(*                                                                         *)
(* Every handler of OrdersService first reads the order row, checks its    *)
(* guards on what it read, awaits, and then writes in a transaction that   *)
(* names only the order's id: nothing is checked again.  PostgreSQL runs   *)
(* at READ COMMITTED, so another handler may commit between the two.  A    *)
(* request in flight is a slot `req[r]' that carries the row it read.      *)
(***************************************************************************)
EXTENDS Integers, FiniteSets

CONSTANTS
    Orders,      \* order ids
    Couriers,    \* courier ids
    Requests,    \* slots for requests in flight at the same time (a bound)
    Searches,    \* slots for broadcasts in flight at the same time (a bound)
    Payments,    \* external ids of payment rows and of their Xendit invoices (a bound)
    NetValues,   \* the net totals a weighing may come to
    MaxEntries,  \* no new booking call once an order has this many rows of a kind (a bound)
    Endpoints,   \* the operations that are called
    MayFail,     \* may a request or a broadcast die between two of its steps?
    None         \* SQL NULL

Roles == {"USER", "ADMIN", "XENDIT"}

ASSUME NoneAssumption ==
    /\ None \notin Orders \union Couriers \union Payments \union Int \union Roles
    /\ Couriers \intersect Roles = {}
ASSUME NetAssumption == NetValues \subseteq Int
ASSUME BoundAssumption == MaxEntries \in Nat /\ MayFail \in BOOLEAN

VARIABLES
    order,    \* orders: the row of each order
    history,  \* order_status_histories: the statuses logged for each order
    scale,    \* note of the newest WEIGHING row: "none", "weights" (JSON) or "text"
    offered,  \* has a courier been pushed a NEW_ORDER notification?
    search,   \* broadcastToCouriers runs in flight
    payment,  \* payments: the row with each external id
    invoice,  \* Xendit's invoices under each external id
    entries,  \* wallet and point ledger: number of rows of each kind per order
    req       \* requests in flight

rowVars == <<order, history, scale>>
searchVars == <<search, offered>>
bookVars == <<payment, invoice, entries>>
vars == <<rowVars, searchVars, bookVars, req>>

Statuses == {"CREATED", "MATCHED", "ON_GOING", "ARRIVED", "WEIGHING",
             "WAITING_PAYMENT", "PICKED_UP", "DELIVERING", "COMPLETED",
             "CANCELLED", "REASSIGNING"}

Schedules == {"INSTANT", "SCHEDULED"}

\* The net total is None until a weighing is submitted.  "NONE" is the status
\* of an order that is not placed yet.
Rows == [status : Statuses \union {"NONE"}, courier : Couriers \union {None},
         net : NetValues \union {None}, schedule : Schedules]

NoRow == [status |-> "NONE", courier |-> None, net |-> None, schedule |-> "INSTANT"]

ValidTransitions ==
    {<<"CREATED", "MATCHED">>, <<"CREATED", "CANCELLED">>,
     <<"MATCHED", "MATCHED">>, <<"MATCHED", "ON_GOING">>,
     <<"MATCHED", "REASSIGNING">>, <<"MATCHED", "CANCELLED">>,
     <<"ON_GOING", "ARRIVED">>, <<"ON_GOING", "CANCELLED">>,
     <<"ARRIVED", "WEIGHING">>, <<"ARRIVED", "CANCELLED">>,
     <<"WEIGHING", "WAITING_PAYMENT">>, <<"WEIGHING", "PICKED_UP">>,
     <<"WAITING_PAYMENT", "PICKED_UP">>,
     <<"PICKED_UP", "DELIVERING">>, <<"DELIVERING", "COMPLETED">>,
     <<"REASSIGNING", "MATCHED">>, <<"REASSIGNING", "CANCELLED">>}

-----------------------------------------------------------------------------
(* Requests in flight.                                                     *)

Operations == {"accept", "depart", "arrive", "pickup", "deliver", "complete",
               "reject", "startWeighing", "submit", "confirm", "cancel",
               "payWallet", "payInvoice", "paid"}

\* What a request does next.  A request at "refund" or "refunded" is inside
\* cancelOrder's transaction, which has updated the order and not committed.
Steps == {"idle", "readScale", "debit", "invoice", "creditUser",
          "creditCourier", "refund", "refunded", "commit"}

Idle == [op |-> "idle", pc |-> "idle", order |-> None, actor |-> None,
         pay |-> None, seen |-> "NONE", net |-> None]

\* The calls that end in new ledger rows.
Booking == {"complete", "cancel", "payWallet"}

EntryKinds == {"proceeds", "commission", "points", "fare", "refund"}

\* A call arrives, reads order o and passes its guards (the caller's conjuncts).
Begin(r, op, pc, o, actor, pay) ==
    /\ req[r] = Idle
    /\ op \in Endpoints
    /\ order[o].status # "NONE"
    /\ op \in Booking => \A k \in EntryKinds : entries[o][k] < MaxEntries
    /\ req' = [req EXCEPT ![r] = [op |-> op, pc |-> pc, order |-> o,
                                  actor |-> actor, pay |-> pay,
                                  seen |-> order[o].status, net |-> order[o].net]]
    /\ UNCHANGED <<rowVars, searchVars, bookVars>>

At(r, op, pc) == req[r].op = op /\ req[r].pc = pc

Continue(r, pc) == req' = [req EXCEPT ![r].pc = pc]

Finish(r) == req' = [req EXCEPT ![r] = Idle]

\* A guard that fails after the first step: the request answers with an error.
Refuse(r) == Finish(r) /\ UNCHANGED <<rowVars, searchVars, bookVars>>

\* cancelOrder holds the row's lock from its update until its commit.
Locked(o) == \E r \in Requests : req[r].order = o /\ req[r].pc \in {"refund", "refunded"}

\* A request dies between two steps: the process restarts, the caller's
\* transaction times out, or a query throws.  What it committed stays.
Drop(r) ==
    /\ MayFail
    /\ req[r] # Idle
    /\ Refuse(r)

-----------------------------------------------------------------------------
(* Writes.                                                                 *)

Log(o, s) == history' = [history EXCEPT ![o] = @ \union {s}]

\* order.update({status: s}) with its history row.
SetStatus(o, s) ==
    /\ order' = [order EXCEPT ![o].status = s]
    /\ Log(o, s)

Book(o, kind) == entries' = [entries EXCEPT ![o][kind] = @ + 1]
=============================================================================
