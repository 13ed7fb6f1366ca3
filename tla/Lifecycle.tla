----------------------------- MODULE Lifecycle -----------------------------
(***************************************************************************)
(* What an order promises to everyone who looks at it, whatever requests,  *)
(* broadcasts and webhooks run against it at the same time:                *)
(*                                                                         *)
(*   - its timeline never shows a stage without a stage that leads to it;  *)
(*   - a courier who has claimed it is replaced only after a release, and  *)
(*     only an order that was once MATCHED is released;                    *)
(*   - sale proceeds are credited only once it was being delivered, and a  *)
(*     refund is made only once a payment was asked for.                   *)
(*                                                                         *)
(* Orders implements this specification (Orders!ImplementsLifecycle), with *)
(* every read and every write of every handler interleaved.                *)
(***************************************************************************)
EXTENDS Integers

CONSTANTS Orders, Couriers, None

VARIABLES
    reached,   \* the stages on each order's timeline
    holder,    \* the courier that holds each order, or None
    proceeds,  \* sale proceeds credited for each order, a number of ledger rows
    refunds    \* refunds credited for each order, a number of ledger rows

vars == <<reached, holder, proceeds, refunds>>

\* The stages from which each stage of the timeline may be reached.
LeadsTo ==
    [MATCHED         |-> {"CREATED"},
     ON_GOING        |-> {"CREATED", "MATCHED"},
     REASSIGNING     |-> {"MATCHED"},
     ARRIVED         |-> {"ON_GOING"},
     WEIGHING        |-> {"ARRIVED"},
     WAITING_PAYMENT |-> {"WEIGHING"},
     PICKED_UP       |-> {"WEIGHING", "WAITING_PAYMENT"},
     DELIVERING      |-> {"PICKED_UP"},
     COMPLETED       |-> {"DELIVERING"},
     CANCELLED       |-> {"CREATED"}]

Add(o, s) == reached' = [reached EXCEPT ![o] = @ \union {s}]

Init ==
    /\ reached = [o \in Orders |-> {}]
    /\ holder = [o \in Orders |-> None]
    /\ proceeds = [o \in Orders |-> 0]
    /\ refunds = [o \in Orders |-> 0]

Place(o) ==
    /\ reached[o] = {}
    /\ Add(o, "CREATED")
    /\ UNCHANGED <<holder, proceeds, refunds>>

Advance(o, s) ==
    /\ LeadsTo[s] \intersect reached[o] # {}
    /\ Add(o, s)
    /\ UNCHANGED <<holder, proceeds, refunds>>

Claim(o, c) ==
    /\ holder[o] \in {None, c}
    /\ "CREATED" \in reached[o]
    /\ holder' = [holder EXCEPT ![o] = c]
    /\ \E s \in {"MATCHED", "ON_GOING"} : Add(o, s)
    /\ UNCHANGED <<proceeds, refunds>>

Release(o) ==
    /\ "MATCHED" \in reached[o]
    /\ holder' = [holder EXCEPT ![o] = None]
    /\ Add(o, "REASSIGNING")
    /\ UNCHANGED <<proceeds, refunds>>

PayProceeds(o) ==
    /\ "DELIVERING" \in reached[o]
    /\ proceeds' = [proceeds EXCEPT ![o] = @ + 1]
    /\ UNCHANGED <<reached, holder, refunds>>

Refund(o) ==
    /\ "WAITING_PAYMENT" \in reached[o]
    /\ refunds' = [refunds EXCEPT ![o] = @ + 1]
    /\ UNCHANGED <<reached, holder, proceeds>>

Next ==
    \E o \in Orders :
        \/ Place(o)
        \/ \E s \in DOMAIN LeadsTo : Advance(o, s)
        \/ \E c \in Couriers : Claim(o, c)
        \/ Release(o)
        \/ PayProceeds(o)
        \/ Refund(o)

Spec == Init /\ [][Next]_vars
=============================================================================
