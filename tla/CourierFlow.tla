---------------------------- MODULE CourierFlow ----------------------------
(***************************************************************************)
(* The courier's handlers: accept, the status transitions of the couriers  *)
(* controller, reject, and the two steps of the weighing.  c is the        *)
(* courier of the calling user.                                            *)
(***************************************************************************)
EXTENDS Broadcast

-----------------------------------------------------------------------------
(* acceptOrder.                                                            *)

AcceptRead(r, o, c) ==
    /\ order[o].courier \in {None, c}
    /\ Begin(r, "accept", "commit", o, c, None)

\* Mutant: the conditional update looks at the status alone.
BugClaimable(o, c) == order[o].status \in {"CREATED", "MATCHED"}

Claimable(o, c) ==
    /\ order[o].courier \in {None, c}
    /\ order[o].status \in {"CREATED", "MATCHED"}

\* Mutants: a status the enumeration lacks; no shortcut for instant orders.
BugUnknownStatus(schedule) == "ACCEPTED"
BugNoShortcut(schedule) == "MATCHED"

AcceptedStatus(schedule) == IF schedule = "INSTANT" THEN "ON_GOING" ELSE "MATCHED"

Claim(r) ==
    LET o == req[r].order
        c == req[r].actor
        target == AcceptedStatus(order[o].schedule)
    IN  /\ At(r, "accept", "commit")
        /\ ~Locked(o)
        /\ Claimable(o, c)
        /\ order' = [order EXCEPT ![o].courier = c, ![o].status = target]
        /\ Log(o, target)
        /\ Finish(r)
        /\ UNCHANGED <<scale, searchVars, bookVars>>

\* updateMany matched no row.
ClaimTooLate(r) ==
    /\ At(r, "accept", "commit")
    /\ ~Locked(req[r].order)
    /\ ~Claimable(req[r].order, req[r].actor)
    /\ Refuse(r)

-----------------------------------------------------------------------------
(* transitionOrderStatus, from the endpoint that asks for each status.     *)

Target == [depart |-> "ON_GOING", arrive |-> "ARRIVED", pickup |-> "PICKED_UP",
           deliver |-> "DELIVERING", complete |-> "COMPLETED"]

\* A completed order whose net total is known is settled before the commit.
FirstStep(op, row) ==
    IF op # "complete" \/ row.net = None THEN "commit"
    ELSE IF row.net >= 0 THEN "creditUser" ELSE "creditCourier"

\* Mutant: the transition table is not consulted.
BugTransitionRead(r, op, o, c) ==
    /\ order[o].courier = c
    /\ Begin(r, op, FirstStep(op, order[o]), o, c, None)

TransitionRead(r, op, o, c) ==
    /\ order[o].courier = c
    /\ <<order[o].status, Target[op]>> \in ValidTransitions
    /\ Begin(r, op, FirstStep(op, order[o]), o, c, None)

\* Mutant: who sells pays no commission to the courier.
BugCreditUser(r) ==
    /\ At(r, "complete", "creditUser")
    /\ Book(req[r].order, "proceeds")
    /\ Continue(r, "commit")
    /\ UNCHANGED <<rowVars, searchVars, payment, invoice>>

\* The sale proceeds, in a transaction of the wallet's own.
CreditUser(r) ==
    /\ At(r, "complete", "creditUser")
    /\ Book(req[r].order, "proceeds")
    /\ Continue(r, "creditCourier")
    /\ UNCHANGED <<rowVars, searchVars, payment, invoice>>

\* The courier's commission, in a transaction of the wallet's own.
CreditCourier(r) ==
    /\ At(r, "complete", "creditCourier")
    /\ Book(req[r].order, "commission")
    /\ Continue(r, "commit")
    /\ UNCHANGED <<rowVars, searchVars, payment, invoice>>

\* The history row, the points of a settled order and the status.  There are
\* points for whole kilograms only; a weighing comes to 3 kg at least.
TransitionCommit(r, op) ==
    LET o == req[r].order
    IN  /\ At(r, op, "commit")
        /\ ~Locked(o)
        /\ SetStatus(o, Target[op])
        /\ IF op = "complete" /\ req[r].net # None
           THEN Book(o, "points") ELSE UNCHANGED entries
        /\ Finish(r)
        /\ UNCHANGED <<scale, searchVars, payment, invoice>>

-----------------------------------------------------------------------------
(* rejectOrder.                                                            *)

RejectRead(r, o, c) ==
    /\ order[o].courier = c
    /\ order[o].status = "MATCHED"
    /\ Begin(r, "reject", "commit", o, c, None)

\* Back to CREATED and unassigned, logged as REASSIGNING, and broadcast again.
RejectCommit(r, s) ==
    LET o == req[r].order
    IN  /\ At(r, "reject", "commit")
        /\ ~Locked(o)
        /\ order' = [order EXCEPT ![o].courier = None, ![o].status = "CREATED"]
        /\ Log(o, "REASSIGNING")
        /\ StartSearch(s, o)
        /\ Finish(r)
        /\ UNCHANGED <<scale, offered, bookVars>>

-----------------------------------------------------------------------------
(* startWeighing.                                                          *)

WeighRead(r, o, c) ==
    /\ order[o].courier = c
    /\ order[o].status \in {"ARRIVED", "WEIGHING"}
    /\ Begin(r, "startWeighing", "commit", o, c, None)

WeighCommit(r) ==
    LET o == req[r].order
    IN  /\ At(r, "startWeighing", "commit")
        /\ ~Locked(o)
        /\ order' = [order EXCEPT ![o].status = "WEIGHING", ![o].net = None]
        /\ Log(o, "WEIGHING")
        /\ scale' = [scale EXCEPT ![o] = "weights"]
        /\ Finish(r)
        /\ UNCHANGED <<searchVars, bookVars>>

-----------------------------------------------------------------------------
(* submitWeighing.                                                         *)

SubmitRead(r, o, c) ==
    /\ order[o].courier = c
    /\ order[o].status = "WEIGHING"
    /\ Begin(r, "submit", "readScale", o, c, None)

\* The second read: the newest WEIGHING row must hold the weights as JSON.
ReadScale(r) ==
    /\ At(r, "submit", "readScale")
    /\ scale[req[r].order] = "weights"
    /\ Continue(r, "commit")
    /\ UNCHANGED <<rowVars, searchVars, bookVars>>

\* The note is no JSON, or the waste type is unknown or not MUTU, or no RESIDU
\* type is configured.
SubmitRefused(r) == At(r, "submit", "readScale") /\ Refuse(r)

SubmitCommit(r, net) ==
    LET o == req[r].order
    IN  /\ At(r, "submit", "commit")
        /\ ~Locked(o)
        /\ order' = [order EXCEPT ![o].status = "WEIGHING", ![o].net = net]
        /\ Log(o, "WEIGHING")
        /\ scale' = [scale EXCEPT ![o] = "text"]
        /\ Finish(r)
        /\ UNCHANGED <<searchVars, bookVars>>

CourierRead(r, o, c) ==
    \/ AcceptRead(r, o, c)
    \/ \E op \in DOMAIN Target : TransitionRead(r, op, o, c)
    \/ RejectRead(r, o, c)
    \/ WeighRead(r, o, c)
    \/ SubmitRead(r, o, c)

CourierStep(r) ==
    \/ Claim(r)
    \/ ClaimTooLate(r)
    \/ CreditUser(r)
    \/ CreditCourier(r)
    \/ \E op \in DOMAIN Target : TransitionCommit(r, op)
    \/ \E s \in Searches : RejectCommit(r, s)
    \/ WeighCommit(r)
    \/ ReadScale(r)
    \/ SubmitRefused(r)
    \/ \E net \in NetValues : SubmitCommit(r, net)
=============================================================================
