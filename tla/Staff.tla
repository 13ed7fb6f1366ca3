-------------------------------- MODULE Staff --------------------------------
(***************************************************************************)
(* CouriersService and the user and courier management of AdminService:    *)
(* who becomes a courier, what a courier's calls rest on, and what a       *)
(* deletion takes away.  Foreign keys restrict a deletion, but the one     *)
(* from an order to its courier is set to NULL.                            *)
(***************************************************************************)
EXTENDS AccountRows

\* The tables with rows of an account that are neither orders nor couriers.
Tables == {"wallets", "addresses", "withdrawals", "payment_accounts", "notifications"}

\* What deleteUser empties for the account, besides terminal_validations, into
\* which nothing in the code puts a row.
ClearedTables == {"addresses", "wallets", "withdrawals", "payment_accounts", "notifications"}

-----------------------------------------------------------------------------
(* Couriers come.                                                          *)

\* Mutant: nobody looks whether there is a courier row.
BugPromoteRead(r, u) ==
    /\ Live(u)
    /\ Begin(r, [Idle EXCEPT !.op = "promote", !.pc = "commit", !.user = u])

\* adminCreate with a userId, which is register: no courier row yet.
PromoteRead(r, u) ==
    /\ Live(u)
    /\ RowsOf(u) = {}
    /\ Begin(r, [Idle EXCEPT !.op = "promote", !.pc = "commit", !.user = u])

\* adminCreate with an e-mail address that nobody has.
OnboardRead(r, u) ==
    /\ role[u] = "NONE"
    /\ Begin(r, [Idle EXCEPT !.op = "onboard", !.pc = "commit", !.user = u])

\* A deletion of account u has emptied its tables and has not committed.
Emptied(u) == \E r \in Requests : At(r, "delete", "account") /\ req[r].user = u

\* Account u gets x: a row in a table, or a courier row.  Under READ COMMITTED
\* a deletion that is under way does not take it along.
Gets(u, x) == late' = IF Emptied(u) THEN [late EXCEPT ![u] = @ \union {x}] ELSE late

\* The courier row, and the role.
Enrol(u) ==
    /\ \E c \in Couriers :
          /\ courier[c] = None
          /\ courier' = [courier EXCEPT ![c] = u]
          /\ Gets(u, c)
    /\ role' = [role EXCEPT ![u] = "COURIER"]

\* The role and the row, in one transaction.
PromoteCommit(r) ==
    /\ At(r, "promote", "commit")
    /\ Live(req[r].user)
    /\ Enrol(req[r].user)
    /\ Finish(r)
    /\ UNCHANGED <<owns, order, tracks, loginVars, secretVars, lost, workload>>

\* The account, its wallet and the row, in one transaction.
OnboardCommit(r) ==
    /\ At(r, "onboard", "commit")
    /\ role[req[r].user] = "NONE"
    /\ Enrol(req[r].user)
    /\ owns' = [owns EXCEPT ![req[r].user] = {"wallets"}]
    /\ Finish(r)
    /\ UNCHANGED <<order, tracks, loginVars, secretVars, lost, workload>>

\* The account to update is gone, or the address is taken.
EnrolRefused(r) ==
    /\ \/ At(r, "promote", "commit") /\ ~Live(req[r].user)
       \/ At(r, "onboard", "commit") /\ role[req[r].user] # "NONE"
    /\ Refuse(r)

-----------------------------------------------------------------------------
(* Owners, their rows and their orders.                                    *)

\* A new row of an account in table t.  Notifications come without a call of the
\* owner's; a withdrawal comes with an entry of the wallet, which keeps the wallet
\* from a deletion that has emptied the entries.
AddRow(u, t) ==
    /\ t \in workload \intersect (Tables \ {"wallets"})
    /\ Live(u)
    /\ t # "notifications" => LoggedIn(u)
    /\ owns' = [owns EXCEPT ![u] = @ \union {t}]
    /\ Gets(u, t)
    /\ UNCHANGED <<role, courier, order, tracks, loginVars, secretVars, req, lost, workload>>

\* OrdersService.create, for one of the user's addresses that no deletion holds.
Place(u, o) ==
    /\ "place" \in workload
    /\ LoggedIn(u) /\ Live(u) /\ "addresses" \in owns[u]
    /\ Emptied(u) => "addresses" \in late[u]
    /\ order[o] = NoOrder
    /\ order' = [order EXCEPT ![o] = [status |-> "CREATED", user |-> u, courier |-> None]]
    /\ UNCHANGED <<role, owns, courier, tracks, late, loginVars, secretVars, req, lost, workload>>

-----------------------------------------------------------------------------
(* Couriers at work.  CouriersController looks up a courier row of the     *)
(* token's user, the first it finds, and dereferences it.                  *)

\* A deletion that is under way has deleted courier row c, and has updated the
\* orders of c: who writes these rows, or refers to c, waits for its end.
Held(c) ==
    \E r \in Requests :
        At(r, "delete", "account") /\ c \in RowsOf(req[r].user) \ late[req[r].user]

OrderHeld(o) == order[o].courier # None /\ Held(order[o].courier)

Profile(u, c) == <<u, "COURIER">> \in tokens /\ c \in RowsOf(u)

Work(r, op, c, o) ==
    Begin(r, [Idle EXCEPT !.op = op, !.pc = "commit", !.courier = c, !.order = o,
                          !.seen = order[o].status])

AcceptRead(r, c, o) ==
    /\ order[o].status # "NONE" /\ order[o].courier \in {None, c}
    /\ Work(r, "accept", c, o)

RejectRead(r, c, o) ==
    /\ order[o].courier = c /\ order[o].status = "MATCHED"
    /\ Work(r, "reject", c, o)

\* transitionOrderStatus, to where the order goes from the status read.
AdvanceRead(r, c, o) ==
    /\ order[o].courier = c /\ order[o].status \in {"MATCHED", "ON_GOING"}
    /\ Work(r, "advance", c, o)

\* updateCourierLocation.
TrackRead(r, c, o) ==
    /\ order[o].courier = c /\ order[o].status = "ON_GOING"
    /\ Work(r, "track", c, o)

Claimable(r) ==
    LET o == req[r].order
    IN  order[o].courier \in {None, req[r].courier} /\ order[o].status \in {"CREATED", "MATCHED"}

\* The conditional update of acceptOrder: an instant order is on its way at
\* once.  The foreign key asks for the courier row.
AcceptCommit(r) ==
    /\ At(r, "accept", "commit")
    /\ ~Held(req[r].courier) /\ ~OrderHeld(req[r].order)
    /\ Claimable(r) /\ Exists(req[r].courier)
    /\ \E s \in {"MATCHED", "ON_GOING"} :
          order' = [order EXCEPT ![req[r].order].courier = req[r].courier,
                                 ![req[r].order].status = s]
    /\ Finish(r)
    /\ UNCHANGED <<role, owns, courier, tracks, late, loginVars, secretVars, lost, workload>>

\* Mutant: the status goes to the order that belongs in its history.
BugRejectCommit(r) ==
    /\ At(r, "reject", "commit")
    /\ Exists(req[r].courier)
    /\ order' = [order EXCEPT ![req[r].order].courier = None,
                              ![req[r].order].status = "REASSIGNING"]
    /\ Finish(r)
    /\ UNCHANGED <<role, owns, courier, tracks, late, loginVars, secretVars, lost, workload>>

\* The row in order_reassignments refers to the courier.
RejectCommit(r) ==
    /\ At(r, "reject", "commit")
    /\ ~Held(req[r].courier) /\ ~OrderHeld(req[r].order)
    /\ Exists(req[r].courier)
    /\ order' = [order EXCEPT ![req[r].order].courier = None,
                              ![req[r].order].status = "CREATED"]
    /\ Finish(r)
    /\ UNCHANGED <<role, owns, courier, tracks, late, loginVars, secretVars, lost, workload>>

\* The update names only the order's id.
AdvanceCommit(r) ==
    /\ At(r, "advance", "commit")
    /\ ~OrderHeld(req[r].order)
    /\ order' = [order EXCEPT ![req[r].order].status =
                    IF req[r].seen = "MATCHED" THEN "ON_GOING" ELSE "COMPLETED"]
    /\ Finish(r)
    /\ UNCHANGED <<role, owns, courier, tracks, late, loginVars, secretVars, lost, workload>>

TrackCommit(r) ==
    /\ At(r, "track", "commit")
    /\ ~Held(req[r].courier)
    /\ Exists(req[r].courier)
    /\ tracks' = tracks \union {<<req[r].order, req[r].courier>>}
    /\ Finish(r)
    /\ UNCHANGED <<role, owns, courier, order, late, loginVars, secretVars, lost, workload>>

\* Another courier was faster, or the courier row is gone.
WorkRefused(r) ==
    /\ ~Held(req[r].courier)
    /\ \/ /\ At(r, "accept", "commit") /\ ~OrderHeld(req[r].order)
          /\ ~(Claimable(r) /\ Exists(req[r].courier))
       \/ req[r].op \in {"reject", "track"} /\ ~Exists(req[r].courier)
    /\ Refuse(r)

-----------------------------------------------------------------------------
(* Accounts go.                                                            *)

\* Mutant: the foreign key of the logs does not restrict.
BugTracked(c) == FALSE

\* The logs that keep courier row c.
Tracked(c) == \E o \in Orders : <<o, c>> \in tracks

\* Account u has no order: an order keeps the account and its address.
Orderless(u) == \A o \in Orders : order[o].user # u

\* Account u and its courier rows are deleted, and its rows in all tables; what
\* is in `rest' stays, and so do the orders of its couriers.
Delete(u, rest) ==
    /\ role' = [role EXCEPT ![u] = "GONE"]
    /\ owns' = [owns EXCEPT ![u] = @ \intersect rest]
    /\ courier' = [c \in Couriers |->
                     IF c \in RowsOf(u) \ rest THEN Gone ELSE courier[c]]
    /\ order' = [o \in Orders |->
                   IF order[o].courier \in RowsOf(u) \ rest
                   THEN [order[o] EXCEPT !.courier = None] ELSE order[o]]
    /\ code' = [k \in DOMAIN code |-> [code[k] EXCEPT ![u] = None]]
    /\ UNCHANGED <<tracks, late, loginVars, secret, used>>

DeleteRead(r, u) ==
    /\ Live(u) /\ role[u] # "ADMIN"
    /\ Begin(r, [Idle EXCEPT !.op = "delete", !.pc = "commit", !.user = u])

\* deleteUser's transaction empties table after table.  No commit of another
\* handler among these statements matters but one that adds a row to a table
\* that is empty by then; a second deletion waits for the first one's wallet.
DeleteSweep(r) ==
    LET u == req[r].user
    IN  /\ At(r, "delete", "commit")
        /\ ~Emptied(u)
        /\ Live(u) /\ Orderless(u)
        /\ \A c \in RowsOf(u) : ~Tracked(c)
        /\ late' = [late EXCEPT ![u] = {}]
        /\ Continue(r, "account")
        /\ UNCHANGED <<role, owns, courier, order, tracks, loginVars, secretVars, lost, workload>>

\* A log keeps a courier row, or an order keeps an address.
DeleteRefused(r) ==
    LET u == req[r].user
    IN  /\ At(r, "delete", "commit")
        /\ ~Emptied(u)
        /\ ~(Live(u) /\ Orderless(u) /\ \A c \in RowsOf(u) : ~Tracked(c))
        /\ Refuse(r)

\* Mutant: no foreign key ties the rows to the account.
BugDeleteCommit(r) ==
    LET u == req[r].user
    IN  /\ At(r, "delete", "account")
        /\ Delete(u, late[u])
        /\ Finish(r)
        /\ UNCHANGED <<lost, workload>>

\* The last statement deletes the account, if no row refers to it any more.
DeleteCommit(r) ==
    LET u == req[r].user
    IN  /\ At(r, "delete", "account")
        /\ late[u] = {} /\ owns[u] \subseteq ClearedTables /\ Orderless(u)
        /\ Delete(u, late[u])
        /\ Finish(r)
        /\ UNCHANGED <<lost, workload>>

\* A row that came while the tables were emptied, or one in a table that is not
\* emptied, keeps the account: the transaction is undone.
DeleteUndone(r) ==
    LET u == req[r].user
    IN  /\ At(r, "delete", "account")
        /\ ~(late[u] = {} /\ owns[u] \subseteq ClearedTables /\ Orderless(u))
        /\ Refuse(r)

\* CouriersService.remove: the courier row is read with its user.
RemoveRead(r, c) ==
    /\ Exists(c)
    /\ Begin(r, [Idle EXCEPT !.op = "remove", !.pc = "commit", !.courier = c,
                             !.user = courier[c]])

\* Mutant: the courier row goes, and the account stays.
BugRemoveCommit(r) ==
    LET c == req[r].courier
    IN  /\ At(r, "remove", "commit")
        /\ courier' = [courier EXCEPT ![c] = Gone]
        /\ order' = [o \in Orders |-> IF order[o].courier = c
                                      THEN [order[o] EXCEPT !.courier = None] ELSE order[o]]
        /\ Finish(r)
        /\ UNCHANGED <<role, owns, tracks, late, loginVars, secretVars, lost, workload>>

\* Its transaction deletes the row and then the account, and empties no table:
\* the wallet that every account has keeps the account, and all is undone.
RemoveCommit(r) ==
    LET u == req[r].user
    IN  /\ At(r, "remove", "commit")
        /\ ~Held(req[r].courier)
        /\ IF /\ Live(u) /\ RowsOf(u) = {req[r].courier} /\ ~Tracked(req[r].courier)
              /\ owns[u] = {} /\ Orderless(u)
           THEN Delete(u, {})
           ELSE UNCHANGED <<role, owns, staffVars, loginVars, secretVars>>
        /\ Finish(r)
        /\ UNCHANGED <<lost, workload>>

-----------------------------------------------------------------------------
StaffCall(r) ==
    \/ \E u \in Users : PromoteRead(r, u) \/ OnboardRead(r, u) \/ DeleteRead(r, u)
    \/ \E c \in Couriers : RemoveRead(r, c)
    \/ \E u \in Users, c \in Couriers, o \in Orders :
          /\ Profile(u, c)
          /\ AcceptRead(r, c, o) \/ RejectRead(r, c, o) \/ AdvanceRead(r, c, o) \/ TrackRead(r, c, o)

StaffStep(r) ==
    \/ PromoteCommit(r) \/ OnboardCommit(r) \/ EnrolRefused(r)
    \/ AcceptCommit(r) \/ RejectCommit(r) \/ AdvanceCommit(r) \/ TrackCommit(r) \/ WorkRefused(r)
    \/ DeleteSweep(r) \/ DeleteRefused(r) \/ DeleteCommit(r) \/ DeleteUndone(r)
    \/ RemoveCommit(r)
=============================================================================
