---------------------------- MODULE OrdersProofs ----------------------------
(***************************************************************************)
(* Proofs about Orders, for every number of orders, couriers, requests,    *)
(* broadcasts and payments, with or without requests that die half way.    *)
(*                                                                         *)
(* The argument: whatever a handler has read about an order's progress     *)
(* stays true, because the timeline (history) only grows.  So although a   *)
(* handler's guards may be stale when it writes, the stage its write rests *)
(* on is still on the timeline (RequestGrounded).                          *)
(***************************************************************************)
EXTENDS Orders, TLAPS

HistoryGrows == \A o \in Orders : history[o] \subseteq history'[o]

\* No payment row disappears.
PaymentsStay ==
    \A p \in Payments : payment[p].status # "NONE" => payment'[p].status # "NONE"

\* Request r ends, goes on outside cancelOrder's transaction, or nothing happens.
RequestsMove(r) ==
    \/ UNCHANGED req
    \/ Finish(r)
    \/ \E pc \in Steps \ {"refund", "refunded"} : Continue(r, pc)

-----------------------------------------------------------------------------
(* What keeps each part of the invariant.                                  *)

\* A timeline that grows and payments that stay keep every request grounded.
LEMMA RequestsKept ==
    ASSUME RequestsGrounded, req \in [Requests -> RequestTypes], NEW r \in Requests,
           HistoryGrows, PaymentsStay, RequestsMove(r)
    PROVE  RequestsGrounded'
<1>1. SUFFICES ASSUME NEW q \in Requests, req'[q].op # "idle"
               PROVE  RequestGrounded(q)'
  BY DEF RequestsGrounded
<1>2. /\ req[q].op # "idle"
      /\ req'[q].op = req[q].op
      /\ req'[q].order = req[q].order
      /\ req'[q].actor = req[q].actor
      /\ req'[q].pay = req[q].pay
      /\ req'[q].pc = req[q].pc \/ req'[q].pc \notin {"refund", "refunded"}
  BY <1>1 DEF RequestsMove, Finish, Continue, Idle, RequestTypes
<1>3. RequestGrounded(q)
  BY <1>2 DEF RequestsGrounded
<1>4. history[req[q].order] \subseteq history'[req[q].order]
  BY <1>3 DEF RequestGrounded, HistoryGrows
<1>5. req[q].op = "paid" => payment'[req[q].pay].status # "NONE"
  BY <1>3 DEF RequestGrounded, PaymentsStay
<1>6. Basis[req[q].op] \intersect history'[req[q].order] # {}
  BY <1>3, <1>4 DEF RequestGrounded
<1> QED
  BY <1>2, <1>3, <1>4, <1>5, <1>6 DEF RequestGrounded

\* A growing timeline keeps the payments and the searches grounded.
LEMMA PaymentsKept ==
    ASSUME PaymentsGrounded, HistoryGrows, UNCHANGED payment
    PROVE  PaymentsGrounded' /\ PaymentsStay
  BY DEF PaymentsGrounded, HistoryGrows, PaymentsStay

LEMMA SearchesKept ==
    ASSUME SearchesGrounded, HistoryGrows, UNCHANGED search
    PROVE  SearchesGrounded'
  BY DEF SearchesGrounded, HistoryGrows

\* Rows that do not change keep what is said about rows.
LEMMA RowsKept ==
    ASSUME RowsLogged, ScheduleRespected, UNCHANGED <<order, history>>
    PROVE  RowsLogged' /\ ScheduleRespected' /\ HistoryGrows
  BY DEF RowsLogged, ScheduleRespected, HistoryGrows

\* A write of one placed order's row that logs s and leaves the order in a
\* status that is on its timeline or is s.
LEMMA RowWritten ==
    ASSUME Grounded, NEW o \in Orders, NEW s \in Statuses,
           "CREATED" \in history[o],
           Log(o, s),
           \A q \in Orders \ {o} : order'[q] = order[q],
           order'[o].schedule = order[o].schedule,
           order'[o].status # "NONE",
           order'[o].status \in history[o] \union {s},
           s = "MATCHED" => order[o].schedule = "SCHEDULED",
           s = "ON_GOING" /\ order[o].schedule = "SCHEDULED" => "MATCHED" \in history[o]
    PROVE  /\ history' \in [Orders -> SUBSET Statuses]
           /\ HistoryGrows /\ RowsLogged' /\ ScheduleRespected'
<1>1. history \in [Orders -> SUBSET Statuses]
  BY DEF Grounded, TypeOK
<1>2. /\ history' \in [Orders -> SUBSET Statuses]
      /\ history'[o] = history[o] \union {s}
      /\ \A q \in Orders \ {o} : history'[q] = history[q]
  BY <1>1 DEF Log
<1>3. HistoryGrows
  BY <1>2 DEF HistoryGrows
<1>4. RowsLogged'
  BY <1>2 DEF Grounded, RowsLogged
<1>5. ScheduleRespected'
  BY <1>2 DEF Grounded, ScheduleRespected
<1> QED
  BY <1>2, <1>3, <1>4, <1>5

\* A call that arrives, with its first read, is grounded.
LEMMA BeginGrounded ==
    ASSUME Grounded, NEW r \in Requests, NEW op \in Operations,
           NEW pc \in Steps \ {"idle", "refund", "refunded"}, NEW o \in Orders,
           NEW a \in Couriers \union Roles, NEW p \in Payments \union {None},
           Begin(r, op, pc, o, a, p),
           Basis[op] \intersect history[o] # {},
           op = "accept" => a \in Couriers,
           op = "paid" => p \in Payments /\ payment[p].status # "NONE"
    PROVE  Grounded'
<1>1. /\ UNCHANGED <<order, history, scale, search, offered, payment, invoice, entries>>
      /\ order[o].status # "NONE"
      /\ req' = [req EXCEPT ![r] = [op |-> op, pc |-> pc, order |-> o, actor |-> a,
                                    pay |-> p, seen |-> order[o].status, net |-> order[o].net]]
  BY DEF Begin, rowVars, searchVars, bookVars
<1>2. TypeOK /\ req \in [Requests -> RequestTypes] /\ order[o] \in Rows
  BY DEF Grounded, TypeOK
<1>3. [op |-> op, pc |-> pc, order |-> o, actor |-> a, pay |-> p,
       seen |-> order[o].status, net |-> order[o].net] \in RequestTypes
  BY <1>2 DEF RequestTypes, Rows
<1>4. TypeOK'
  BY <1>1, <1>2, <1>3 DEF TypeOK
<1>5. "CREATED" \in history[o]
  BY <1>1 DEF Grounded, RowsLogged
<1>6. RequestsGrounded'
  <2>1. SUFFICES ASSUME NEW q \in Requests, req'[q].op # "idle"
                 PROVE  RequestGrounded(q)'
    BY DEF RequestsGrounded
  <2>2. CASE q = r
    BY <2>2, <1>1, <1>2, <1>5 DEF RequestGrounded
  <2>3. CASE q # r
    <3>1. req'[q] = req[q]
      BY <2>3, <1>1, <1>2
    <3>2. RequestGrounded(q)
      BY <2>1, <3>1 DEF Grounded, RequestsGrounded
    <3> QED
      BY <3>1, <3>2, <1>1 DEF RequestGrounded
  <2> QED
    BY <2>2, <2>3
<1>7. RowsLogged' /\ ScheduleRespected' /\ HistoryGrows
  BY <1>1, RowsKept DEF Grounded
<1>8. PaymentsGrounded' /\ SearchesGrounded'
  BY <1>1, <1>7, PaymentsKept, SearchesKept DEF Grounded
<1> QED
  BY <1>4, <1>6, <1>7, <1>8 DEF Grounded

-----------------------------------------------------------------------------
(* Arrivals.                                                               *)

LEMMA CourierReadGrounded ==
    ASSUME Grounded, NEW r \in Requests, NEW o \in Orders, NEW c \in Couriers,
           CourierRead(r, o, c)
    PROVE  Grounded'
<1> c \in Couriers \union Roles /\ None \in Payments \union {None}
  OBVIOUS
<1>1. order[o].status # "NONE" => "CREATED" \in history[o] /\ order[o].status \in history[o]
  BY DEF Grounded, RowsLogged
<1>2. CASE AcceptRead(r, o, c)
  <2>1. /\ Begin(r, "accept", "commit", o, c, None)
        /\ Basis["accept"] \intersect history[o] # {}
    BY <1>1, <1>2 DEF AcceptRead, Begin, Basis
  <2> QED
    BY <2>1, BeginGrounded DEF Operations, Steps
<1>3. ASSUME NEW op \in DOMAIN Target, TransitionRead(r, op, o, c)
      PROVE  Grounded'
  <2>1. op \in {"depart", "arrive", "pickup", "deliver", "complete"}
    BY <1>3 DEF Target
  <2>2. /\ Begin(r, op, FirstStep(op, order[o]), o, c, None)
        /\ FirstStep(op, order[o]) \in Steps \ {"idle", "refund", "refunded"}
    BY <1>3 DEF TransitionRead, FirstStep, Steps
  <2>3. order[o].status \in Basis[op]
    BY <1>3, <2>1 DEF TransitionRead, Target, ValidTransitions, Basis
  <2>4. Basis[op] \intersect history[o] # {}
    BY <1>1, <2>2, <2>3 DEF Begin
  <2> QED
    BY <2>1, <2>2, <2>4, BeginGrounded DEF Operations
<1>4. CASE RejectRead(r, o, c)
  <2>1. /\ Begin(r, "reject", "commit", o, c, None)
        /\ Basis["reject"] \intersect history[o] # {}
    BY <1>1, <1>4 DEF RejectRead, Basis
  <2> QED
    BY <2>1, BeginGrounded DEF Operations, Steps
<1>5. CASE WeighRead(r, o, c)
  <2>1. /\ Begin(r, "startWeighing", "commit", o, c, None)
        /\ Basis["startWeighing"] \intersect history[o] # {}
    BY <1>1, <1>5 DEF WeighRead, Basis
  <2> QED
    BY <2>1, BeginGrounded DEF Operations, Steps
<1>6. CASE SubmitRead(r, o, c)
  <2>1. /\ Begin(r, "submit", "readScale", o, c, None)
        /\ Basis["submit"] \intersect history[o] # {}
    BY <1>1, <1>6 DEF SubmitRead, Basis
  <2> QED
    BY <2>1, BeginGrounded DEF Operations, Steps
<1> QED
  BY <1>2, <1>3, <1>4, <1>5, <1>6 DEF CourierRead

LEMMA UserReadGrounded ==
    ASSUME Grounded, NEW r \in Requests, NEW o \in Orders, UserRead(r, o)
    PROVE  Grounded'
<1>1. order[o].status # "NONE" => "CREATED" \in history[o] /\ order[o].status \in history[o]
  BY DEF Grounded, RowsLogged
<1>2. CASE ConfirmRead(r, o)
  <2>1. /\ Begin(r, "confirm", "commit", o, "USER", None)
        /\ Basis["confirm"] \intersect history[o] # {}
    BY <1>1, <1>2 DEF ConfirmRead, Basis
  <2> QED
    BY <2>1, BeginGrounded DEF Operations, Steps, Roles
<1>3. ASSUME NEW op \in {"payWallet", "payInvoice"}, NEW p \in Payments, PayRead(r, op, o, p)
      PROVE  Grounded'
  <2> DEFINE pc == IF op = "payWallet" THEN "debit" ELSE "invoice"
  <2>1. /\ Begin(r, op, pc, o, "USER", p)
        /\ Basis[op] \intersect history[o] # {}
    BY <1>1, <1>3 DEF PayRead, NeedsPayment, Basis
  <2>2. pc \in Steps \ {"idle", "refund", "refunded"} /\ op \in Operations
    BY <1>3 DEF Steps, Operations
  <2>3. op \notin {"accept", "paid"} /\ "USER" \in Couriers \union Roles
    BY <1>3 DEF Roles
  <2> HIDE DEF pc
  <2> QED
    BY <2>1, <2>2, <2>3, BeginGrounded
<1>4. ASSUME NEW a \in Couriers \union {"USER", "ADMIN"}, CancelRead(r, o, a)
      PROVE  Grounded'
  <2>1. /\ Begin(r, "cancel", "commit", o, a, None)
        /\ Basis["cancel"] \intersect history[o] # {}
    BY <1>1, <1>4 DEF CancelRead, Begin, Basis
  <2>2. a \in Couriers \union Roles
    BY <1>4 DEF Roles
  <2> QED
    BY <2>1, <2>2, BeginGrounded DEF Operations, Steps
<1> QED
  BY <1>2, <1>3, <1>4 DEF UserRead

LEMMA PaidReadGrounded ==
    ASSUME Grounded, NEW r \in Requests, NEW p \in Payments, PaidRead(r, p)
    PROVE  Grounded'
<1>1. /\ Begin(r, "paid", "commit", payment[p].order, "XENDIT", p)
      /\ payment[p].status # "NONE"
  BY DEF PaidRead
<1>2. /\ payment[p].order \in Orders
      /\ Basis["paid"] \intersect history[payment[p].order] # {}
  BY <1>1 DEF Grounded, PaymentsGrounded, Basis
<1> QED
  BY <1>1, <1>2, BeginGrounded DEF Operations, Steps, Roles
-----------------------------------------------------------------------------
(* Steps of requests.                                                      *)

\* What a request that is under way rests on.
LEMMA InFlight ==
    ASSUME Grounded, NEW r \in Requests, req[r].op # "idle"
    PROVE  /\ RequestGrounded(r)
           /\ req[r].order \in Orders
           /\ "CREATED" \in history[req[r].order]
           /\ req[r] \in RequestTypes
           /\ order[req[r].order] \in Rows
  BY DEF Grounded, RequestsGrounded, RequestGrounded, TypeOK

\* A step of request r that touches neither payments nor searches.
LEMMA StepGrounded ==
    ASSUME Grounded, NEW r \in Requests, TypeOK', RowsLogged', ScheduleRespected',
           HistoryGrows, UNCHANGED <<payment, search>>, RequestsMove(r)
    PROVE  Grounded'
<1>1. PaymentsGrounded' /\ PaymentsStay /\ SearchesGrounded'
  BY PaymentsKept, SearchesKept DEF Grounded
<1>2. RequestsGrounded'
  BY <1>1, RequestsKept DEF Grounded, TypeOK
<1> QED
  BY <1>1, <1>2 DEF Grounded

\* A step of request r that touches neither rows nor payments nor searches.
LEMMA InnerStepGrounded ==
    ASSUME Grounded, NEW r \in Requests, TypeOK',
           UNCHANGED <<order, history, payment, search>>, RequestsMove(r)
    PROVE  Grounded'
<1>1. RowsLogged' /\ ScheduleRespected' /\ HistoryGrows
  BY RowsKept DEF Grounded
<1> QED
  BY <1>1, StepGrounded

LEMMA ClaimGrounded ==
    ASSUME Grounded, NEW r \in Requests, Claim(r)
    PROVE  Grounded'
<1> DEFINE o == req[r].order
           target == AcceptedStatus(order[o].schedule)
<1>1. req[r].op = "accept" /\ req[r].op # "idle"
  BY DEF Claim, At
<1>2. /\ o \in Orders /\ "CREATED" \in history[o] /\ order[o] \in Rows
      /\ req[r].actor \in Couriers /\ target \in Statuses
  BY <1>1, InFlight DEF RequestGrounded, AcceptedStatus, Statuses
<1>3. /\ order' = [order EXCEPT ![o].courier = req[r].actor, ![o].status = target]
      /\ Log(o, target) /\ Finish(r)
      /\ UNCHANGED <<scale, search, offered, payment, invoice, entries>>
  BY DEF Claim, searchVars, bookVars
<1>4. order \in [Orders -> Rows] /\ order' \in [Orders -> Rows]
  BY <1>2, <1>3 DEF Grounded, TypeOK, Rows
<1>5. order'[o].status = target /\ order'[o].schedule = order[o].schedule
  BY <1>2, <1>3, <1>4 DEF Rows
<1>6. target \in {"MATCHED", "ON_GOING"} /\ (target = "MATCHED" => order[o].schedule = "SCHEDULED")
      /\ (target = "ON_GOING" => order[o].schedule = "INSTANT")
  BY <1>2 DEF AcceptedStatus, Rows, Schedules
<1>7. \A q \in Orders \ {o} : order'[q] = order[q]
  BY <1>3, <1>4
<1> HIDE DEF o, target
<1>8. history' \in [Orders -> SUBSET Statuses] /\ HistoryGrows /\ RowsLogged' /\ ScheduleRespected'
  BY <1>2, <1>3, <1>5, <1>6, <1>7, RowWritten
<1>9. TypeOK' /\ RequestsMove(r)
  BY <1>3, <1>4, <1>8 DEF Grounded, TypeOK, Finish, Idle, RequestTypes, Steps, RequestsMove, Statuses
<1> QED
  BY <1>3, <1>8, <1>9, StepGrounded

\* A request that ends without a write, whatever the reason.
LEMMA RefuseGrounded ==
    ASSUME Grounded, NEW r \in Requests, Refuse(r)
    PROVE  Grounded'
<1>1. TypeOK' /\ RequestsMove(r) /\ UNCHANGED <<order, history, payment, search>>
  BY DEF Refuse, Finish, RequestsMove, Grounded, TypeOK, Idle, RequestTypes, Steps,
         rowVars, searchVars, bookVars, Statuses
<1> QED
  BY <1>1, InnerStepGrounded

\* Ending and going on keep the requests well typed.
LEMMA RequestsTyped ==
    ASSUME req \in [Requests -> RequestTypes], NEW r \in Requests,
           Finish(r) \/ \E pc \in Steps : Continue(r, pc)
    PROVE  req' \in [Requests -> RequestTypes]
<1>1. Idle \in RequestTypes
  BY DEF Idle, RequestTypes, Steps, Statuses
<1>2. CASE Finish(r)
  BY <1>1, <1>2 DEF Finish
<1>3. ASSUME NEW pc \in Steps, Continue(r, pc)
      PROVE  req' \in [Requests -> RequestTypes]
  <2>1. [req[r] EXCEPT !.pc = pc] \in RequestTypes
    BY DEF RequestTypes
  <2>2. req' = [req EXCEPT ![r] = [req[r] EXCEPT !.pc = pc]]
    BY <1>3 DEF Continue
  <2> QED
    BY <2>1, <2>2
<1> QED
  BY <1>2, <1>3

\* A request that books a ledger row and goes on.
LEMMA BookGrounded ==
    ASSUME Grounded, NEW r \in Requests, NEW kind \in EntryKinds,
           NEW pc \in Steps \ {"refund"},
           pc = "refunded" => req[r].pc = "refund" /\ req[r].op # "idle",
           Book(req[r].order, kind), Continue(r, pc),
           UNCHANGED <<rowVars, searchVars, payment, invoice>>
    PROVE  Grounded'
<1>1. entries' \in [Orders -> [EntryKinds -> Nat]]
  <2>1. entries \in [Orders -> [EntryKinds -> Nat]]
    BY DEF Grounded, TypeOK
  <2>2. entries' = [entries EXCEPT ![req[r].order] =
                      [entries[req[r].order] EXCEPT ![kind] = entries[req[r].order][kind] + 1]]
    BY DEF Book
  <2>3. \A o \in Orders : [entries[o] EXCEPT ![kind] = entries[o][kind] + 1] \in [EntryKinds -> Nat]
    BY <2>1
  <2> QED
    BY <2>1, <2>2, <2>3
<1>2. TypeOK'
  <2>1. req' \in [Requests -> RequestTypes]
    BY RequestsTyped DEF Grounded, TypeOK
  <2> QED
    BY <1>1, <2>1 DEF Grounded, TypeOK, rowVars, searchVars
<1>3. RowsLogged' /\ ScheduleRespected' /\ HistoryGrows /\ UNCHANGED <<history, payment, search>>
  BY RowsKept DEF Grounded, rowVars, searchVars
<1>4. CASE pc # "refunded"
  BY <1>2, <1>3, <1>4, StepGrounded DEF RequestsMove
<1>5. CASE pc = "refunded"
  <2>1. RequestsGrounded'
    <3>1. SUFFICES ASSUME NEW q \in Requests, req'[q].op # "idle"
                   PROVE  RequestGrounded(q)'
      BY DEF RequestsGrounded
    <3>2. /\ req'[q].op = req[q].op /\ req'[q].order = req[q].order
          /\ req'[q].actor = req[q].actor /\ req'[q].pay = req[q].pay
          /\ req'[q].pc \in {"refund", "refunded"} => req[q].pc \in {"refund", "refunded"}
      BY <1>5 DEF Continue, Grounded, TypeOK, RequestTypes
    <3> QED
      BY <3>1, <3>2, <1>3 DEF Grounded, RequestsGrounded, RequestGrounded
  <2> QED
    BY <2>1, <1>2, <1>3, PaymentsKept, SearchesKept DEF Grounded
<1> QED
  BY <1>4, <1>5
\* SetStatus on a placed order: no request sets MATCHED this way, and ON_GOING
\* is set only on an order that was MATCHED.
LEMMA StatusWritten ==
    ASSUME Grounded, NEW o \in Orders, "CREATED" \in history[o],
           NEW s \in Statuses \ {"MATCHED"}, s = "ON_GOING" => "MATCHED" \in history[o],
           SetStatus(o, s)
    PROVE  /\ order' \in [Orders -> Rows] /\ history' \in [Orders -> SUBSET Statuses]
           /\ HistoryGrows /\ RowsLogged' /\ ScheduleRespected'
<1>1. /\ order \in [Orders -> Rows]
      /\ order' = [order EXCEPT ![o].status = s] /\ Log(o, s)
  BY DEF Grounded, TypeOK, SetStatus
<1>2. /\ order' \in [Orders -> Rows]
      /\ order'[o].status = s /\ order'[o].schedule = order[o].schedule
      /\ \A q \in Orders \ {o} : order'[q] = order[q]
  BY <1>1 DEF Rows
<1>3. s # "NONE" /\ s \in Statuses
  BY DEF Statuses
<1> QED
  BY <1>1, <1>2, <1>3, RowWritten

\* A request's last step when it is SetStatus and touches neither payments nor
\* searches.
LEMMA StatusStepGrounded ==
    ASSUME Grounded, NEW r \in Requests, req[r].op # "idle",
           NEW s \in Statuses \ {"MATCHED"},
           s = "ON_GOING" => "MATCHED" \in history[req[r].order],
           SetStatus(req[r].order, s), Finish(r),
           entries' \in [Orders -> [EntryKinds -> Nat]],
           UNCHANGED <<scale, searchVars, payment, invoice>>
    PROVE  Grounded'
<1>1. req[r].order \in Orders /\ "CREATED" \in history[req[r].order]
  BY InFlight
<1>2. /\ order' \in [Orders -> Rows] /\ history' \in [Orders -> SUBSET Statuses]
      /\ HistoryGrows /\ RowsLogged' /\ ScheduleRespected'
  BY <1>1, StatusWritten
<1>3. req' \in [Requests -> RequestTypes]
  BY RequestsTyped DEF Grounded, TypeOK
<1>4. TypeOK' /\ UNCHANGED <<payment, search>>
  BY <1>2, <1>3 DEF Grounded, TypeOK, searchVars
<1> QED
  BY <1>2, <1>4, StepGrounded DEF RequestsMove

\* Booking keeps the ledger well typed.
LEMMA BookTyped ==
    ASSUME entries \in [Orders -> [EntryKinds -> Nat]], NEW o, NEW kind \in EntryKinds,
           Book(o, kind)
    PROVE  entries' \in [Orders -> [EntryKinds -> Nat]]
<1>1. entries' = [entries EXCEPT ![o] = [entries[o] EXCEPT ![kind] = entries[o][kind] + 1]]
  BY DEF Book
<1>2. ASSUME o \in Orders
      PROVE  [entries[o] EXCEPT ![kind] = entries[o][kind] + 1] \in [EntryKinds -> Nat]
  BY <1>2
<1> QED
  BY <1>1, <1>2

LEMMA TransitionCommitGrounded ==
    ASSUME Grounded, NEW r \in Requests, NEW op \in DOMAIN Target, TransitionCommit(r, op)
    PROVE  Grounded'
<1> DEFINE o == req[r].order
<1>1. /\ req[r].op = op
      /\ SetStatus(o, Target[op]) /\ Finish(r)
      /\ UNCHANGED <<scale, searchVars, payment, invoice>>
      /\ Book(o, "points") \/ UNCHANGED entries
  BY DEF TransitionCommit, At
<1>2. op \in {"depart", "arrive", "pickup", "deliver", "complete"}
  BY DEF Target
<1>3. Target[op] \in Statuses \ {"MATCHED"} /\ req[r].op # "idle"
  BY <1>1, <1>2 DEF Target, Statuses
<1>4. ASSUME Target[op] = "ON_GOING" PROVE "MATCHED" \in history[o]
  <2>1. op = "depart"
    BY <1>2, <1>4 DEF Target
  <2>2. Basis[op] \intersect history[o] # {}
    BY <1>1, <1>3, InFlight DEF RequestGrounded
  <2> QED
    BY <2>1, <2>2 DEF Basis
<1>5. entries' \in [Orders -> [EntryKinds -> Nat]]
  BY <1>1, BookTyped DEF Grounded, TypeOK, EntryKinds
<1> QED
  BY <1>1, <1>3, <1>4, <1>5, StatusStepGrounded

\* The two writes of the weighing.
LEMMA WeighingGrounded ==
    ASSUME Grounded, NEW r \in Requests,
           WeighCommit(r) \/ \E net \in NetValues : SubmitCommit(r, net)
    PROVE  Grounded'
<1> DEFINE o == req[r].order
<1>1. PICK net \in NetValues \union {None} :
        /\ req[r].op # "idle" /\ Finish(r)
        /\ order' = [order EXCEPT ![o].status = "WEIGHING", ![o].net = net]
        /\ Log(o, "WEIGHING")
        /\ scale' \in [Orders -> {"none", "weights", "text"}]
        /\ UNCHANGED <<searchVars, bookVars>>
  BY DEF WeighCommit, SubmitCommit, At, Grounded, TypeOK
<1>2. o \in Orders /\ "CREATED" \in history[o]
  BY <1>1, InFlight
<1>3. order \in [Orders -> Rows]
  BY DEF Grounded, TypeOK
<1>4. /\ order' \in [Orders -> Rows]
      /\ order'[o].status = "WEIGHING" /\ order'[o].schedule = order[o].schedule
      /\ \A q \in Orders \ {o} : order'[q] = order[q]
  BY <1>1, <1>2, <1>3 DEF Rows, Statuses
<1>5. "WEIGHING" \in Statuses
  BY DEF Statuses
<1> HIDE DEF o
<1>6. /\ history' \in [Orders -> SUBSET Statuses]
      /\ HistoryGrows /\ RowsLogged' /\ ScheduleRespected'
  BY <1>1, <1>2, <1>4, <1>5, RowWritten
<1>7. req' \in [Requests -> RequestTypes]
  BY <1>1, RequestsTyped DEF Grounded, TypeOK
<1>8. TypeOK' /\ UNCHANGED <<payment, search>>
  BY <1>1, <1>4, <1>6, <1>7 DEF Grounded, TypeOK, searchVars, bookVars
<1> QED
  BY <1>1, <1>6, <1>8, StepGrounded DEF RequestsMove

LEMMA RejectCommitGrounded ==
    ASSUME Grounded, NEW r \in Requests, NEW s \in Searches, RejectCommit(r, s)
    PROVE  Grounded'
<1> DEFINE o == req[r].order
<1>1. /\ req[r].op # "idle" /\ Finish(r)
      /\ order' = [order EXCEPT ![o].courier = None, ![o].status = "CREATED"]
      /\ Log(o, "REASSIGNING")
      /\ StartSearch(s, o)
      /\ UNCHANGED <<scale, offered, payment, invoice, entries>>
  BY DEF RejectCommit, At, bookVars
<1>2. o \in Orders /\ "CREATED" \in history[o]
  BY <1>1, InFlight
<1>3. order \in [Orders -> Rows]
  BY DEF Grounded, TypeOK
<1>4. /\ order' \in [Orders -> Rows]
      /\ order'[o].status = "CREATED" /\ order'[o].schedule = order[o].schedule
      /\ \A q \in Orders \ {o} : order'[q] = order[q]
  <2> DEFINE new == [order[o] EXCEPT !.courier = None, !.status = "CREATED"]
  <2>1. order' = [order EXCEPT ![o] = new]
    BY <1>1, <1>2, <1>3
  <2>2. new \in Rows /\ new.status = "CREATED" /\ new.schedule = order[o].schedule
    BY <1>2, <1>3 DEF Rows, Statuses
  <2> HIDE DEF new
  <2> QED
    BY <1>2, <1>3, <2>1, <2>2
<1>5. "REASSIGNING" \in Statuses
  BY DEF Statuses
<1> HIDE DEF o
<1>6. /\ history' \in [Orders -> SUBSET Statuses]
      /\ HistoryGrows /\ RowsLogged' /\ ScheduleRespected'
  BY <1>1, <1>2, <1>4, <1>5, RowWritten
<1>7. req' \in [Requests -> RequestTypes]
  BY <1>1, RequestsTyped DEF Grounded, TypeOK
<1>8. search' = [search EXCEPT ![s] = [stage |-> "near", order |-> o]]
  BY <1>1 DEF StartSearch
<1>9. TypeOK'
  BY <1>1, <1>2, <1>4, <1>6, <1>7, <1>8 DEF Grounded, TypeOK, Stages
<1>10. SearchesGrounded'
  BY <1>2, <1>6, <1>8 DEF Grounded, SearchesGrounded, HistoryGrows, TypeOK
<1>11. PaymentsGrounded' /\ PaymentsStay
  BY <1>1, <1>6, PaymentsKept DEF Grounded
<1>12. RequestsGrounded'
  BY <1>1, <1>6, <1>11, RequestsKept DEF Grounded, TypeOK, RequestsMove
<1> QED
  BY <1>6, <1>9, <1>10, <1>11, <1>12 DEF Grounded

LEMMA CourierStepGrounded ==
    ASSUME Grounded, NEW r \in Requests, CourierStep(r)
    PROVE  Grounded'
<1>1. CASE CreditUser(r)
  BY <1>1, BookGrounded DEF CreditUser, At, EntryKinds, Steps
<1>2. CASE CreditCourier(r)
  BY <1>2, BookGrounded DEF CreditCourier, At, EntryKinds, Steps
<1>3. CASE ReadScale(r)
  <2>1. req' \in [Requests -> RequestTypes]
    BY <1>3, RequestsTyped DEF ReadScale, Grounded, TypeOK, Steps
  <2>2. TypeOK' /\ UNCHANGED <<order, history, payment, search>>
    BY <1>3, <2>1 DEF ReadScale, Grounded, TypeOK, rowVars, searchVars, bookVars
  <2>3. RequestsMove(r)
    BY <1>3 DEF ReadScale, RequestsMove, Steps
  <2> QED
    BY <2>2, <2>3, InnerStepGrounded
<1> QED
  BY <1>1, <1>2, <1>3, ClaimGrounded, RefuseGrounded, TransitionCommitGrounded,
     RejectCommitGrounded, WeighingGrounded
  DEF CourierStep, ClaimTooLate, SubmitRefused

Invoices == [own : {"NONE", "OPEN", "PAID", "EXPIRED"}, stray : SUBSET Requests, lapsed : BOOLEAN]

\* What a field of an invoice is set to.
LEMMA InvoiceTyped ==
    ASSUME NEW i \in Invoices, NEW own \in {"NONE", "OPEN", "PAID", "EXPIRED"},
           NEW stray \in SUBSET Requests, NEW lapsed \in BOOLEAN
    PROVE  /\ [i EXCEPT !.own = own] \in Invoices
           /\ [i EXCEPT !.stray = stray] \in Invoices
           /\ [i EXCEPT !.own = own, !.stray = stray] \in Invoices
           /\ [i EXCEPT !.stray = stray, !.lapsed = lapsed] \in Invoices
  BY DEF Invoices

\* Whatever is written about invoices is in their type.
LEMMA InvoicesTyped ==
    ASSUME invoice \in [Payments -> Invoices], NEW p, NEW r \in Requests,
           \/ invoice' = [invoice EXCEPT ![p].stray = @ \union {r}]
           \/ invoice' = [invoice EXCEPT ![p].own = "OPEN", ![p].stray = @ \ {r}]
           \/ invoice' = [invoice EXCEPT ![p].own = "PAID"]
           \/ invoice' = [invoice EXCEPT ![p].own = "EXPIRED"]
           \/ invoice' = [invoice EXCEPT ![p].stray = @ \ {r}, ![p].lapsed = TRUE]
    PROVE  invoice' \in [Payments -> Invoices]
<1>1. CASE p \notin Payments
  BY <1>1
<1>2. CASE p \in Payments
  <2> DEFINE i == invoice[p]
  <2>1. i \in Invoices /\ i.stray \union {r} \in SUBSET Requests /\ i.stray \ {r} \in SUBSET Requests
    BY <1>2 DEF Invoices
  <2>2. \/ invoice' = [invoice EXCEPT ![p] = [i EXCEPT !.stray = i.stray \union {r}]]
        \/ invoice' = [invoice EXCEPT ![p] = [i EXCEPT !.own = "OPEN", !.stray = i.stray \ {r}]]
        \/ invoice' = [invoice EXCEPT ![p] = [i EXCEPT !.own = "PAID"]]
        \/ invoice' = [invoice EXCEPT ![p] = [i EXCEPT !.own = "EXPIRED"]]
        \/ invoice' = [invoice EXCEPT ![p] = [i EXCEPT !.stray = i.stray \ {r}, !.lapsed = TRUE]]
    OBVIOUS
  <2>3. \E j \in Invoices : invoice' = [invoice EXCEPT ![p] = j]
    <3> HIDE DEF i
    <3> QED
      BY <2>1, <2>2, InvoiceTyped
  <2> QED
    BY <2>3
<1> QED
  BY <1>1, <1>2

\* The writes that record a payment and move the order to PICKED_UP.
LEMMA PaymentWriteGrounded ==
    ASSUME Grounded, NEW r \in Requests, PayWalletCommit(r) \/ PaidCommit(r)
    PROVE  Grounded'
<1> DEFINE o == req[r].order
<1>1. /\ req[r].op \in {"payWallet", "paid"} /\ req[r].op # "idle"
      /\ SetStatus(o, "PICKED_UP") /\ Finish(r)
      /\ UNCHANGED <<scale, search, offered, invoice, entries>>
  BY DEF PayWalletCommit, PaidCommit, At, searchVars
<1>2. /\ RequestGrounded(r) /\ o \in Orders /\ "CREATED" \in history[o]
      /\ "WAITING_PAYMENT" \in history[o]
  BY <1>1, InFlight DEF RequestGrounded, Basis
<1>3. /\ order' \in [Orders -> Rows] /\ history' \in [Orders -> SUBSET Statuses]
      /\ HistoryGrows /\ RowsLogged' /\ ScheduleRespected'
  BY <1>1, <1>2, StatusWritten DEF Statuses
<1>4. /\ payment' \in [Payments -> [status : {"NONE", "PENDING", "PAID", "EXPIRED"},
                                   method : {"NONE", "WALLET", "XENDIT"},
                                   order : Orders \union {None}]]
      /\ PaymentsStay /\ PaymentsGrounded'
  <2>1. CASE PayWalletCommit(r)
    <3>1. payment' = [payment EXCEPT ![req[r].pay] =
                        [status |-> "PAID", method |-> "WALLET", order |-> o]]
      BY <2>1 DEF PayWalletCommit
    <3> QED
      BY <3>1, <1>2, <1>3 DEF Grounded, TypeOK, PaymentsStay, PaymentsGrounded, HistoryGrows
  <2>2. CASE PaidCommit(r)
    <3>1. /\ payment' = [payment EXCEPT ![req[r].pay].status = "PAID"]
          /\ req[r].op = "paid"
      BY <2>2 DEF PaidCommit, At
    <3>2. req[r].pay \in Payments /\ payment[req[r].pay].status # "NONE"
      BY <3>1, <1>2 DEF RequestGrounded
    <3>3. /\ payment' \in [Payments -> [status : {"NONE", "PENDING", "PAID", "EXPIRED"},
                                       method : {"NONE", "WALLET", "XENDIT"},
                                       order : Orders \union {None}]]
          /\ \A p \in Payments :
                /\ payment'[p].order = payment[p].order
                /\ payment'[p].status # "NONE" <=> payment[p].status # "NONE"
      <4> DEFINE row == [payment[req[r].pay] EXCEPT !.status = "PAID"]
      <4>0. payment[req[r].pay] \in [status : {"NONE", "PENDING", "PAID", "EXPIRED"},
                                     method : {"NONE", "WALLET", "XENDIT"},
                                     order : Orders \union {None}]
        BY <3>2 DEF Grounded, TypeOK
      <4>1. /\ row \in [status : {"NONE", "PENDING", "PAID", "EXPIRED"},
                        method : {"NONE", "WALLET", "XENDIT"},
                        order : Orders \union {None}]
            /\ row.order = payment[req[r].pay].order /\ row.status = "PAID"
        BY <4>0
      <4>2. payment' = [payment EXCEPT ![req[r].pay] = row]
        BY <3>1
      <4> HIDE DEF row
      <4> QED
        BY <4>1, <4>2, <3>2 DEF Grounded, TypeOK
    <3> QED
      BY <3>3, <1>3 DEF Grounded, PaymentsStay, PaymentsGrounded, HistoryGrows
  <2> QED
    BY <2>1, <2>2
<1>5. req' \in [Requests -> RequestTypes]
  BY <1>1, RequestsTyped DEF Grounded, TypeOK
<1>6. TypeOK'
  BY <1>1, <1>3, <1>4, <1>5 DEF Grounded, TypeOK
<1>7. RequestsGrounded' /\ SearchesGrounded'
  BY <1>1, <1>3, <1>4, RequestsKept, SearchesKept DEF Grounded, TypeOK, RequestsMove
<1> QED
  BY <1>3, <1>4, <1>6, <1>7 DEF Grounded

LEMMA RecordInvoiceGrounded ==
    ASSUME Grounded, NEW r \in Requests, RecordInvoice(r)
    PROVE  Grounded'
<1> DEFINE o == req[r].order
<1>1. /\ req[r].op = "payInvoice" /\ req[r].op # "idle" /\ Finish(r)
      /\ payment' = [payment EXCEPT ![req[r].pay] =
                       [status |-> "PENDING", method |-> "XENDIT", order |-> o]]
      /\ invoice' = [invoice EXCEPT ![req[r].pay].own = "OPEN", ![req[r].pay].stray = @ \ {r}]
      /\ UNCHANGED <<order, history, scale, search, offered, entries>>
  BY DEF RecordInvoice, At, rowVars, searchVars
<1>2. o \in Orders /\ "WAITING_PAYMENT" \in history[o]
  BY <1>1, InFlight DEF RequestGrounded, Basis
<1>3. RowsLogged' /\ ScheduleRespected' /\ HistoryGrows
  BY <1>1, RowsKept DEF Grounded
<1>4. /\ payment' \in [Payments -> [status : {"NONE", "PENDING", "PAID", "EXPIRED"},
                                   method : {"NONE", "WALLET", "XENDIT"},
                                   order : Orders \union {None}]]
      /\ PaymentsStay /\ PaymentsGrounded'
  BY <1>1, <1>2 DEF Grounded, TypeOK, PaymentsStay, PaymentsGrounded
<1>5. req' \in [Requests -> RequestTypes] /\ invoice' \in [Payments -> Invoices]
  BY <1>1, RequestsTyped, InvoicesTyped DEF Grounded, TypeOK, Invoices
<1>6. TypeOK'
  BY <1>1, <1>4, <1>5 DEF Grounded, TypeOK, Invoices
<1>7. RequestsGrounded' /\ SearchesGrounded'
  BY <1>1, <1>3, <1>4, RequestsKept, SearchesKept DEF Grounded, TypeOK, RequestsMove
<1> QED
  BY <1>3, <1>4, <1>6, <1>7 DEF Grounded

\* cancelOrder's transaction begins: the payment it found was asked for.
LEMMA CancelLockGrounded ==
    ASSUME Grounded, NEW r \in Requests, CancelLock(r)
    PROVE  Grounded'
<1>1. /\ req[r].op = "cancel" /\ HasPaid(req[r].order) /\ Continue(r, "refund")
      /\ UNCHANGED <<order, history, scale, search, offered, payment, invoice, entries>>
  BY DEF CancelLock, At, rowVars, searchVars, bookVars
<1>2. "WAITING_PAYMENT" \in history[req[r].order]
  BY <1>1 DEF HasPaid, Grounded, PaymentsGrounded
<1>3. req' \in [Requests -> RequestTypes]
  BY <1>1, RequestsTyped DEF Grounded, TypeOK, Steps
<1>4. TypeOK'
  BY <1>1, <1>3 DEF Grounded, TypeOK
<1>5. RowsLogged' /\ ScheduleRespected' /\ HistoryGrows
  BY <1>1, RowsKept DEF Grounded
<1>6. PaymentsGrounded' /\ SearchesGrounded'
  BY <1>1, <1>5, PaymentsKept, SearchesKept DEF Grounded
<1>7. RequestsGrounded'
  <2>1. SUFFICES ASSUME NEW q \in Requests, req'[q].op # "idle"
                 PROVE  RequestGrounded(q)'
    BY DEF RequestsGrounded
  <2>2. /\ req'[q].op = req[q].op /\ req'[q].order = req[q].order
        /\ req'[q].actor = req[q].actor /\ req'[q].pay = req[q].pay
        /\ q # r => req'[q].pc = req[q].pc
    BY <1>1 DEF Continue, Grounded, TypeOK, RequestTypes
  <2>3. RequestGrounded(q)
    BY <2>1, <2>2 DEF Grounded, RequestsGrounded
  <2> QED
    BY <2>2, <2>3, <1>1, <1>2 DEF RequestGrounded
<1> QED
  BY <1>4, <1>5, <1>6, <1>7 DEF Grounded

LEMMA UserStepGrounded ==
    ASSUME Grounded, NEW r \in Requests, UserStep(r)
    PROVE  Grounded'
<1>1. CASE ConfirmCommit(r) \/ CancelCommit(r) \/ CancelFinish(r)
  <2>1. PICK s \in {"WAITING_PAYMENT", "PICKED_UP", "CANCELLED"} : SetStatus(req[r].order, s)
    BY <1>1 DEF ConfirmCommit, CancelCommit, CancelFinish
  <2>2. /\ req[r].op # "idle" /\ Finish(r)
        /\ UNCHANGED <<scale, searchVars, payment, invoice, entries>>
    BY <1>1 DEF ConfirmCommit, CancelCommit, CancelFinish, At, bookVars
  <2>3. s \in Statuses \ {"MATCHED"} /\ s # "ON_GOING"
    BY DEF Statuses
  <2> QED
    BY <2>1, <2>2, <2>3, StatusStepGrounded DEF Grounded, TypeOK
<1>2. CASE DebitFare(r)
  BY <1>2, BookGrounded DEF DebitFare, At, EntryKinds, Steps
<1>3. CASE CancelRefund(r)
  BY <1>3, BookGrounded DEF CancelRefund, At, EntryKinds, Steps
<1>4. CASE CreateInvoice(r)
  <2>1. /\ req' \in [Requests -> RequestTypes]
        /\ invoice' \in [Payments -> Invoices]
    BY <1>4, RequestsTyped, InvoicesTyped DEF CreateInvoice, Grounded, TypeOK, Invoices, Steps
  <2>2. TypeOK' /\ UNCHANGED <<order, history, payment, search>>
    BY <1>4, <2>1 DEF CreateInvoice, Grounded, TypeOK, Invoices, rowVars, searchVars
  <2>3. RequestsMove(r)
    BY <1>4 DEF CreateInvoice, RequestsMove, Steps
  <2> QED
    BY <2>2, <2>3, InnerStepGrounded
<1> QED
  BY <1>1, <1>2, <1>3, <1>4, RefuseGrounded, PaymentWriteGrounded, RecordInvoiceGrounded,
     CancelLockGrounded
  DEF UserStep, PayRefused, IdTaken

-----------------------------------------------------------------------------
(* Everything else.                                                        *)

LEMMA CreateGrounded ==
    ASSUME Grounded, NEW o \in Orders, NEW schedule \in Schedules, NEW s \in Searches,
           Create(o, schedule, s)
    PROVE  Grounded'
<1>1. /\ order[o].status = "NONE"
      /\ order' = [order EXCEPT ![o].status = "CREATED", ![o].schedule = schedule]
      /\ history' = [history EXCEPT ![o] = @ \union {"CREATED"}]
      /\ search' = [search EXCEPT ![s] = [stage |-> "near", order |-> o]]
      /\ UNCHANGED <<scale, offered, payment, invoice, entries, req>>
  BY DEF Create, Log, StartSearch, bookVars
<1>2. /\ order \in [Orders -> Rows] /\ history \in [Orders -> SUBSET Statuses]
      /\ history[o] = {}
  BY <1>1 DEF Grounded, TypeOK, RowsLogged
<1>3. /\ order' \in [Orders -> Rows] /\ history' \in [Orders -> SUBSET Statuses]
      /\ order'[o].status = "CREATED" /\ order'[o].schedule = schedule
      /\ history'[o] = {"CREATED"}
      /\ \A q \in Orders \ {o} : order'[q] = order[q] /\ history'[q] = history[q]
  <2> DEFINE new == [order[o] EXCEPT !.status = "CREATED", !.schedule = schedule]
  <2>1. order' = [order EXCEPT ![o] = new]
    BY <1>1, <1>2
  <2>2. new \in Rows /\ new.status = "CREATED" /\ new.schedule = schedule
    BY <1>2 DEF Rows, Statuses
  <2>3. "CREATED" \in Statuses
    BY DEF Statuses
  <2> HIDE DEF new
  <2>4. /\ order' \in [Orders -> Rows] /\ order'[o] = new
        /\ \A q \in Orders \ {o} : order'[q] = order[q]
    BY <1>2, <2>1, <2>2
  <2>5. /\ history' \in [Orders -> SUBSET Statuses] /\ history'[o] = {"CREATED"}
        /\ \A q \in Orders \ {o} : history'[q] = history[q]
    BY <1>1, <1>2, <2>3
  <2> QED
    BY <2>2, <2>4, <2>5
<1>4. TypeOK'
  BY <1>1, <1>3 DEF Grounded, TypeOK, Stages
<1>5. HistoryGrows /\ RowsLogged' /\ ScheduleRespected'
  BY <1>2, <1>3 DEF HistoryGrows, Grounded, RowsLogged, ScheduleRespected
<1>6. SearchesGrounded'
  BY <1>1, <1>3, <1>5 DEF Grounded, SearchesGrounded, HistoryGrows, TypeOK
<1>7. PaymentsGrounded' /\ PaymentsStay
  BY <1>1, <1>5, PaymentsKept DEF Grounded
<1>8. RequestsGrounded'
  <2>1. SUFFICES ASSUME NEW q \in Requests, req'[q].op # "idle"
                 PROVE  RequestGrounded(q)'
    BY DEF RequestsGrounded
  <2>2. RequestGrounded(q) /\ req'[q] = req[q]
    BY <1>1, <2>1 DEF Grounded, RequestsGrounded
  <2> QED
    BY <2>2, <1>1, <1>5 DEF RequestGrounded, HistoryGrows
<1> QED
  BY <1>4, <1>5, <1>6, <1>7, <1>8 DEF Grounded

\* A search that gives up writes CANCELLED over whatever is there.
LEMMA GiveUpGrounded ==
    ASSUME Grounded, NEW s \in Searches, GiveUp(s)
    PROVE  Grounded'
<1> DEFINE o == search[s].order
<1>1. /\ search[s].stage = "giveUp" /\ SetStatus(o, "CANCELLED")
      /\ search' = [search EXCEPT ![s] = Quiet]
      /\ UNCHANGED <<scale, offered, payment, invoice, entries, req>>
  BY DEF GiveUp, bookVars
<1>2. o \in Orders /\ "CREATED" \in history[o]
  BY <1>1 DEF Grounded, SearchesGrounded
<1>3. /\ order' \in [Orders -> Rows] /\ history' \in [Orders -> SUBSET Statuses]
      /\ HistoryGrows /\ RowsLogged' /\ ScheduleRespected'
  BY <1>1, <1>2, StatusWritten DEF Statuses
<1>4. TypeOK'
  BY <1>1, <1>3 DEF Grounded, TypeOK, Quiet, Stages
<1>5. SearchesGrounded'
  BY <1>1, <1>3 DEF Grounded, SearchesGrounded, HistoryGrows, TypeOK, Quiet
<1>6. PaymentsGrounded' /\ PaymentsStay
  BY <1>1, <1>3, PaymentsKept DEF Grounded
<1>7. RequestsGrounded'
  <2>1. SUFFICES ASSUME NEW q \in Requests, req'[q].op # "idle"
                 PROVE  RequestGrounded(q)'
    BY DEF RequestsGrounded
  <2>2. RequestGrounded(q) /\ req'[q] = req[q]
    BY <1>1, <2>1 DEF Grounded, RequestsGrounded
  <2> QED
    BY <2>2, <1>1, <1>3 DEF RequestGrounded, HistoryGrows
<1> QED
  BY <1>3, <1>4, <1>5, <1>6, <1>7 DEF Grounded

\* The other steps of searches, and Xendit's, write no row of an order.
LEMMA OutsideGrounded ==
    ASSUME Grounded,
           \/ \E s \in Searches : Found(s) \/ NobodyNear(s) \/ NobodyAround(s) \/ LoseSearch(s)
           \/ \E p \in Payments : XenditStep(p)
    PROVE  Grounded'
<1>1. CASE \E s \in Searches : Found(s) \/ NobodyNear(s) \/ NobodyAround(s) \/ LoseSearch(s)
  <2>1. PICK s \in Searches : Found(s) \/ NobodyNear(s) \/ NobodyAround(s) \/ LoseSearch(s)
    BY <1>1
  <2>2. /\ UNCHANGED <<order, history, scale, payment, invoice, entries, req>>
        /\ offered' \in [Orders -> BOOLEAN]
    BY <2>1 DEF Found, NobodyNear, NobodyAround, LoseSearch, rowVars, bookVars,
                Grounded, TypeOK
  <2>3. PICK row \in {Quiet, [search[s] EXCEPT !.stage = "waiting"],
                            [search[s] EXCEPT !.stage = "giveUp"]} :
          /\ search' = [search EXCEPT ![s] = row]
          /\ row # Quiet => search[s].stage # "idle"
    BY <2>1 DEF Found, NobodyNear, NobodyAround, LoseSearch
  <2>3a. /\ row \in [stage : Stages, order : Orders \union {None}]
         /\ row.stage # "idle" => search[s].stage # "idle" /\ row.order = search[s].order
    <3>1. search[s] \in [stage : Stages, order : Orders \union {None}]
      BY DEF Grounded, TypeOK
    <3>2. /\ Quiet \in [stage : Stages, order : Orders \union {None}] /\ Quiet.stage = "idle"
          /\ {"waiting", "giveUp"} \subseteq Stages
      BY DEF Quiet, Stages
    <3>3. CASE row = Quiet
      BY <3>2, <3>3
    <3>4. CASE row # Quiet
      BY <2>3, <3>1, <3>2, <3>4
    <3> QED
      BY <3>3, <3>4
  <2>3b. search' \in [Searches -> [stage : Stages, order : Orders \union {None}]]
    BY <2>3, <2>3a DEF Grounded, TypeOK
  <2>4. TypeOK'
    BY <2>2, <2>3b DEF Grounded, TypeOK
  <2>5. SearchesGrounded'
    BY <2>2, <2>3, <2>3a DEF Grounded, SearchesGrounded, TypeOK
  <2> QED
    BY <2>2, <2>4, <2>5
    DEF Grounded, RowsLogged, RequestsGrounded, RequestGrounded, PaymentsGrounded,
        ScheduleRespected
<1>2. CASE \E p \in Payments : XenditStep(p)
  <2>1. PICK p \in Payments : XenditStep(p)
    BY <1>2
  <2>2. /\ UNCHANGED <<order, history, scale, search, offered, entries, req>>
        /\ \/ UNCHANGED payment
           \/ /\ payment[p].status # "NONE"
              /\ payment' = [payment EXCEPT ![p].status = "EXPIRED"]
    BY <2>1 DEF XenditStep, InvoicePaid, InvoiceExpired, StrayExpired, PaymentExpired,
                rowVars, searchVars
  <2>2a. invoice' \in [Payments -> Invoices]
    <3>1. invoice \in [Payments -> Invoices]
      BY DEF Grounded, TypeOK, Invoices
    <3>2. CASE InvoicePaid(p)
      BY <3>1, <3>2, InvoiceTyped DEF InvoicePaid
    <3>3. CASE InvoiceExpired(p)
      BY <3>1, <3>3, InvoiceTyped DEF InvoiceExpired
    <3>4. CASE \E i \in Requests : StrayExpired(p, i)
      BY <3>1, <3>4, InvoicesTyped DEF StrayExpired
    <3>5. CASE PaymentExpired(p)
      BY <3>1, <3>5 DEF PaymentExpired
    <3> QED
      BY <2>1, <3>2, <3>3, <3>4, <3>5 DEF XenditStep
  <2>3. /\ payment' \in [Payments -> [status : {"NONE", "PENDING", "PAID", "EXPIRED"},
                                     method : {"NONE", "WALLET", "XENDIT"},
                                     order : Orders \union {None}]]
        /\ \A q \in Payments :
              /\ payment'[q].order = payment[q].order
              /\ payment'[q].status # "NONE" <=> payment[q].status # "NONE"
    <3> DEFINE row == [payment[p] EXCEPT !.status = "EXPIRED"]
    <3>0. payment[p] \in [status : {"NONE", "PENDING", "PAID", "EXPIRED"},
                          method : {"NONE", "WALLET", "XENDIT"},
                          order : Orders \union {None}]
      BY DEF Grounded, TypeOK
    <3>1. /\ row \in [status : {"NONE", "PENDING", "PAID", "EXPIRED"},
                      method : {"NONE", "WALLET", "XENDIT"},
                      order : Orders \union {None}]
          /\ row.order = payment[p].order /\ row.status = "EXPIRED"
      BY <3>0
    <3>2. \/ UNCHANGED payment
          \/ payment[p].status # "NONE" /\ payment' = [payment EXCEPT ![p] = row]
      BY <2>2
    <3> HIDE DEF row
    <3>3. CASE UNCHANGED payment
      BY <3>3 DEF Grounded, TypeOK
    <3>4. CASE payment[p].status # "NONE" /\ payment' = [payment EXCEPT ![p] = row]
      BY <3>1, <3>4 DEF Grounded, TypeOK
    <3> QED
      BY <3>2, <3>3, <3>4
  <2>4. TypeOK'
    BY <2>2, <2>2a, <2>3 DEF Grounded, TypeOK, Invoices
  <2>5. PaymentsGrounded' /\ RequestsGrounded'
    BY <2>2, <2>3 DEF Grounded, PaymentsGrounded, RequestsGrounded, RequestGrounded
  <2> QED
    BY <2>2, <2>4, <2>5 DEF Grounded, RowsLogged, SearchesGrounded, ScheduleRespected
<1> QED
  BY <1>1, <1>2

-----------------------------------------------------------------------------
(* The theorems.                                                           *)

LEMMA InitGrounded == Init => Grounded
<1> SUFFICES ASSUME Init PROVE Grounded
  OBVIOUS
<1>1. NoRow \in Rows /\ Idle \in RequestTypes
  BY DEF NoRow, Rows, Schedules, Idle, RequestTypes, Steps
<1>2. TypeOK
  BY <1>1 DEF Init, TypeOK, Quiet, Stages, NoPayment, NoInvoice
<1> QED
  BY <1>2 DEF Init, Grounded, RowsLogged, RequestsGrounded, PaymentsGrounded,
              SearchesGrounded, ScheduleRespected, NoRow, Idle, NoPayment, Quiet

LEMMA NextGrounded == Grounded /\ [Next]_vars => Grounded'
<1> SUFFICES ASSUME Grounded, [Next]_vars PROVE Grounded'
  OBVIOUS
<1>1. ASSUME NEW r \in Requests, Arrive(r)
      PROVE  Grounded'
  BY <1>1, CourierReadGrounded, UserReadGrounded, PaidReadGrounded DEF Arrive
<1>2. ASSUME NEW r \in Requests, Proceed(r)
      PROVE  Grounded'
  BY <1>2, CourierStepGrounded, UserStepGrounded DEF Proceed
<1>3. ASSUME NEW r \in Requests, Drop(r)
      PROVE  Grounded'
  BY <1>3, RefuseGrounded DEF Drop
<1>4. ASSUME NEW s \in Searches, SearchStep(s) \/ LoseSearch(s)
      PROVE  Grounded'
  BY <1>4, GiveUpGrounded, OutsideGrounded DEF SearchStep
<1>5. CASE UNCHANGED vars
  BY <1>5 DEF vars, rowVars, searchVars, bookVars, Grounded, TypeOK, RowsLogged,
              RequestsGrounded, RequestGrounded, PaymentsGrounded, SearchesGrounded,
              ScheduleRespected
<1> QED
  BY <1>1, <1>2, <1>3, <1>4, <1>5, CreateGrounded, OutsideGrounded DEF Next

\* The invariant holds in every behaviour: every write of a handler rests on a
\* stage that is on the order's timeline.
THEOREM AlwaysGrounded == Spec => []Grounded
  BY InitGrounded, NextGrounded, PTL DEF Spec

\* The types of all rows, requests and searches (TypeOK).
THEOREM TypeCorrect == Spec => []TypeOK
<1>1. Grounded => TypeOK
  BY DEF Grounded
<1> QED
  BY <1>1, AlwaysGrounded, PTL

\* acceptOrder and depart respect the schedule (ScheduleRespected).
THEOREM ScheduleCorrect == Spec => []ScheduleRespected
<1>1. Grounded => ScheduleRespected
  BY DEF Grounded
<1> QED
  BY <1>1, AlwaysGrounded, PTL

-----------------------------------------------------------------------------
(* Orders implements Lifecycle.                                            *)

\* No order changes its courier, and no proceeds and no refund are booked.
SameHolders == \A o \in Orders : order'[o].courier = order[o].courier
SamePayouts ==
    \A o \in Orders : /\ entries'[o]["proceeds"] = entries[o]["proceeds"]
                      /\ entries'[o]["refund"] = entries[o]["refund"]

LEMMA Stutters ==
    ASSUME UNCHANGED history, SameHolders, SamePayouts
    PROVE  UNCHANGED LC!vars
  BY DEF LC!vars, SameHolders, SamePayouts

\* A step that only adds stage s to a timeline that holds s, or a stage that
\* leads to s.
LEMMA Advances ==
    ASSUME TypeOK, NEW o \in Orders, NEW s \in DOMAIN LC!LeadsTo, Log(o, s),
           s \in history[o] \/ LC!LeadsTo[s] \intersect history[o] # {},
           SameHolders, SamePayouts
    PROVE  [LC!Next]_(LC!vars)
<1>1. CASE s \in history[o]
  <2>1. UNCHANGED history
    BY <1>1 DEF Log, TypeOK
  <2> QED
    BY <2>1, Stutters
<1>2. CASE LC!LeadsTo[s] \intersect history[o] # {}
  <2>1. LC!Advance(o, s)
    BY <1>2 DEF LC!Advance, LC!Add, Log, SameHolders, SamePayouts
  <2> QED
    BY <2>1 DEF LC!Next
<1> QED
  BY <1>1, <1>2

\* A claim by c of an order that nobody else holds.
LEMMA Claims ==
    ASSUME NEW o \in Orders, NEW c \in Couriers, NEW s \in {"MATCHED", "ON_GOING"},
           order[o].courier \in {None, c}, "CREATED" \in history[o], Log(o, s),
           order'[o].courier = c,
           \A q \in Orders \ {o} : order'[q].courier = order[q].courier,
           UNCHANGED entries
    PROVE  LC!Next
<1>1. LC!Claim(o, c)
  BY DEF LC!Claim, LC!Add, Log
<1> QED
  BY <1>1 DEF LC!Next

\* A release of an order that was MATCHED.
LEMMA Releases ==
    ASSUME NEW o \in Orders, "MATCHED" \in history[o], Log(o, "REASSIGNING"),
           order'[o].courier = None,
           \A q \in Orders \ {o} : order'[q].courier = order[q].courier,
           UNCHANGED entries
    PROVE  LC!Next
<1>1. LC!Release(o)
  BY DEF LC!Release, LC!Add, Log
<1> QED
  BY <1>1 DEF LC!Next

\* One booking of a kind.
LEMMA Booked ==
    ASSUME TypeOK, NEW o \in Orders, NEW kind \in EntryKinds, Book(o, kind)
    PROVE  /\ entries'[o][kind] = entries[o][kind] + 1
           /\ \A k \in EntryKinds \ {kind} : entries'[o][k] = entries[o][k]
           /\ \A q \in Orders \ {o} : entries'[q] = entries[q]
<1>1. entries' = [entries EXCEPT ![o] = [entries[o] EXCEPT ![kind] = entries[o][kind] + 1]]
  BY DEF Book
<1> QED
  BY <1>1 DEF TypeOK

\* Proceeds of an order that was being delivered.
LEMMA PaysProceeds ==
    ASSUME TypeOK, NEW o \in Orders, "DELIVERING" \in history[o],
           UNCHANGED <<order, history>>, Book(o, "proceeds")
    PROVE  LC!Next
<1>1. /\ entries'[o]["proceeds"] = entries[o]["proceeds"] + 1
      /\ entries'[o]["refund"] = entries[o]["refund"]
      /\ \A q \in Orders \ {o} : entries'[q] = entries[q]
  BY Booked DEF EntryKinds
<1>2. LC!PayProceeds(o)
  BY <1>1 DEF LC!PayProceeds
<1> QED
  BY <1>2 DEF LC!Next

\* A refund of an order that a payment was asked for.
LEMMA Refunds ==
    ASSUME TypeOK, NEW o \in Orders, "WAITING_PAYMENT" \in history[o],
           UNCHANGED <<order, history>>, Book(o, "refund")
    PROVE  LC!Next
<1>1. /\ entries'[o]["refund"] = entries[o]["refund"] + 1
      /\ entries'[o]["proceeds"] = entries[o]["proceeds"]
      /\ \A q \in Orders \ {o} : entries'[q] = entries[q]
  BY Booked DEF EntryKinds
<1>2. LC!Refund(o)
  BY <1>1 DEF LC!Refund
<1> QED
  BY <1>2 DEF LC!Next

\* What leaves rows and ledger alone is a stutter; so is a booking of a kind
\* the lifecycle does not count.
LEMMA RowsUntouched ==
    ASSUME UNCHANGED <<order, history, entries>>
    PROVE  UNCHANGED LC!vars
  BY Stutters DEF SameHolders, SamePayouts

LEMMA OtherBooking ==
    ASSUME TypeOK, NEW o, NEW kind \in EntryKinds \ {"proceeds", "refund"},
           Book(o, kind)
    PROVE  SamePayouts
<1>1. entries' = [entries EXCEPT ![o] = [entries[o] EXCEPT ![kind] = entries[o][kind] + 1]]
  BY DEF Book
<1> QED
  BY <1>1 DEF TypeOK, SamePayouts, EntryKinds

\* SetStatus keeps the courier.
LEMMA StatusKeepsHolder ==
    ASSUME TypeOK, NEW o \in Orders, NEW s, SetStatus(o, s)
    PROVE  SameHolders /\ Log(o, s)
  BY DEF TypeOK, SetStatus, SameHolders, Rows

LEMMA CourierStepImplements ==
    ASSUME Grounded, NEW r \in Requests, CourierStep(r)
    PROVE  [LC!Next]_(LC!vars)
<1> DEFINE o == req[r].order
<1> TypeOK
  BY DEF Grounded
<1>1. req[r].op # "idle" => /\ o \in Orders /\ "CREATED" \in history[o]
                            /\ Basis[req[r].op] \intersect history[o] # {}
  BY InFlight DEF RequestGrounded
<1>2. CASE Claim(r)
  <2> DEFINE target == AcceptedStatus(order[o].schedule)
             c == req[r].actor
  <2>1. /\ req[r].op = "accept" /\ order[o].courier \in {None, c}
        /\ order' = [order EXCEPT ![o].courier = c, ![o].status = target]
        /\ Log(o, target) /\ UNCHANGED entries
    BY <1>2 DEF Claim, At, Claimable, bookVars
  <2>2. o \in Orders /\ "CREATED" \in history[o] /\ c \in Couriers
    BY <1>1, <2>1, InFlight DEF RequestGrounded
  <2>3. target \in {"MATCHED", "ON_GOING"}
    BY DEF AcceptedStatus
  <2>4. /\ order'[o].courier = c
        /\ \A q \in Orders \ {o} : order'[q].courier = order[q].courier
    BY <2>1, <2>2 DEF TypeOK, Rows
  <2> HIDE DEF o, c, target
  <2> QED
    BY <2>1, <2>2, <2>3, <2>4, Claims
<1>3. CASE CreditUser(r)
  <2>1. /\ req[r].op = "complete" /\ Book(o, "proceeds")
        /\ UNCHANGED <<order, history>>
    BY <1>3 DEF CreditUser, At, rowVars
  <2>2. o \in Orders /\ "DELIVERING" \in history[o]
    BY <1>1, <2>1 DEF Basis
  <2> QED
    BY <2>1, <2>2, PaysProceeds
<1>4. CASE CreditCourier(r)
  <2>1. Book(o, "commission") /\ UNCHANGED <<order, history>>
    BY <1>4 DEF CreditCourier, rowVars
  <2> QED
    BY <2>1, OtherBooking, Stutters DEF EntryKinds, SameHolders
<1>5. ASSUME NEW op \in DOMAIN Target, TransitionCommit(r, op)
      PROVE  [LC!Next]_(LC!vars)
  <2>1. /\ req[r].op = op /\ SetStatus(o, Target[op])
        /\ Book(o, "points") \/ UNCHANGED entries
    BY <1>5 DEF TransitionCommit, At
  <2>2. op \in {"depart", "arrive", "pickup", "deliver", "complete"}
    BY DEF Target
  <2>3. o \in Orders /\ Basis[op] \intersect history[o] # {}
    BY <1>1, <2>1, <2>2
  <2>4. Target[op] \in DOMAIN LC!LeadsTo /\ Basis[op] \subseteq LC!LeadsTo[Target[op]]
    BY <2>2 DEF Target, LC!LeadsTo, Basis
  <2>5. SamePayouts
    BY <2>1, OtherBooking DEF EntryKinds, SamePayouts
  <2>6. SameHolders /\ Log(o, Target[op])
    BY <2>1, <2>3, StatusKeepsHolder
  <2>7. LC!LeadsTo[Target[op]] \intersect history[o] # {}
    BY <2>3, <2>4
  <2> QED
    BY <2>3, <2>4, <2>5, <2>6, <2>7, Advances
<1>6. ASSUME NEW s \in Searches, RejectCommit(r, s)
      PROVE  [LC!Next]_(LC!vars)
  <2>1. /\ req[r].op = "reject" /\ Log(o, "REASSIGNING") /\ UNCHANGED entries
        /\ order' = [order EXCEPT ![o].courier = None, ![o].status = "CREATED"]
    BY <1>6 DEF RejectCommit, At, bookVars
  <2>2. o \in Orders /\ "MATCHED" \in history[o]
    BY <1>1, <2>1 DEF Basis
  <2>3. /\ order'[o].courier = None
        /\ \A q \in Orders \ {o} : order'[q].courier = order[q].courier
    BY <2>1, <2>2 DEF TypeOK, Rows
  <2> HIDE DEF o
  <2> QED
    BY <2>1, <2>2, <2>3, Releases
<1>7. CASE WeighCommit(r) \/ \E net \in NetValues : SubmitCommit(r, net)
  <2>1. /\ req[r].op \in {"startWeighing", "submit"} /\ Log(o, "WEIGHING") /\ UNCHANGED entries
        /\ \E net : order' = [order EXCEPT ![o].status = "WEIGHING", ![o].net = net]
    BY <1>7 DEF WeighCommit, SubmitCommit, At, bookVars
  <2>2. o \in Orders /\ ("ARRIVED" \in history[o] \/ "WEIGHING" \in history[o])
    BY <1>1, <2>1 DEF Basis
  <2>3. SameHolders /\ SamePayouts
    BY <2>1, <2>2 DEF TypeOK, Rows, SameHolders, SamePayouts
  <2>4. "WEIGHING" \in DOMAIN LC!LeadsTo /\ LC!LeadsTo["WEIGHING"] = {"ARRIVED"}
    BY DEF LC!LeadsTo
  <2> QED
    BY <2>1, <2>2, <2>3, <2>4, Advances
<1>8. CASE ClaimTooLate(r) \/ ReadScale(r) \/ SubmitRefused(r)
  BY <1>8, RowsUntouched
  DEF ClaimTooLate, ReadScale, SubmitRefused, Refuse, rowVars, bookVars
<1> QED
  BY <1>2, <1>3, <1>4, <1>5, <1>6, <1>7, <1>8 DEF CourierStep

LEMMA UserStepImplements ==
    ASSUME Grounded, NEW r \in Requests, UserStep(r)
    PROVE  [LC!Next]_(LC!vars)
<1> DEFINE o == req[r].order
<1> TypeOK
  BY DEF Grounded
<1>1. req[r].op # "idle" => /\ o \in Orders /\ "CREATED" \in history[o]
                            /\ Basis[req[r].op] \intersect history[o] # {}
  BY InFlight DEF RequestGrounded
<1>2. ASSUME NEW s \in {"WAITING_PAYMENT", "PICKED_UP", "CANCELLED"},
             SetStatus(o, s), UNCHANGED entries, req[r].op # "idle",
             LC!LeadsTo[s] \intersect history[o] # {}
      PROVE  [LC!Next]_(LC!vars)
  <2>1. SameHolders /\ Log(o, s) /\ SamePayouts
    BY <1>1, <1>2, StatusKeepsHolder DEF SamePayouts
  <2>2. s \in DOMAIN LC!LeadsTo
    BY DEF LC!LeadsTo
  <2> QED
    BY <1>1, <1>2, <2>1, <2>2, Advances
<1>3. CASE ConfirmCommit(r)
  <2>1. /\ req[r].op = "confirm" /\ UNCHANGED entries
        /\ SetStatus(o, "WAITING_PAYMENT") \/ SetStatus(o, "PICKED_UP")
    BY <1>3 DEF ConfirmCommit, At, bookVars
  <2>2. /\ LC!LeadsTo["WAITING_PAYMENT"] \intersect history[o] # {}
        /\ LC!LeadsTo["PICKED_UP"] \intersect history[o] # {}
    BY <1>1, <2>1 DEF Basis, LC!LeadsTo
  <2> QED
    BY <1>2, <2>1, <2>2
<1>4. CASE PayWalletCommit(r) \/ PaidCommit(r)
  <2>1. /\ req[r].op \in {"payWallet", "paid"} /\ UNCHANGED entries
        /\ SetStatus(o, "PICKED_UP")
    BY <1>4 DEF PayWalletCommit, PaidCommit, At
  <2>2. LC!LeadsTo["PICKED_UP"] \intersect history[o] # {}
    BY <1>1, <2>1 DEF Basis, LC!LeadsTo
  <2> QED
    BY <1>2, <2>1, <2>2
<1>5. CASE CancelCommit(r) \/ CancelFinish(r)
  <2>1. /\ req[r].op = "cancel" /\ UNCHANGED entries
        /\ SetStatus(o, "CANCELLED")
    BY <1>5 DEF CancelCommit, CancelFinish, At, bookVars
  <2>2. LC!LeadsTo["CANCELLED"] \intersect history[o] # {}
    BY <1>1, <2>1 DEF LC!LeadsTo
  <2> QED
    BY <1>2, <2>1, <2>2
<1>6. CASE DebitFare(r)
  <2>1. Book(o, "fare") /\ UNCHANGED <<order, history>>
    BY <1>6 DEF DebitFare, rowVars
  <2> QED
    BY <2>1, OtherBooking, Stutters DEF EntryKinds, SameHolders
<1>7. CASE CancelRefund(r)
  <2>1. /\ req[r].op = "cancel" /\ req[r].pc = "refund" /\ Book(o, "refund")
        /\ UNCHANGED <<order, history>>
    BY <1>7 DEF CancelRefund, At, rowVars
  <2>2. o \in Orders /\ "WAITING_PAYMENT" \in history[o]
    BY <2>1, InFlight DEF RequestGrounded
  <2> QED
    BY <2>1, <2>2, Refunds
<1>8. CASE PayRefused(r) \/ CreateInvoice(r) \/ RecordInvoice(r) \/ IdTaken(r) \/ CancelLock(r)
  BY <1>8, RowsUntouched
  DEF PayRefused, IdTaken, CreateInvoice, RecordInvoice, CancelLock, Refuse, rowVars, bookVars
<1> QED
  BY <1>3, <1>4, <1>5, <1>6, <1>7, <1>8 DEF UserStep

LEMMA CreateImplements ==
    ASSUME Grounded, NEW o \in Orders, NEW schedule \in Schedules, NEW s \in Searches,
           Create(o, schedule, s)
    PROVE  LC!Next
<1>1. /\ order[o].status = "NONE" /\ Log(o, "CREATED") /\ UNCHANGED entries
      /\ order' = [order EXCEPT ![o].status = "CREATED", ![o].schedule = schedule]
  BY DEF Create, bookVars
<1>2. history[o] = {}
  BY <1>1 DEF Grounded, RowsLogged
<1>3. \A q \in Orders : order'[q].courier = order[q].courier
  BY <1>1 DEF Grounded, TypeOK, Rows
<1>4. LC!Place(o)
  BY <1>1, <1>2, <1>3 DEF LC!Place, LC!Add, Log
<1> QED
  BY <1>4 DEF LC!Next

LEMMA GiveUpImplements ==
    ASSUME Grounded, NEW s \in Searches, GiveUp(s)
    PROVE  [LC!Next]_(LC!vars)
<1> DEFINE o == search[s].order
<1>1. SetStatus(o, "CANCELLED") /\ UNCHANGED entries /\ search[s].stage = "giveUp"
  BY DEF GiveUp, bookVars
<1>2. o \in Orders /\ "CREATED" \in history[o] /\ TypeOK
  BY <1>1 DEF Grounded, SearchesGrounded
<1>3. SameHolders /\ Log(o, "CANCELLED") /\ SamePayouts
  BY <1>1, <1>2, StatusKeepsHolder DEF SamePayouts
<1>4. /\ "CANCELLED" \in DOMAIN LC!LeadsTo
      /\ LC!LeadsTo["CANCELLED"] \intersect history[o] # {}
  BY <1>2 DEF LC!LeadsTo
<1> QED
  BY <1>2, <1>3, <1>4, Advances

\* A call that arrives only reads rows and books.
LEMMA ArriveReads ==
    ASSUME NEW r \in Requests, Arrive(r)
    PROVE  UNCHANGED <<rowVars, bookVars>>
<1>1. ASSUME NEW op, NEW pc, NEW o, NEW a, NEW p, Begin(r, op, pc, o, a, p)
      PROVE  UNCHANGED <<rowVars, bookVars>>
  BY <1>1 DEF Begin
<1>2. ASSUME NEW o, NEW c, CourierRead(r, o, c)
      PROVE  \E op, pc, a, p : Begin(r, op, pc, o, a, p)
  BY <1>2 DEF CourierRead, AcceptRead, TransitionRead, RejectRead, WeighRead, SubmitRead
<1>3. ASSUME NEW o, UserRead(r, o)
      PROVE  \E op, pc, a, p : Begin(r, op, pc, o, a, p)
  BY <1>3 DEF UserRead, ConfirmRead, PayRead, CancelRead
<1>4. ASSUME NEW p, PaidRead(r, p)
      PROVE  UNCHANGED <<rowVars, bookVars>>
  BY <1>1, <1>4 DEF PaidRead
<1> QED
  BY <1>1, <1>2, <1>3, <1>4 DEF Arrive

LEMMA NextImplements == Grounded /\ [Next]_vars => [LC!Next]_(LC!vars)
<1> SUFFICES ASSUME Grounded, [Next]_vars PROVE [LC!Next]_(LC!vars)
  OBVIOUS
<1>1. ASSUME NEW r \in Requests, Arrive(r) \/ Drop(r)
      PROVE  UNCHANGED LC!vars
  <2>1. UNCHANGED <<rowVars, bookVars>>
    BY <1>1, ArriveReads DEF Drop, Refuse
  <2> QED
    BY <2>1, RowsUntouched DEF rowVars, bookVars
<1>2. ASSUME NEW r \in Requests, Proceed(r)
      PROVE  [LC!Next]_(LC!vars)
  BY <1>2, CourierStepImplements, UserStepImplements DEF Proceed
<1>3. ASSUME NEW s \in Searches, SearchStep(s) \/ LoseSearch(s)
      PROVE  [LC!Next]_(LC!vars)
  <2>1. CASE Found(s) \/ NobodyNear(s) \/ NobodyAround(s) \/ LoseSearch(s)
    BY <2>1, RowsUntouched DEF Found, NobodyNear, NobodyAround, LoseSearch, rowVars, bookVars
  <2> QED
    BY <1>3, <2>1, GiveUpImplements DEF SearchStep
<1>4. ASSUME NEW p \in Payments, XenditStep(p)
      PROVE  UNCHANGED LC!vars
  BY <1>4, RowsUntouched
  DEF XenditStep, InvoicePaid, InvoiceExpired, StrayExpired, PaymentExpired, rowVars
<1>5. CASE UNCHANGED vars
  BY <1>5, RowsUntouched DEF vars, rowVars, bookVars
<1> QED
  BY <1>1, <1>2, <1>3, <1>4, <1>5, CreateImplements DEF Next

LEMMA InitImplements == Init => LC!Init
  BY DEF Init, LC!Init, NoRow, EntryKinds

\* Whatever runs concurrently, an order keeps the promises of Lifecycle: no
\* stage without one that leads to it, no courier replaced without a release,
\* no proceeds before the delivery, no refund without a payment asked for.
THEOREM OrdersImplementLifecycle == Spec => ImplementsLifecycle
  BY InitImplements, NextImplements, AlwaysGrounded, PTL
  DEF Spec, ImplementsLifecycle, LC!Spec
=============================================================================
