----------------------------- MODULE TableProofs -----------------------------
(***************************************************************************)
(* Proofs about who changes an order's status in Orders: every change is   *)
(* one that its caller may make from the status the caller had read, or    *)
(* one of the two whose handlers read no status.                           *)
(*                                                                         *)
(* The argument: a request keeps the status it read (seen) and its caller, *)
(* and its guards let it write only what this caller may write from that   *)
(* status (Allowed).  An order without a courier is one nobody claimed, so *)
(* that no courier cancels an order before claiming it (RowsPlain).        *)
(***************************************************************************)
EXTENDS OrdersProofs

\* What the guards of each operation have established of the status read and of
\* the caller.
Allowed(op, s, a) ==
    /\ op \in DOMAIN Target =>
          <<s, Target[op]>> \in ValidTransitions /\ Entitled(a, s, Target[op])
    /\ op = "accept" => a \in Couriers
    /\ op = "reject" => Entitled(a, s, "CREATED")
    /\ op \in {"startWeighing", "submit"} => Entitled(a, s, "WEIGHING")
    /\ op = "confirm" => Entitled(a, s, "WAITING_PAYMENT") /\ Entitled(a, s, "PICKED_UP")
    /\ op \in {"payWallet", "payInvoice"} =>
          s = "WAITING_PAYMENT" /\ Entitled(a, s, "PICKED_UP")
    /\ op = "cancel" => Entitled(a, s, "CANCELLED")

SeenFits == \A r \in Requests : Allowed(req[r].op, req[r].seen, req[r].actor)

\* An order that waits for a courier has none, and no row says REASSIGNING.
RowsPlain ==
    \A o \in Orders :
        /\ order[o].status # "REASSIGNING"
        /\ order[o].status = "CREATED" => order[o].courier = None

-----------------------------------------------------------------------------
(* The status a request has read.                                          *)

\* A new request remembers a status that its guards accept.
LEMMA BeginFits ==
    ASSUME req \in [Requests -> RequestTypes], SeenFits, NEW r \in Requests,
           NEW op, NEW pc, NEW o, NEW a, NEW p, Begin(r, op, pc, o, a, p),
           Allowed(op, order[o].status, a)
    PROVE  SeenFits'
<1>1. /\ req'[r].op = op /\ req'[r].seen = order[o].status
      /\ req'[r].actor = a
      /\ \A q \in Requests \ {r} : req'[q] = req[q]
  BY DEF Begin
<1>2. ASSUME NEW q \in Requests
      PROVE  Allowed(req'[q].op, req'[q].seen, req'[q].actor)
  BY <1>1 DEF SeenFits
<1> QED
  BY <1>2 DEF SeenFits

LEMMA IdleAllowed == Allowed(Idle.op, Idle.seen, Idle.actor)
  BY DEF Allowed, Idle, Target

\* A request that ends or goes on keeps it.
LEMMA MovesFit ==
    ASSUME req \in [Requests -> RequestTypes], SeenFits, NEW r \in Requests,
           Finish(r) \/ \E pc : Continue(r, pc)
    PROVE  SeenFits'
<1>1. ASSUME NEW q \in Requests
      PROVE  \/ /\ req'[q].op = req[q].op /\ req'[q].seen = req[q].seen
                /\ req'[q].actor = req[q].actor
             \/ req'[q] = Idle
  BY DEF Finish, Continue, RequestTypes
<1>2. ASSUME NEW q \in Requests
      PROVE  Allowed(req'[q].op, req'[q].seen, req'[q].actor)
  BY <1>1, <1>2, IdleAllowed DEF SeenFits
<1> QED
  BY <1>2 DEF SeenFits

\* The caller of a courier's endpoint is no owner.
LEMMA CouriersApart == \A c \in Couriers : c \notin {"USER", "ADMIN", "XENDIT"}
  BY NoneAssumption DEF Roles

\* What the guards of each handler establish.
LEMMA CourierAllowed ==
    ASSUME NEW c \in Couriers, NEW s
    PROVE  /\ \A op \in DOMAIN Target :
                 <<s, Target[op]>> \in ValidTransitions => Allowed(op, s, c)
           /\ Allowed("accept", s, c)
           /\ s = "MATCHED" => Allowed("reject", s, c)
           /\ s \in {"ARRIVED", "WEIGHING"} => Allowed("startWeighing", s, c)
           /\ s = "WEIGHING" => Allowed("submit", s, c)
<1>1. c # "USER"
  BY CouriersApart
<1>2. ASSUME NEW op \in DOMAIN Target, <<s, Target[op]>> \in ValidTransitions
      PROVE  Allowed(op, s, c)
  <2>1. op \in {"depart", "arrive", "pickup", "deliver", "complete"}
    BY DEF Target
  <2>2. <<s, Target[op]>> \in Changes(c)
    BY <1>1, <1>2, <2>1 DEF Changes, Target, ValidTransitions
  <2> QED
    BY <1>2, <2>1, <2>2 DEF Allowed, Entitled
<1>3. Allowed("accept", s, c)
  BY DEF Allowed, Target
<1>4. s = "MATCHED" => Allowed("reject", s, c)
  BY <1>1 DEF Allowed, Entitled, Changes, Target
<1>5. s \in {"ARRIVED", "WEIGHING"} => Allowed("startWeighing", s, c)
  BY <1>1 DEF Allowed, Entitled, Changes, Target
<1>6. s = "WEIGHING" => Allowed("submit", s, c)
  BY <1>1 DEF Allowed, Entitled, Changes, Target
<1> QED
  BY <1>2, <1>3, <1>4, <1>5, <1>6

LEMMA UserAllowed ==
    ASSUME NEW s
    PROVE  /\ s = "WEIGHING" => Allowed("confirm", s, "USER")
           /\ s = "WAITING_PAYMENT" =>
                 Allowed("payWallet", s, "USER") /\ Allowed("payInvoice", s, "USER")
           /\ Allowed("paid", s, "XENDIT")
  BY DEF Allowed, Entitled, Changes, Target

LEMMA CancelAllowed ==
    ASSUME NEW a \in Couriers \union {"USER", "ADMIN"},
           NEW s \in Statuses \ {"REASSIGNING"}, s \notin CancelBlocked(a),
           a \in Couriers => s # "CREATED"
    PROVE  Allowed("cancel", s, a)
<1>1. Entitled(a, s, "CANCELLED")
  BY CouriersApart DEF Entitled, Cancels, UserCancels, CancelBlocked, Statuses
<1> QED
  BY <1>1 DEF Allowed, Target

LEMMA ArriveFits ==
    ASSUME order \in [Orders -> Rows], req \in [Requests -> RequestTypes], RowsPlain, SeenFits,
           NEW r \in Requests, Arrive(r)
    PROVE  SeenFits'
<1>1. ASSUME NEW o \in Orders, NEW c \in Couriers, CourierRead(r, o, c)
      PROVE  SeenFits'
  <2>1. \E op, pc : Begin(r, op, pc, o, c, None) /\ Allowed(op, order[o].status, c)
    <3>1. ASSUME NEW op \in DOMAIN Target, TransitionRead(r, op, o, c)
          PROVE  \E pc : Begin(r, op, pc, o, c, None) /\ Allowed(op, order[o].status, c)
      BY <3>1, CourierAllowed DEF TransitionRead
    <3>2. CASE \/ AcceptRead(r, o, c) \/ RejectRead(r, o, c)
               \/ WeighRead(r, o, c) \/ SubmitRead(r, o, c)
      BY <3>2, CourierAllowed DEF AcceptRead, RejectRead, WeighRead, SubmitRead
    <3> QED
      BY <1>1, <3>1, <3>2 DEF CourierRead
  <2> QED
    BY <2>1, BeginFits
<1>2. ASSUME NEW o \in Orders, UserRead(r, o)
      PROVE  SeenFits'
  <2>1. CASE ConfirmRead(r, o)
    BY <2>1, UserAllowed, BeginFits DEF ConfirmRead
  <2>2. ASSUME NEW op \in {"payWallet", "payInvoice"}, NEW p \in Payments, PayRead(r, op, o, p)
        PROVE  SeenFits'
    <3>1. PICK pc : Begin(r, op, pc, o, "USER", p)
      BY <2>2 DEF PayRead
    <3>2. Allowed(op, order[o].status, "USER")
      BY <2>2, UserAllowed DEF PayRead, NeedsPayment
    <3> QED
      BY <3>1, <3>2, BeginFits
  <2>3. ASSUME NEW a \in Couriers \union {"USER", "ADMIN"}, CancelRead(r, o, a)
        PROVE  SeenFits'
    <3>1. /\ Begin(r, "cancel", "commit", o, a, None)
          /\ order[o].status \in Statuses /\ order[o].status \notin CancelBlocked(a)
          /\ a \in Couriers => order[o].courier = a
      BY <2>3 DEF CancelRead, Begin, Rows
    <3>2. a \in Couriers => order[o].status # "CREATED"
      BY <3>1, NoneAssumption DEF RowsPlain
    <3>3. Allowed("cancel", order[o].status, a)
      BY <3>1, <3>2, CancelAllowed DEF RowsPlain
    <3> QED
      BY <3>1, <3>3, BeginFits
  <2> QED
    BY <1>2, <2>1, <2>2, <2>3 DEF UserRead
<1>3. ASSUME NEW p \in Payments, PaidRead(r, p)
      PROVE  SeenFits'
  BY <1>3, UserAllowed, BeginFits DEF PaidRead
<1> QED
  BY <1>1, <1>2, <1>3 DEF Arrive

\* A request under way ends or goes on.
LEMMA ProceedMoves ==
    ASSUME NEW r \in Requests, Proceed(r) \/ Drop(r)
    PROVE  Finish(r) \/ \E pc : Continue(r, pc)
<1>1. CASE CourierStep(r)
  BY <1>1 DEF CourierStep, Claim, ClaimTooLate, CreditUser, CreditCourier, TransitionCommit,
              RejectCommit, WeighCommit, ReadScale, SubmitRefused, SubmitCommit, Refuse
<1>2. CASE UserStep(r)
  BY <1>2 DEF UserStep, ConfirmCommit, DebitFare, PayRefused, PayWalletCommit, CreateInvoice,
              RecordInvoice, IdTaken, PaidCommit, CancelCommit, CancelLock, CancelRefund,
              CancelFinish, Refuse
<1>3. CASE Drop(r)
  BY <1>3 DEF Drop, Refuse
<1> QED
  BY <1>1, <1>2, <1>3 DEF Proceed

LEMMA SeenStep == TypeOK /\ RowsPlain /\ SeenFits /\ [Next]_vars => SeenFits'
<1> SUFFICES ASSUME TypeOK, RowsPlain, SeenFits, [Next]_vars PROVE SeenFits'
  OBVIOUS
<1>1. order \in [Orders -> Rows] /\ req \in [Requests -> RequestTypes]
  BY DEF TypeOK
<1>2. ASSUME UNCHANGED req
      PROVE  SeenFits'
  BY <1>2 DEF SeenFits
<1>3. ASSUME \/ \E o \in Orders, schedule \in Schedules, s \in Searches : Create(o, schedule, s)
             \/ \E s \in Searches : SearchStep(s) \/ LoseSearch(s)
             \/ \E p \in Payments : XenditStep(p)
             \/ UNCHANGED vars
      PROVE  UNCHANGED req
  BY <1>3 DEF Create, SearchStep, LoseSearch, Found, NobodyNear, NobodyAround, GiveUp,
              XenditStep, InvoicePaid, InvoiceExpired, StrayExpired, PaymentExpired, vars
<1> QED
  BY <1>1, <1>2, <1>3, ArriveFits, MovesFit, ProceedMoves DEF Next

LEMMA InitSeen == Init => SeenFits
  BY IdleAllowed DEF Init, SeenFits

-----------------------------------------------------------------------------
(* The writes.                                                             *)

\* One change of an order's row: by its caller's right, or blindly.
Change(o) ==
    \/ order'[o].status = order[o].status
    \/ order[o].status = "NONE" /\ order'[o].status = "CREATED"
    \/ \E r \in Requests : req[r].op # "idle" /\ MadeBy(r, o)
    \/ /\ order'[o].status = "PICKED_UP"
       /\ \E r \in Requests : At(r, "paid", "commit") /\ req[r].order = o /\ req'[r] = Idle
    \/ /\ order'[o].status = "CANCELLED"
       /\ \E s \in Searches :
             search[s] = [stage |-> "giveUp", order |-> o] /\ search'[s] = Quiet

\* A row that is written is still plain.
Plain(o) ==
    /\ order'[o].status # "REASSIGNING"
    /\ order'[o].status = "CREATED" => order'[o].courier = None

Kept == \A o \in Orders : Change(o) /\ Plain(o)

\* Request r ends with a write of its order's row.
LEMMA WriteKept ==
    ASSUME req \in [Requests -> RequestTypes], RowsPlain, NEW r \in Requests, Finish(r),
           req[r].op # "idle", NEW t, t # "REASSIGNING", order'[req[r].order].status = t,
           t = "CREATED" => order'[req[r].order].courier = None,
           \A o \in Orders \ {req[r].order} : order'[o] = order[o],
           \/ t = "PICKED_UP" /\ At(r, "paid", "commit")
           \/ req[r].op # "accept" /\ Entitled(req[r].actor, req[r].seen, t)
           \/ req[r].op = "accept" /\ Entitled(req[r].actor, order[req[r].order].status, t)
    PROVE  Kept
<1>1. req'[r] = Idle
  BY DEF Finish
<1>2. ASSUME NEW o \in Orders, o # req[r].order
      PROVE  Change(o) /\ Plain(o)
  BY <1>2 DEF Change, Plain, RowsPlain
<1>3. ASSUME NEW o \in Orders, o = req[r].order
      PROVE  Change(o) /\ Plain(o)
  <2>1. Plain(o)
    BY <1>3 DEF Plain
  <2>2. CASE t = "PICKED_UP" /\ At(r, "paid", "commit")
    BY <1>1, <1>3, <2>1, <2>2 DEF Change
  <2>3. CASE \/ req[r].op # "accept" /\ Entitled(req[r].actor, req[r].seen, t)
             \/ req[r].op = "accept" /\ Entitled(req[r].actor, order[req[r].order].status, t)
    <3>1. MadeBy(r, o)
      BY <1>1, <1>3, <2>3 DEF MadeBy
    <3> QED
      BY <2>1, <3>1 DEF Change
  <2> QED
    BY <2>2, <2>3
<1> QED
  BY <1>2, <1>3 DEF Kept

LEMMA SameKept == RowsPlain /\ UNCHANGED order => Kept
  BY DEF Kept, Change, Plain, RowsPlain

\* The rows' parts that a write changes.
LEMMA StatusSet ==
    ASSUME order \in [Orders -> Rows], NEW o \in Orders, NEW s, SetStatus(o, s)
    PROVE  order'[o].status = s /\ \A q \in Orders \ {o} : order'[q] = order[q]
  BY DEF SetStatus, Rows

LEMMA CourierKept ==
    ASSUME Grounded, RowsPlain, SeenFits, NEW r \in Requests, CourierStep(r)
    PROVE  Kept
<1>0. PICK o : o = req[r].order
  OBVIOUS
<1>1. /\ req \in [Requests -> RequestTypes] /\ order \in [Orders -> Rows]
      /\ Allowed(req[r].op, req[r].seen, req[r].actor)
  BY DEF Grounded, TypeOK, SeenFits
<1>2. req[r].op # "idle" => o \in Orders
  BY <1>0, InFlight
<1>4. CASE Claim(r)
  <2>1. PICK t : t = AcceptedStatus(order[o].schedule)
    OBVIOUS
  <2>2. /\ req[r].op = "accept" /\ Finish(r) /\ order[o].status \in {"CREATED", "MATCHED"}
        /\ order' = [order EXCEPT ![o].courier = req[r].actor, ![o].status = t]
    BY <1>0, <1>4, <2>1 DEF Claim, At, Claimable
  <2>3. t \in {"ON_GOING", "MATCHED"}
    BY <2>1 DEF AcceptedStatus
  <2>4. req[r].actor \in Couriers /\ req[r].actor # "USER"
    BY <1>1, <2>2, CouriersApart DEF Allowed
  <2>5. Entitled(req[r].actor, order[o].status, t)
    BY <2>2, <2>3, <2>4 DEF Entitled, Changes
  <2>6. order'[o].status = t /\ \A q \in Orders \ {o} : order'[q] = order[q]
    BY <1>1, <1>2, <2>2 DEF Rows
  <2> QED
    BY <1>0, <1>1, <2>2, <2>3, <2>5, <2>6, WriteKept
<1>5. ASSUME NEW op \in DOMAIN Target, TransitionCommit(r, op)
      PROVE  Kept
  <2>1. /\ req[r].op = op /\ SetStatus(o, Target[op]) /\ Finish(r)
        /\ op \notin {"idle", "accept"} /\ Target[op] \notin {"REASSIGNING", "CREATED"}
    BY <1>0, <1>5 DEF TransitionCommit, At, Target
  <2>2. order'[o].status = Target[op] /\ \A q \in Orders \ {o} : order'[q] = order[q]
    BY <1>1, <1>2, <2>1, StatusSet
  <2>3. Entitled(req[r].actor, req[r].seen, Target[op])
    BY <1>1, <2>1 DEF Allowed
  <2> QED
    BY <1>0, <1>1, <2>1, <2>2, <2>3, WriteKept
<1>6. CASE \E s \in Searches : RejectCommit(r, s)
  <2>1. /\ req[r].op = "reject" /\ Finish(r)
        /\ order' = [order EXCEPT ![o].courier = None, ![o].status = "CREATED"]
    BY <1>0, <1>6 DEF RejectCommit, At
  <2>2. /\ order'[o].status = "CREATED" /\ order'[o].courier = None
        /\ \A q \in Orders \ {o} : order'[q] = order[q]
    BY <1>1, <1>2, <2>1 DEF Rows
  <2>3. Entitled(req[r].actor, req[r].seen, "CREATED")
    BY <1>1, <2>1 DEF Allowed
  <2> QED
    BY <1>0, <1>1, <2>1, <2>2, <2>3, WriteKept
<1>7. CASE WeighCommit(r) \/ \E net \in NetValues : SubmitCommit(r, net)
  <2>1. /\ req[r].op \in {"startWeighing", "submit"} /\ Finish(r)
        /\ \E net : order' = [order EXCEPT ![o].status = "WEIGHING", ![o].net = net]
    BY <1>0, <1>7 DEF WeighCommit, SubmitCommit, At
  <2>2. order'[o].status = "WEIGHING" /\ \A q \in Orders \ {o} : order'[q] = order[q]
    BY <1>1, <1>2, <2>1 DEF Rows
  <2>3. Entitled(req[r].actor, req[r].seen, "WEIGHING")
    BY <1>1, <2>1 DEF Allowed
  <2> QED
    BY <1>0, <1>1, <2>1, <2>2, <2>3, WriteKept
<1>8. CASE ClaimTooLate(r) \/ CreditUser(r) \/ CreditCourier(r) \/ ReadScale(r) \/ SubmitRefused(r)
  BY <1>8, SameKept
  DEF ClaimTooLate, CreditUser, CreditCourier, ReadScale, SubmitRefused, Refuse, rowVars
<1> QED
  BY <1>4, <1>5, <1>6, <1>7, <1>8 DEF CourierStep

LEMMA UserKept ==
    ASSUME Grounded, RowsPlain, SeenFits, NEW r \in Requests, UserStep(r)
    PROVE  Kept
<1>0. PICK o : o = req[r].order
  OBVIOUS
<1>1. /\ req \in [Requests -> RequestTypes] /\ order \in [Orders -> Rows]
      /\ Allowed(req[r].op, req[r].seen, req[r].actor)
  BY DEF Grounded, TypeOK, SeenFits
<1>2. ASSUME NEW s \in {"WAITING_PAYMENT", "PICKED_UP", "CANCELLED"}, SetStatus(o, s), Finish(r),
             req[r].op \notin {"idle", "accept"},
             \/ s = "PICKED_UP" /\ At(r, "paid", "commit")
             \/ Entitled(req[r].actor, req[r].seen, s)
      PROVE  Kept
  <2>1. o \in Orders
    BY <1>0, <1>2, InFlight
  <2>2. order'[o].status = s /\ \A q \in Orders \ {o} : order'[q] = order[q]
    BY <1>1, <1>2, <2>1, StatusSet
  <2> QED
    BY <1>0, <1>1, <1>2, <2>2, WriteKept
<1>3. CASE ConfirmCommit(r)
  <2>1. /\ req[r].op = "confirm" /\ Finish(r)
        /\ SetStatus(o, "WAITING_PAYMENT") \/ SetStatus(o, "PICKED_UP")
    BY <1>0, <1>3 DEF ConfirmCommit, At
  <2> QED
    BY <1>1, <1>2, <2>1 DEF Allowed
<1>4. CASE PayWalletCommit(r)
  <2>1. req[r].op = "payWallet" /\ Finish(r) /\ SetStatus(o, "PICKED_UP")
    BY <1>0, <1>4 DEF PayWalletCommit, At
  <2> QED
    BY <1>1, <1>2, <2>1 DEF Allowed
<1>5. CASE PaidCommit(r)
  <2>1. At(r, "paid", "commit") /\ Finish(r) /\ SetStatus(o, "PICKED_UP")
    BY <1>0, <1>5 DEF PaidCommit
  <2> QED
    BY <1>2, <2>1 DEF At
<1>6. CASE CancelCommit(r) \/ CancelFinish(r)
  <2>1. req[r].op = "cancel" /\ Finish(r) /\ SetStatus(o, "CANCELLED")
    BY <1>0, <1>6 DEF CancelCommit, CancelFinish, At
  <2> QED
    BY <1>1, <1>2, <2>1 DEF Allowed
<1>7. CASE \/ DebitFare(r) \/ PayRefused(r) \/ CreateInvoice(r) \/ RecordInvoice(r)
           \/ IdTaken(r) \/ CancelLock(r) \/ CancelRefund(r)
  BY <1>7, SameKept
  DEF DebitFare, PayRefused, CreateInvoice, RecordInvoice, IdTaken, CancelLock, CancelRefund,
      Refuse, rowVars
<1> QED
  BY <1>3, <1>4, <1>5, <1>6, <1>7 DEF UserStep

LEMMA KeptStep == Grounded /\ RowsPlain /\ SeenFits /\ [Next]_vars => Kept
<1> SUFFICES ASSUME Grounded, RowsPlain, SeenFits, [Next]_vars PROVE Kept
  OBVIOUS
<1>1. /\ order \in [Orders -> Rows]
      /\ search \in [Searches -> [stage : Stages, order : Orders \union {None}]]
  BY DEF Grounded, TypeOK
<1>2. ASSUME NEW r \in Requests, Arrive(r) \/ Drop(r)
      PROVE  UNCHANGED order
  BY <1>2, ArriveReads DEF Drop, Refuse, rowVars
<1>3. ASSUME NEW r \in Requests, Proceed(r)
      PROVE  Kept
  BY <1>3, CourierKept, UserKept DEF Proceed
<1>4. ASSUME NEW o \in Orders, NEW schedule \in Schedules, NEW s \in Searches,
             Create(o, schedule, s)
      PROVE  Kept
  <2>1. /\ order[o].status = "NONE" /\ order[o].courier = None
        /\ order' = [order EXCEPT ![o].status = "CREATED", ![o].schedule = schedule]
    BY <1>4 DEF Create, Grounded, RowsLogged
  <2>2. /\ order'[o].status = "CREATED" /\ order'[o].courier = None
        /\ \A q \in Orders \ {o} : order'[q] = order[q]
    BY <1>1, <2>1 DEF Rows
  <2> QED
    BY <2>1, <2>2 DEF Kept, Change, Plain, RowsPlain
<1>5. ASSUME NEW s \in Searches, SearchStep(s) \/ LoseSearch(s)
      PROVE  Kept
  <2>1. CASE GiveUp(s)
    <3>1. PICK o : o = search[s].order
      OBVIOUS
    <3>2. /\ search[s].stage = "giveUp" /\ search'[s] = Quiet
          /\ search[s] = [stage |-> "giveUp", order |-> o]
      BY <1>1, <2>1, <3>1 DEF GiveUp
    <3>3. o \in Orders
      BY <3>1, <3>2 DEF Grounded, SearchesGrounded
    <3>4. order'[o].status = "CANCELLED" /\ \A q \in Orders \ {o} : order'[q] = order[q]
      BY <1>1, <2>1, <3>1, <3>3, StatusSet DEF GiveUp
    <3> QED
      BY <3>2, <3>4 DEF Kept, Change, Plain, RowsPlain
  <2>2. CASE Found(s) \/ NobodyNear(s) \/ NobodyAround(s) \/ LoseSearch(s)
    BY <2>2, SameKept DEF Found, NobodyNear, NobodyAround, LoseSearch, rowVars
  <2> QED
    BY <1>5, <2>1, <2>2 DEF SearchStep
<1>6. ASSUME (\E p \in Payments : XenditStep(p)) \/ UNCHANGED vars
      PROVE  UNCHANGED order
  BY <1>6 DEF XenditStep, InvoicePaid, InvoiceExpired, StrayExpired, PaymentExpired, vars, rowVars
<1> QED
  BY <1>2, <1>3, <1>4, <1>5, <1>6, SameKept DEF Next

LEMMA InitPlain == Init => RowsPlain
  BY DEF Init, RowsPlain, NoRow

LEMMA AlwaysSeen == Spec => [](RowsPlain /\ SeenFits)
<1>1. Grounded /\ RowsPlain /\ SeenFits /\ [Next]_vars => RowsPlain' /\ SeenFits'
  <2>1. Kept => RowsPlain'
    BY DEF Kept, Plain, RowsPlain
  <2> QED
    BY <2>1, KeptStep, SeenStep DEF Grounded
<1> QED
  BY <1>1, InitSeen, InitPlain, AlwaysGrounded, PTL DEF Spec

\* What ChangesAreEntitled says of one order.
Entitlement(o) ==
  \/ order'[o].status = order[o].status
  \/ order[o].status = "NONE" /\ order'[o].status = "CREATED"
  \/ \E r \in Requests : MadeBy(r, o)
  \/ /\ order'[o].status = "PICKED_UP"
     /\ \E r \in Requests : At(r, "paid", "commit") /\ req[r].order = o /\ req'[r] = Idle
  \/ /\ order'[o].status = "CANCELLED"
     /\ \E s \in Searches :
           search[s] = [stage |-> "giveUp", order |-> o] /\ search'[s] = Quiet

\* Every change of an order's status is its caller's to make from the status the
\* caller had read, whichever handlers commit in between; only the callback and
\* the search's auto-cancel write without looking (ChangesAreEntitled).
THEOREM ChangesEntitled == Spec => ChangesAreEntitled
<1>1. Grounded /\ RowsPlain /\ SeenFits /\ [Next]_vars => [\A o \in Orders : Entitlement(o)]_vars
  <2>1. Kept => \A o \in Orders : Entitlement(o)
    BY DEF Kept, Change, Entitlement
  <2> QED
    BY <2>1, KeptStep
<1>2. Spec => [][\A o \in Orders : Entitlement(o)]_vars
  BY <1>1, AlwaysSeen, AlwaysGrounded, PTL DEF Spec
<1> QED
  BY <1>2 DEF ChangesAreEntitled, Entitlement
=============================================================================
