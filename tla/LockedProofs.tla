----------------------------- MODULE LockedProofs -----------------------------
(***************************************************************************)
(* Proofs about Wallet when the requests of a withdrawal come one at a     *)
(* time: other withdrawals, payments, credits and Xendit still run beside  *)
(* them.  Then balance and ledger agree to the unit, and only what is      *)
(* PENDING is decided.  This is what a lock on the withdrawal's row, held  *)
(* from a handler's read to its write, would buy; that no withdrawal is    *)
(* both given back and paid out takes approvals that do not die, too.      *)
(*                                                                         *)
(* The argument: a request writes over the status it has read, so a        *)
(* withdrawal that is not settled has a hold that was not given back.      *)
(***************************************************************************)
EXTENDS WalletProofs

\* No two requests in flight work on one withdrawal.
OnePerWithdrawal ==
    \A r, q \in Requests :
        r # q /\ req[r].withdrawal = req[q].withdrawal => req[r].withdrawal = None

\* Nothing a request has read of its withdrawal is stale, and a withdrawal that
\* is being paid out is held.
Current == \A r \in Requests : ~ Overtaken(r)
Held == \A w \in Withdrawals : withdrawal[w].status = "PROCESSING" => row[w] = "PENDING"

\* Balance and ledger agree to the unit.
Exact == \A u \in Users : balance[u] = ledger[u]

LockedInv == Current /\ Held /\ Exact

\* What was given back was not paid out, and will not be.
ReturnedUnpaid ==
    \A w \in Withdrawals : row[w] = "FAILED" => payout[w] \in {"NONE", "FAILED"}

\* A payout that its withdrawal does not show has an approval under way.
UnpaidInv ==
    /\ ReturnedUnpaid
    /\ \A w \in Withdrawals :
          withdrawal[w].status = "PENDING" /\ payout[w] # "NONE"
            => \E r \in Requests : At(r, "approve", "commit") /\ req[r].withdrawal = w
    /\ \A r \in Requests : req[r].op = "failed" => payout[req[r].withdrawal] = "FAILED"

-----------------------------------------------------------------------------
(* Nobody is overtaken.                                                    *)

\* A request that ends writes its own withdrawal only.
EndsOwn(r) ==
    /\ Finish(r)
    /\ \A v \in Withdrawals \ {req[r].withdrawal} :
          withdrawal'[v] = withdrawal[v] /\ row'[v] = row[v]

\* A request that ends leaves what the others have read.
LEMMA EndKeepsCurrent ==
    ASSUME Grounded, OnePerWithdrawal, Current, Held, NEW r \in Requests, EndsOwn(r), Held'
    PROVE  Current'
<1> SUFFICES ASSUME NEW q \in Requests, Overtaken(q)' PROVE FALSE
  BY DEF Current
<1>1. req \in [Requests -> RequestTypes] /\ req' = [req EXCEPT ![r] = Idle]
  BY DEF Grounded, TypeOK, EndsOwn, Finish
<1>2. q # r
  BY <1>1 DEF Overtaken, Idle
<1>3. req'[q] = req[q] /\ req[q] \in RequestTypes
  BY <1>1, <1>2
<1>4. req[q].withdrawal # None /\ req[q].withdrawal \in Withdrawals
  BY <1>3 DEF Overtaken, RequestTypes
<1>5. req[q].withdrawal # req[r].withdrawal
  BY <1>2, <1>4 DEF OnePerWithdrawal
<1>6. withdrawal'[req[q].withdrawal] = withdrawal[req[q].withdrawal]
      /\ row'[req[q].withdrawal] = row[req[q].withdrawal]
  BY <1>4, <1>5 DEF EndsOwn
<1> QED
  BY <1>3, <1>6 DEF Overtaken, Current

\* Withdrawals rest: a request goes on, ends, or has just read its withdrawal.
LEMMA RestKeepsLocked ==
    ASSUME Current, Held, UNCHANGED <<withdrawal, row>>,
           \A q \in Requests :
              \/ req'[q].withdrawal = None
              \/ req'[q].withdrawal = req[q].withdrawal /\ req'[q].seen = req[q].seen
              \/ /\ req'[q].withdrawal \in Withdrawals
                 /\ req'[q].seen = withdrawal[req'[q].withdrawal].status
    PROVE  Current' /\ Held'
<1>1. Held'
  BY DEF Held
<1>2. ASSUME NEW q \in Requests, Overtaken(q)'
      PROVE  FALSE
  BY <1>2 DEF Current, Held, Overtaken
<1> QED
  BY <1>1, <1>2 DEF Current

\* What a call that arrives carries.
LEMMA ArriveReads ==
    ASSUME Grounded, NEW r \in Requests, Arrive(r)
    PROVE  /\ UNCHANGED <<balance, ledger, withdrawal, row, payout, lost>>
           /\ \A q \in Requests \ {r} : req'[q] = req[q]
           /\ \/ req'[r].withdrawal = None
              \/ /\ req'[r].withdrawal \in Withdrawals
                 /\ req'[r].seen = withdrawal[req'[r].withdrawal].status
           /\ req'[r].op = "failed" => payout[req'[r].withdrawal] = "FAILED"
           /\ req[r] = Idle
<1>1. ASSUME NEW op, NEW pc, NEW u, NEW w \in Withdrawals \union {None}, NEW a,
             Begin(r, op, pc, u, w, a), op = "failed" => payout[w] = "FAILED"
      PROVE  /\ UNCHANGED <<balance, ledger, withdrawal, row, payout, lost>>
             /\ \A q \in Requests \ {r} : req'[q] = req[q]
             /\ \/ req'[r].withdrawal = None
                \/ /\ req'[r].withdrawal \in Withdrawals
                   /\ req'[r].seen = withdrawal[req'[r].withdrawal].status
             /\ req'[r].op = "failed" => payout[req'[r].withdrawal] = "FAILED"
             /\ req[r] = Idle
  <2>1. /\ req \in [Requests -> RequestTypes] /\ req[r] = Idle
        /\ UNCHANGED <<balance, ledger, withdrawal, row, payout, lost>>
    BY <1>1 DEF Grounded, TypeOK, Begin
  <2>2. /\ req'[r].op = op /\ req'[r].withdrawal = w
        /\ req'[r].seen = IF w = None THEN "NONE" ELSE withdrawal[w].status
        /\ \A q \in Requests \ {r} : req'[q] = req[q]
    BY <1>1, <2>1 DEF Begin
  <2> QED
    BY <1>1, <2>1, <2>2
<1>2. ASSUME NEW u \in Users, NEW a \in Amounts, PayRead(r, u, a)
      PROVE  Begin(r, "pay", "commit", u, None, a)
  BY <1>2 DEF PayRead
<1>3. ASSUME NEW u \in Users, NEW w \in Withdrawals, NEW a \in Amounts, RequestRead(r, u, w, a)
      PROVE  Begin(r, "request", "commit", u, w, a)
  BY <1>3 DEF RequestRead
<1>4. ASSUME NEW w \in Withdrawals, ApproveRead(r, w) \/ RejectRead(r, w) \/ WebhookRead(r, w)
      PROVE  \E op, pc, u, a : /\ Begin(r, op, pc, u, w, a)
                               /\ op = "failed" => payout[w] = "FAILED"
  BY <1>4 DEF ApproveRead, RejectRead, WebhookRead, BeginFor
<1> QED
  BY <1>1, <1>2, <1>3, <1>4 DEF Arrive

\* A request that decides or settles its withdrawal writes over what it has read,
\* and gives a hold back only while there is one.
LEMMA CommitEndsOwn ==
    ASSUME Grounded, Slots, LockedInv, NEW r \in Requests,
           \/ RequestCommit(r) \/ ApproveCommit(r)
           \/ RejectCommit(r) \/ SucceededCommit(r) \/ FailedCommit(r)
    PROVE  EndsOwn(r) /\ Held'
<1> DEFINE w == req[r].withdrawal
<1>1. /\ w \in Withdrawals /\ TypeOK /\ w # None
      /\ req[r].op # "request" => /\ withdrawal[w].status # "NONE"
                                  /\ req[r].seen \in {"PENDING", "PROCESSING"}
      /\ req[r].op = "approve" => req[r].seen = "PENDING"
  BY NoneAssumption
  DEF RequestCommit, ApproveCommit, RejectCommit, SucceededCommit, FailedCommit, At,
      Grounded, RequestGrounded
<1>2. PICK x \in {"PENDING", "PROCESSING", "SUCCESS", "FAILED"} :
        /\ Finish(r)
        /\ \A v \in Withdrawals \ {w} : withdrawal'[v] = withdrawal[v]
        /\ withdrawal'[w].status = x
        /\ \A v \in Withdrawals \ {w} : row'[v] = row[v]
        /\ x = "PROCESSING" => row' = row /\ req[r].op = "approve"
  <2>0. \A s : row' = [row EXCEPT ![w] = s] => \A v \in Withdrawals \ {w} : row'[v] = row[v]
    BY <1>1 DEF TypeOK
  <2>1. ASSUME NEW s, req[r].op # "request",
               withdrawal' = [withdrawal EXCEPT ![w].status = s]
        PROVE  /\ \A v \in Withdrawals \ {w} : withdrawal'[v] = withdrawal[v]
               /\ withdrawal'[w].status = s
    BY <1>1, <2>1, ExistingRow DEF TypeOK
  <2>2. CASE RequestCommit(r)
    BY <1>1, <2>2 DEF RequestCommit, TypeOK
  <2>3. CASE ApproveCommit(r)
    BY <2>1, <2>3 DEF ApproveCommit, At
  <2>4. CASE RejectCommit(r)
    BY <2>1, <2>0, <2>4 DEF RejectCommit, Return, At
  <2>5. CASE SucceededCommit(r)
    BY <2>1, <2>0, <2>5 DEF SucceededCommit, At
  <2>6. CASE FailedCommit(r)
    BY <2>1, <2>0, <2>6 DEF FailedCommit, Return, At
  <2> QED
    BY <2>2, <2>3, <2>4, <2>5, <2>6
<1>3. EndsOwn(r)
  BY <1>1, <1>2 DEF EndsOwn, TypeOK
<1>4. ASSUME NEW v \in Withdrawals, withdrawal'[v].status = "PROCESSING"
      PROVE  row'[v] = "PENDING"
  <2>1. CASE v # w
    BY <1>3, <1>4, <2>1 DEF EndsOwn, LockedInv, Held
  <2>2. CASE v = w
    <3>1. x = "PROCESSING"
      BY <1>2, <1>4, <2>2
    <3>2. withdrawal[w].status = "PENDING"
      BY <1>1, <1>2, <3>1 DEF LockedInv, Current, Overtaken
    <3> QED
      BY <1>2, <2>2, <3>1, <3>2 DEF Grounded, ShownAsHappened
  <2> QED
    BY <2>1, <2>2
<1> QED
  BY <1>3, <1>4 DEF Held

\* One step of a run in which no two requests work on one withdrawal.
LEMMA LockedStep ==
    Grounded /\ Slots /\ OnePerWithdrawal /\ LockedInv /\ [Next]_vars => LockedInv'
<1> SUFFICES ASSUME Grounded, Slots, OnePerWithdrawal, LockedInv, [Next]_vars
             PROVE  LockedInv'
  OBVIOUS
<1>1. Current /\ Held /\ req \in [Requests -> RequestTypes]
  BY DEF LockedInv, Grounded, TypeOK
<1>2. ASSUME NEW u \in Users
      PROVE  balance'[u] = ledger'[u]
  <2>1. balance[u] = ledger[u] /\ balance[u] \in Int /\ ledger[u] \in Int
        /\ balance'[u] \in Int /\ ledger'[u] \in Int
    BY NextGrounded DEF LockedInv, Exact, Grounded, TypeOK
  <2>2. balance'[u] - ledger'[u] = balance[u] - ledger[u]
    BY <1>1, MispayStep DEF Current
  <2> QED
    BY <2>1, <2>2
<1>3. ASSUME NEW r \in Requests, Arrive(r)
      PROVE  Current' /\ Held'
  BY <1>1, <1>3, ArriveReads, RestKeepsLocked
<1>4. ASSUME NEW r \in Requests,
             SendPayout(r) \/ PayoutRefused(r) \/ PayCommit(r) \/ Drop(r)
      PROVE  Current' /\ Held'
  <2>1. /\ UNCHANGED <<withdrawal, row>>
        /\ req' = [req EXCEPT ![r].pc = "commit"] \/ req' = [req EXCEPT ![r] = Idle]
    BY <1>4 DEF SendPayout, PayoutRefused, PayCommit, Drop, Finish
  <2>2. ASSUME NEW q \in Requests
        PROVE  \/ req'[q].withdrawal = None
               \/ req'[q].withdrawal = req[q].withdrawal /\ req'[q].seen = req[q].seen
    BY <1>1, <2>1 DEF Idle, RequestTypes
  <2> QED
    BY <1>1, <2>1, <2>2, RestKeepsLocked
<1>5. ASSUME UNCHANGED <<withdrawal, row, req>>
      PROVE  Current' /\ Held'
  BY <1>1, <1>5, RestKeepsLocked
<1>6. ASSUME NEW r \in Requests,
             \/ RequestCommit(r) \/ ApproveCommit(r)
             \/ RejectCommit(r) \/ SucceededCommit(r) \/ FailedCommit(r)
      PROVE  Current' /\ Held'
  BY <1>1, <1>6, CommitEndsOwn, EndKeepsCurrent
<1>7. Current' /\ Held'
  BY <1>3, <1>4, <1>5, <1>6 DEF Next, Proceed, Credit, PayoutEnds, vars
<1> QED
  BY <1>2, <1>7 DEF LockedInv, Exact

LEMMA InitLocked == Init => LockedInv /\ Slots
  BY DEF Init, LockedInv, Current, Held, Exact, Overtaken, Slots, Idle, NoWithdrawal

LEMMA AlwaysLocked == Spec /\ []OnePerWithdrawal => [](Grounded /\ Slots /\ LockedInv)
<1>1. Grounded /\ Slots /\ OnePerWithdrawal /\ LockedInv /\ [Next]_vars
        => (Grounded /\ Slots /\ LockedInv)'
  BY NextGrounded, SlotsStep, LockedStep
<1> QED
  BY <1>1, InitGrounded, InitLocked, PTL DEF Spec

\* When the requests of a withdrawal come one at a time, however many there are
\* of others, every wallet holds exactly what its ledger rows add up to: a hold
\* is given back once, or not at all.
THEOREM BalancesExact == Spec /\ []OnePerWithdrawal => []Exact
<1>1. LockedInv => Exact
  BY DEF LockedInv
<1> QED
  BY <1>1, AlwaysLocked, PTL

\* Then, too, an approval or a rejection takes its withdrawal from PENDING, as
\* the comments have it (OnlyPendingIsDecided).
THEOREM PendingDecided == Spec /\ []OnePerWithdrawal => OnlyPendingIsDecided
<1>1. ASSUME Grounded, LockedInv, NEW r \in Requests,
             At(r, "approve", "commit") \/ At(r, "reject", "commit")
      PROVE  withdrawal[req[r].withdrawal].status = "PENDING"
  BY <1>1, NoneAssumption
  DEF At, Grounded, RequestGrounded, LockedInv, Current, Overtaken
<1>2. Grounded /\ LockedInv =>
        [\A r \in Requests :
           /\ At(r, "approve", "commit") \/ At(r, "reject", "commit")
           /\ req'[r] = Idle
           /\ lost' = lost
           => withdrawal[req[r].withdrawal].status = "PENDING"]_vars
  BY <1>1
<1> QED
  BY <1>2, AlwaysLocked, PTL DEF Spec, OnlyPendingIsDecided

-----------------------------------------------------------------------------
(* Nobody is paid twice.                                                   *)

\* A request at a write ends: the others, and their payouts, stay.
LEMMA EndKeepsUnpaid ==
    ASSUME Grounded, UnpaidInv, NEW r \in Requests, EndsOwn(r), UNCHANGED payout,
           req[r].withdrawal \in Withdrawals,
           withdrawal'[req[r].withdrawal].status = "PENDING" => payout[req[r].withdrawal] = "NONE",
           row'[req[r].withdrawal] = "FAILED" => payout[req[r].withdrawal] \in {"NONE", "FAILED"}
    PROVE  UnpaidInv'
<1> DEFINE w == req[r].withdrawal
<1>1. req \in [Requests -> RequestTypes] /\ req' = [req EXCEPT ![r] = Idle]
  BY DEF Grounded, TypeOK, EndsOwn, Finish
<1>2. ReturnedUnpaid'
  BY DEF UnpaidInv, ReturnedUnpaid, EndsOwn
<1>3. ASSUME NEW v \in Withdrawals, withdrawal'[v].status = "PENDING", payout[v] # "NONE"
      PROVE  \E q \in Requests : At(q, "approve", "commit")' /\ req'[q].withdrawal = v
  <2>1. v # w /\ withdrawal'[v] = withdrawal[v]
    BY <1>3 DEF EndsOwn
  <2>2. PICK q \in Requests : At(q, "approve", "commit") /\ req[q].withdrawal = v
    BY <1>3, <2>1 DEF UnpaidInv
  <2>3. q # r /\ req'[q] = req[q]
    BY <1>1, <2>1, <2>2
  <2> QED
    BY <2>2, <2>3 DEF At
<1>4. ASSUME NEW q \in Requests, req'[q].op = "failed"
      PROVE  payout[req'[q].withdrawal] = "FAILED"
  BY <1>1, <1>4 DEF UnpaidInv, Idle
<1> QED
  BY <1>2, <1>3, <1>4 DEF UnpaidInv

\* Rows and payouts rest, and no approval is interrupted.
LEMMA RestKeepsUnpaid ==
    ASSUME UnpaidInv, UNCHANGED <<withdrawal, row, payout>>,
           \A q \in Requests : At(q, "approve", "commit") => req'[q] = req[q],
           \A q \in Requests : req'[q].op = "failed" => payout[req'[q].withdrawal] = "FAILED"
    PROVE  UnpaidInv'
<1>1. ReturnedUnpaid'
  BY DEF UnpaidInv, ReturnedUnpaid
<1>2. ASSUME NEW v \in Withdrawals, withdrawal[v].status = "PENDING", payout[v] # "NONE"
      PROVE  \E q \in Requests : At(q, "approve", "commit")' /\ req'[q].withdrawal = v
  BY <1>2 DEF UnpaidInv, At
<1> QED
  BY <1>1, <1>2 DEF UnpaidInv

\* The payout is sent while its withdrawal is PENDING, and the approval goes on.
LEMMA SendKeepsUnpaid ==
    ASSUME Grounded, OnePerWithdrawal, Current, UnpaidInv, NEW r \in Requests, SendPayout(r)
    PROVE  UnpaidInv'
<1> DEFINE w == req[r].withdrawal
<1>1. /\ w \in Withdrawals /\ TypeOK /\ At(r, "approve", "payout")
      /\ req' = [req EXCEPT ![r].pc = "commit"] /\ UNCHANGED <<withdrawal, row>>
      /\ \A v \in Withdrawals \ {w} : payout'[v] = payout[v]
  BY DEF SendPayout, At, Grounded, TypeOK, RequestGrounded
<1>2. withdrawal[w].status = "PENDING" /\ row[w] = "PENDING"
  BY <1>1, NoneAssumption DEF At, Grounded, RequestGrounded, Current, Overtaken, ShownAsHappened
<1>3. At(r, "approve", "commit")' /\ req'[r].withdrawal = w
  BY <1>1 DEF At, TypeOK
<1>4. ASSUME NEW q \in Requests, q # r
      PROVE  req'[q] = req[q]
  BY <1>1, <1>4 DEF TypeOK
<1>5. ReturnedUnpaid'
  BY <1>1, <1>2 DEF UnpaidInv, ReturnedUnpaid
<1>6. ASSUME NEW v \in Withdrawals, withdrawal[v].status = "PENDING", payout'[v] # "NONE"
      PROVE  \E q \in Requests : At(q, "approve", "commit")' /\ req'[q].withdrawal = v
  <2>1. CASE v = w
    BY <1>3, <2>1
  <2>2. CASE v # w
    <3>1. PICK q \in Requests : At(q, "approve", "commit") /\ req[q].withdrawal = v
      BY <1>1, <1>6, <2>2 DEF UnpaidInv
    <3> QED
      BY <1>4, <2>2, <3>1 DEF At
  <2> QED
    BY <2>1, <2>2
<1>7. ASSUME NEW q \in Requests, req'[q].op = "failed"
      PROVE  payout'[req'[q].withdrawal] = "FAILED"
  <2>1. q # r
    BY <1>3, <1>7 DEF At
  <2>2. /\ req'[q] = req[q] /\ req[q].withdrawal \in Withdrawals
        /\ payout[req[q].withdrawal] = "FAILED"
    BY <1>4, <1>7, <2>1 DEF UnpaidInv, Grounded, RequestGrounded
  <2>3. req[q].withdrawal # w
    BY <2>1, <2>2, NoneAssumption DEF OnePerWithdrawal
  <2> QED
    BY <1>1, <2>2, <2>3
<1> QED
  BY <1>1, <1>5, <1>6, <1>7 DEF UnpaidInv

\* The handlers that write a withdrawal.
LEMMA CommitKeepsUnpaid ==
    ASSUME Grounded, Slots, OnePerWithdrawal, LockedInv, UnpaidInv, NEW r \in Requests,
           \/ RequestCommit(r) \/ ApproveCommit(r)
           \/ RejectCommit(r) \/ SucceededCommit(r) \/ FailedCommit(r)
    PROVE  UnpaidInv'
<1> DEFINE w == req[r].withdrawal
<1>1. EndsOwn(r) /\ UNCHANGED payout
  BY CommitEndsOwn
  DEF RequestCommit, ApproveCommit, RejectCommit, SucceededCommit, FailedCommit
<1>2. /\ w \in Withdrawals /\ TypeOK
      /\ req[r].op # "request" => withdrawal[w].status # "NONE"
      /\ req[r].op = "reject" => req[r].seen = "PENDING" /\ w # None
  BY NoneAssumption
  DEF RequestCommit, ApproveCommit, RejectCommit, SucceededCommit, FailedCommit, At,
      Grounded, RequestGrounded
<1>3. ASSUME NEW s, s # "PENDING", req[r].op # "request",
             withdrawal' = [withdrawal EXCEPT ![w].status = s]
      PROVE  withdrawal'[w].status # "PENDING"
  BY <1>2, <1>3, ExistingRow DEF TypeOK
<1>4. CASE RequestCommit(r)
  <2>1. payout[w] = "NONE" /\ row'[w] = "PENDING"
    BY <1>2, <1>4 DEF RequestCommit, At, Slots, TypeOK
  <2> QED
    BY <1>1, <1>2, <2>1, EndKeepsUnpaid
<1>5. CASE ApproveCommit(r)
  <2>1. withdrawal'[w].status # "PENDING" /\ UNCHANGED row
    BY <1>3, <1>5 DEF ApproveCommit, At
  <2> QED
    BY <1>1, <1>2, <2>1, EndKeepsUnpaid DEF UnpaidInv, ReturnedUnpaid
<1>6. CASE RejectCommit(r)
  <2>1. withdrawal'[w].status # "PENDING" /\ At(r, "reject", "commit")
    BY <1>3, <1>6 DEF RejectCommit, At
  <2>2. withdrawal[w].status = "PENDING"
    BY <1>2, <2>1 DEF At, LockedInv, Current, Overtaken
  <2>3. payout[w] = "NONE"
    BY <1>2, <2>1, <2>2 DEF At, UnpaidInv, OnePerWithdrawal
  <2> QED
    BY <1>1, <1>2, <2>1, <2>3, EndKeepsUnpaid
<1>7. CASE SucceededCommit(r)
  <2>1. withdrawal'[w].status # "PENDING" /\ row'[w] = "SUCCESS"
    BY <1>2, <1>3, <1>7 DEF SucceededCommit, At, TypeOK
  <2> QED
    BY <1>1, <1>2, <2>1, EndKeepsUnpaid
<1>8. CASE FailedCommit(r)
  <2>1. withdrawal'[w].status # "PENDING" /\ payout[w] = "FAILED"
    BY <1>3, <1>8 DEF FailedCommit, At, UnpaidInv
  <2> QED
    BY <1>1, <1>2, <2>1, EndKeepsUnpaid
<1> QED
  BY <1>4, <1>5, <1>6, <1>7, <1>8

LEMMA UnpaidStep ==
    ASSUME MaxLost = 0, Grounded, Slots, OnePerWithdrawal, LockedInv, UnpaidInv, [Next]_vars
    PROVE  UnpaidInv'
<1>1. ASSUME NEW r \in Requests, Drop(r)
      PROVE  FALSE
  BY <1>1 DEF Drop, Grounded, TypeOK
<1>2. ASSUME NEW r \in Requests, Arrive(r)
      PROVE  UnpaidInv'
  <2>1. /\ UNCHANGED <<withdrawal, row, payout>>
        /\ \A q \in Requests : At(q, "approve", "commit") => req'[q] = req[q]
        /\ \A q \in Requests : req'[q].op = "failed" => payout[req'[q].withdrawal] = "FAILED"
    BY <1>2, ArriveReads DEF At, Idle, UnpaidInv
  <2> QED
    BY <2>1, RestKeepsUnpaid
<1>3. ASSUME NEW r \in Requests, PayoutRefused(r) \/ PayCommit(r)
      PROVE  UnpaidInv'
  <2>1. /\ UNCHANGED <<withdrawal, row, payout>> /\ req' = [req EXCEPT ![r] = Idle]
        /\ ~ At(r, "approve", "commit") /\ req \in [Requests -> RequestTypes]
    BY <1>3 DEF PayoutRefused, PayCommit, Finish, At, Grounded, TypeOK
  <2>2. /\ \A q \in Requests : At(q, "approve", "commit") => req'[q] = req[q]
        /\ \A q \in Requests : req'[q].op = "failed" => payout[req'[q].withdrawal] = "FAILED"
    BY <2>1 DEF Idle, UnpaidInv
  <2> QED
    BY <2>1, <2>2, RestKeepsUnpaid
<1>4. ASSUME UNCHANGED <<withdrawal, row, payout, req>>
      PROVE  UnpaidInv'
  BY <1>4, RestKeepsUnpaid DEF UnpaidInv
<1>5. ASSUME NEW w \in Withdrawals, PayoutEnds(w)
      PROVE  UnpaidInv'
  <2>1. /\ payout[w] = "ACCEPTED" /\ UNCHANGED <<withdrawal, row, req>>
        /\ \A v \in Withdrawals \ {w} : payout'[v] = payout[v]
    BY <1>5 DEF PayoutEnds, Grounded, TypeOK
  <2>2. ReturnedUnpaid'
    BY <2>1 DEF UnpaidInv, ReturnedUnpaid
  <2>3. ASSUME NEW q \in Requests, req[q].op = "failed"
        PROVE  payout'[req[q].withdrawal] = "FAILED"
    BY <2>1, <2>3 DEF UnpaidInv, Grounded, RequestGrounded
  <2>4. \A v \in Withdrawals : payout'[v] # "NONE" => payout[v] # "NONE"
    BY <2>1
  <2> QED
    BY <2>1, <2>2, <2>3, <2>4 DEF UnpaidInv, At
<1> QED
  BY <1>1, <1>2, <1>3, <1>4, <1>5, CommitKeepsUnpaid, SendKeepsUnpaid
  DEF Next, Proceed, Credit, LockedInv, vars

\* When, besides, no request dies, so that no approval is lost between Xendit's
\* answer and its own write, what was given back to the wallet was not paid out,
\* and will not be.
THEOREM NobodyPaidTwice ==
    ASSUME MaxLost = 0
    PROVE  Spec /\ []OnePerWithdrawal => []ReturnedUnpaid
<1>1. Init => UnpaidInv
  BY DEF Init, UnpaidInv, ReturnedUnpaid, Idle
<1>2. Grounded /\ Slots /\ OnePerWithdrawal /\ LockedInv /\ UnpaidInv /\ [Next]_vars => UnpaidInv'
  BY UnpaidStep
<1>3. UnpaidInv => ReturnedUnpaid
  BY DEF UnpaidInv
<1> QED
  BY <1>1, <1>2, <1>3, AlwaysLocked, PTL DEF Spec
=============================================================================
