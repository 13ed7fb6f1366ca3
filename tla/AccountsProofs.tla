--------------------------- MODULE AccountsProofs ---------------------------
(***************************************************************************)
(* Accounts, for any number of users, couriers, codes and requests.  What  *)
(* a request carries was true when it was read; `Fits' is the part of it   *)
(* that is still true when the request writes, and `Steps' sorts the       *)
(* actions by what they do to the rows, so that each invariant is proved   *)
(* once for every request that arrives and once for every one that ends.   *)
(***************************************************************************)
EXTENDS Accounts, FiniteSetTheorems, TLAPS

Holding == {"register", "google", "login"}
Answering == {"verify", "reset"}
Serving == {"accept", "reject", "advance", "track"}

\* No log keeps the courier rows that a deletion of account u has deleted.
Unlogged(u) == \A c \in RowsOf(u) \ late[u] : ~Tracked(c)

\* What stays true of a request in flight.
Fits(q) ==
    /\ q.op \in Holding => q.user \in Users /\ q.seen \in Roles
    /\ q.pc \in {"create", "login"} => q.op \in Holding
    /\ q.pc = "login" /\ q.seen = "COURIER" => role[q.user] \in {"COURIER", "GONE"}
    /\ q.op \in {"promote", "onboard", "delete", "remove"} => q.user \in Users
    /\ q.op \in Serving => /\ q.courier \in Couriers /\ q.order \in Orders
                           /\ order[q.order].status # "NONE"
    /\ q.op \in Answering => q.user \in Users /\ q.secret \in Secrets \union {None}
    /\ q.op = "forgot" => q.user \in Users /\ q.secret \in Secrets /\ secret[q.secret] = "none"
    /\ q.pc = "expire" => /\ q.op = "reset" /\ q.secret \in Secrets
                          /\ secret[q.secret] = "expired"
    /\ q.pc = "account" => q.op = "delete" /\ Unlogged(q.user)

CallsFit == \A r \in Requests : Fits(req[r])

\* What is true of a request when it arrives, besides.
Arrives(q) ==
    /\ Fits(q) /\ q.pc # "account"
    /\ q.op = "promote" => RowsOf(q.user) = {}
    /\ q.op = "onboard" => role[q.user] = "NONE"
    /\ q.op = "forgot" => NewSecret(q.secret)
    /\ q.op \in Answering => code[KindOf(q.op)][q.user] = q.secret

Arrival(r) == \E q \in Calls : Begin(r, q) /\ Arrives(q)

Ending(r) == Refuse(r) \/ Drop(r)

\* A row for account u, other than a courier row.
Adds(u) == \E t \in Tables : AddRow(u, t)

\* A deletion that no foreign key stopped.
Deletion(r) ==
    /\ req[r].user \in Users
    /\ Orderless(req[r].user) /\ \A c \in RowsOf(req[r].user) : ~Tracked(c)
    /\ Delete(req[r].user, {})
    /\ Finish(r)
    /\ UNCHANGED <<lost, workload>>

-----------------------------------------------------------------------------
(* Rows, roles and tokens agree.                                           *)

RowsAreCouriers == \A c \in Couriers : courier[c] \in Users => role[courier[c]] = "COURIER"

CouriersHaveRows == \A u \in Users : role[u] = "COURIER" /\ u \notin enlisted => RowsOf(u) # {}

TokensTrue == \A u \in Users : <<u, "COURIER">> \in tokens => role[u] \in {"COURIER", "GONE"}

StaffInv == RowsAreCouriers /\ CouriersHaveRows /\ TokensTrue

(* Each code and link has one place.                                       *)

Unmade == \A s \in Secrets :
    secret[s] = "none" => used[s] = 0 /\ \A k \in Kinds, u \in Users : code[k][u] # s

Apart == \A r, q \in Requests :
    r # q /\ req[r].op = "forgot" /\ req[q].op = "forgot" => req[r].secret # req[q].secret

OnePlace == \A j, k \in Kinds, u, v \in Users :
    code[j][u] = code[k][v] /\ code[j][u] # None => j = k /\ u = v

Made == \A r \in Requests :
    req[r].op \in Answering /\ req[r].secret # None => secret[req[r].secret] # "none"

AnswersInPlace == \A r \in Requests, k \in Kinds, u \in Users :
    req[r].op \in Answering /\ req[r].secret # None /\ code[k][u] = req[r].secret
        => k = KindOf(req[r].op) /\ u = req[r].user

SecretInv == Unmade /\ Apart /\ OnePlace /\ Made /\ AnswersInPlace

-----------------------------------------------------------------------------
(* What the actions do to the rows.                                        *)

\* A call that arrives passes its guards, and carries what they say.
LEMMA Arrivals ==
  ASSUME TypeOK, NEW r \in Requests, AuthCall(r) \/ StaffCall(r)
  PROVE  Arrival(r)
<1> USE DEF TypeOK, Arrives, Fits, Holding, Answering, Serving
<1>1. ASSUME NEW u \in Users, NEW asked \in Roles, RegisterRead(r, u, asked) PROVE Arrival(r)
  <2> DEFINE q == [Idle EXCEPT !.op = "register", !.pc = "create", !.user = u, !.seen = asked]
  <2>1. q \in Calls
    BY <1>1 DEF Calls, Idle, RegisterRead
  <2>2. Arrives(q)
    BY <1>1 DEF Idle, RegisterRead
  <2> QED
    BY <1>1, <2>1, <2>2 DEF Arrival, RegisterRead
<1>2. ASSUME NEW u \in Users, LoginRead(r, u) PROVE Arrival(r)
  <2> DEFINE q == [Idle EXCEPT !.op = "login", !.pc = "login", !.user = u, !.seen = role[u]]
  <2>1. q \in Calls
    BY <1>2 DEF Calls, Idle, LoginRead, Live
  <2>2. Arrives(q)
    BY <1>2 DEF Idle, LoginRead, Live
  <2> QED
    BY <1>2, <2>1, <2>2 DEF Arrival, LoginRead, Live
<1>3. ASSUME NEW u \in Users, GoogleRead(r, u) PROVE Arrival(r)
  <2> DEFINE q == [Idle EXCEPT !.op = "google", !.pc = "create", !.user = u, !.seen = "USER"]
  <2>1. q \in Calls
    BY <1>3 DEF Calls, Idle, GoogleRead, Roles
  <2>2. Arrives(q)
    BY <1>3 DEF Idle, GoogleRead, Roles
  <2> QED
    BY <1>3, <2>1, <2>2 DEF Arrival, GoogleRead, Roles
<1>4. ASSUME NEW u \in Users, NEW s \in Secrets, ForgotRead(r, u, s) PROVE Arrival(r)
  <2> DEFINE q == [Idle EXCEPT !.op = "forgot", !.pc = "store", !.user = u, !.secret = s]
  <2>1. q \in Calls
    BY <1>4 DEF Calls, Idle, ForgotRead, NewSecret
  <2>2. Arrives(q)
    BY <1>4 DEF Idle, ForgotRead, NewSecret
  <2> QED
    BY <1>4, <2>1, <2>2 DEF Arrival, ForgotRead, NewSecret
<1>5. ASSUME NEW u \in Users, NEW s \in Secrets \union {None}, VerifyRead(r, u, s)
      PROVE  Arrival(r)
  <2> DEFINE q == [Idle EXCEPT !.op = "verify", !.pc = "commit", !.user = u, !.secret = s]
  <2>1. q \in Calls
    BY <1>5 DEF Calls, Idle, VerifyRead, KindOf
  <2>2. Arrives(q)
    BY <1>5 DEF Idle, VerifyRead, KindOf
  <2> QED
    BY <1>5, <2>1, <2>2 DEF Arrival, VerifyRead, KindOf
<1>6. ASSUME NEW u \in Users, NEW s \in Secrets, ResetRead(r, u, s) PROVE Arrival(r)
  <2> DEFINE q == [Idle EXCEPT !.op = "reset", !.user = u, !.secret = s,
                             !.pc = IF secret[s] = "expired" THEN "expire" ELSE "commit"]
  <2>1. q \in Calls
    BY <1>6 DEF Calls, Idle, ResetRead, KindOf
  <2>2. Arrives(q)
    BY <1>6 DEF Idle, ResetRead, KindOf
  <2> QED
    BY <1>6, <2>1, <2>2 DEF Arrival, ResetRead, KindOf
<1>7. ASSUME NEW u \in Users, PromoteRead(r, u) PROVE Arrival(r)
  <2> DEFINE q == [Idle EXCEPT !.op = "promote", !.pc = "commit", !.user = u]
  <2>1. q \in Calls
    BY <1>7 DEF Calls, Idle, PromoteRead
  <2>2. Arrives(q)
    BY <1>7 DEF Idle, PromoteRead
  <2> QED
    BY <1>7, <2>1, <2>2 DEF Arrival, PromoteRead
<1>8. ASSUME NEW u \in Users, OnboardRead(r, u) PROVE Arrival(r)
  <2> DEFINE q == [Idle EXCEPT !.op = "onboard", !.pc = "commit", !.user = u]
  <2>1. q \in Calls
    BY <1>8 DEF Calls, Idle, OnboardRead
  <2>2. Arrives(q)
    BY <1>8 DEF Idle, OnboardRead
  <2> QED
    BY <1>8, <2>1, <2>2 DEF Arrival, OnboardRead
<1>9. ASSUME NEW u \in Users, DeleteRead(r, u) PROVE Arrival(r)
  <2> DEFINE q == [Idle EXCEPT !.op = "delete", !.pc = "commit", !.user = u]
  <2>1. q \in Calls
    BY <1>9 DEF Calls, Idle, DeleteRead
  <2>2. Arrives(q)
    BY <1>9 DEF Idle, DeleteRead
  <2> QED
    BY <1>9, <2>1, <2>2 DEF Arrival, DeleteRead
<1>10. ASSUME NEW c \in Couriers, RemoveRead(r, c) PROVE Arrival(r)
  <2> DEFINE q == [Idle EXCEPT !.op = "remove", !.pc = "commit", !.courier = c, !.user = courier[c]]
  <2>1. q \in Calls
    BY <1>10 DEF Calls, Idle, RemoveRead, Exists
  <2>2. Arrives(q)
    BY <1>10 DEF Idle, RemoveRead, Exists
  <2> QED
    BY <1>10, <2>1, <2>2 DEF Arrival, RemoveRead, Exists
<1>11. ASSUME NEW c \in Couriers, NEW o \in Orders, NEW op \in Serving,
             Work(r, op, c, o), order[o].status # "NONE"
      PROVE  Arrival(r)
  <2> DEFINE q == [Idle EXCEPT !.op = op, !.pc = "commit", !.courier = c, !.order = o,
                               !.seen = order[o].status]
  <2>1. order[o].status \in Statuses
    BY <1>11 DEF TypeOK, NoOrder
  <2>2. q \in Calls
    BY <2>1 DEF Calls, Idle
  <2>3. Arrives(q)
    BY <1>11 DEF Idle
  <2> QED
    BY <1>11, <2>2, <2>3 DEF Arrival, Work
<1>12. CASE AuthCall(r)
  BY <1>12, <1>1, <1>2, <1>3, <1>4, <1>5, <1>6 DEF AuthCall
<1>13. CASE StaffCall(r)
  BY <1>13, <1>7, <1>8, <1>9, <1>10, <1>11
     DEF StaffCall, AcceptRead, RejectRead, AdvanceRead, TrackRead
<1> QED
  BY <1>12, <1>13

\* The one way to delete an account, whichever call does it; or nothing happens.
LEMMA Deletions ==
  ASSUME TypeOK, CallsFit, NEW r \in Requests, DeleteCommit(r) \/ RemoveCommit(r)
  PROVE  Deletion(r) \/ Refuse(r)
<1>1. req[r].user \in Users
  BY DEF CallsFit, Fits, DeleteCommit, RemoveCommit, At
<1>2. CASE DeleteCommit(r)
  BY <1>1, <1>2 DEF DeleteCommit, Deletion, At, CallsFit, Fits, Unlogged
<1>3. CASE RemoveCommit(r)
  BY <1>1, <1>3 DEF RemoveCommit, Deletion, Refuse, loginVars, secretVars
<1> QED
  BY <1>2, <1>3

\* Every step is an arrival, an end, or one of these.
LEMMA Steps ==
  ASSUME TypeOK, CallsFit, Next
  PROVE  \/ \E r \in Requests :
               \/ Arrival(r) \/ Ending(r) \/ DeleteSweep(r) \/ Deletion(r)
               \/ CreateUser(r) \/ LoginCommit(r) \/ ForgotCommit(r) \/ Accept(r) \/ ClearExpired(r)
               \/ PromoteCommit(r) \/ OnboardCommit(r)
               \/ AcceptCommit(r) \/ RejectCommit(r) \/ AdvanceCommit(r) \/ TrackCommit(r)
         \/ \E u \in Users : \/ Refresh(u) \/ Adds(u)
                             \/ \E s \in Secrets : SendOtp(u, s)
                             \/ \E o \in Orders : Place(u, o)
         \/ \E s \in Secrets : Expire(s)
<1>1. ASSUME NEW r \in Requests, AuthStep(r)
      PROVE  \/ CreateUser(r) \/ LoginCommit(r) \/ ForgotCommit(r) \/ Accept(r)
             \/ ClearExpired(r) \/ Ending(r)
  BY <1>1 DEF AuthStep, CreateRefused, UserGone, Ending
<1>2. ASSUME NEW r \in Requests, StaffStep(r)
      PROVE  \/ PromoteCommit(r) \/ OnboardCommit(r) \/ AcceptCommit(r) \/ RejectCommit(r)
             \/ AdvanceCommit(r) \/ TrackCommit(r) \/ DeleteSweep(r) \/ Deletion(r) \/ Ending(r)
  BY <1>2, Deletions
     DEF StaffStep, EnrolRefused, WorkRefused, DeleteRefused, DeleteUndone, Ending
<1> QED
  BY <1>1, <1>2, Arrivals DEF Next, Ending, Adds

Placed == [status : Statuses, user : Users, courier : Couriers \union {None}]

\* What the writes of couriers do to an order's row.
LEMMA OrderWrites ==
  ASSUME TypeOK, CallsFit, NEW r \in Requests, AcceptCommit(r) \/ RejectCommit(r) \/ AdvanceCommit(r)
  PROVE  /\ req[r].order \in Orders /\ order[req[r].order] \in Placed
         /\ \E x \in Placed :
               /\ order' = [order EXCEPT ![req[r].order] = x]
               /\ x.user = order[req[r].order].user
               /\ \/ AcceptCommit(r) /\ x.courier = req[r].courier
                  \/ RejectCommit(r) /\ x.courier = None
                  \/ AdvanceCommit(r) /\ x.courier = order[req[r].order].courier
<1> DEFINE o == req[r].order
           row == order[o]
<1>1. o \in Orders /\ row.status # "NONE" /\ req[r].courier \in Couriers
  BY DEF AcceptCommit, RejectCommit, AdvanceCommit, At, CallsFit, Fits, Serving
<1>2. row \in Placed
  BY <1>1 DEF TypeOK, NoOrder, Placed
<1>3. \A s \in Statuses, c \in Couriers \union {None} :
        [row EXCEPT !.courier = c, !.status = s] \in Placed
  BY <1>2 DEF Placed
<1>4. \A s \in Statuses : [row EXCEPT !.status = s] \in Placed
  BY <1>2 DEF Placed
<1>5. CASE AcceptCommit(r)
  <2>1. PICK s \in {"MATCHED", "ON_GOING"} :
          order' = [order EXCEPT ![o] = [row EXCEPT !.courier = req[r].courier, !.status = s]]
    BY <1>5 DEF AcceptCommit
  <2> DEFINE x == [row EXCEPT !.courier = req[r].courier, !.status = s]
  <2>2. x \in Placed /\ x.user = row.user /\ x.courier = req[r].courier
    BY <1>1, <1>2, <1>3 DEF Statuses, Placed
  <2> QED
    BY <1>1, <1>2, <1>5, <2>1, <2>2
<1>6. CASE RejectCommit(r)
  <2> DEFINE x == [row EXCEPT !.courier = None, !.status = "CREATED"]
  <2>1. order' = [order EXCEPT ![o] = x]
    BY <1>6 DEF RejectCommit
  <2>2. x \in Placed /\ x.user = row.user /\ x.courier = None
    BY <1>1, <1>2, <1>3 DEF Statuses, Placed
  <2> QED
    BY <1>1, <1>2, <1>6, <2>1, <2>2
<1>7. CASE AdvanceCommit(r)
  <2> DEFINE x == [row EXCEPT !.status = IF req[r].seen = "MATCHED" THEN "ON_GOING" ELSE "COMPLETED"]
  <2>1. order' = [order EXCEPT ![o] = x]
    BY <1>7 DEF AdvanceCommit
  <2>2. x \in Placed /\ x.user = row.user /\ x.courier = row.courier
    BY <1>1, <1>2, <1>4 DEF Statuses, Placed
  <2> QED
    BY <1>1, <1>2, <1>7, <2>1, <2>2
<1> QED
  BY <1>5, <1>6, <1>7

-----------------------------------------------------------------------------
(* Types.                                                                  *)

\* Only a request that starts or ends changes what is in flight.
LEMMA TypeStep == TypeOK /\ CallsFit /\ [Next]_vars => TypeOK'
<1> SUFFICES ASSUME TypeOK, CallsFit, [Next]_vars PROVE TypeOK'
  OBVIOUS
<1> USE DEF TypeOK
<1>0. Idle \in Calls
  BY DEF Idle, Calls
<1>1. ASSUME NEW r \in Requests, Arrival(r) PROVE TypeOK'
  BY <1>1 DEF Arrival, Begin, staffVars, loginVars, secretVars
<1>2. ASSUME NEW r \in Requests, Ending(r) PROVE TypeOK'
  <2>1. req' \in [Requests -> Calls] /\ lost' \in 0 .. MaxLost
    BY <1>0, <1>2, LimitAssumption DEF Ending, Refuse, Drop, Finish
  <2> QED
    BY <1>2, <2>1 DEF Ending, Refuse, Drop, staffVars, loginVars, secretVars
<1>3. ASSUME NEW r \in Requests, Deletion(r) PROVE TypeOK'
  <2> USE <1>3 DEF Deletion, Delete
  <2>1. role' \in [Users -> Roles \union {"NONE", "GONE"}]
    OBVIOUS
  <2>2. owns' \in [Users -> SUBSET Tables]
    OBVIOUS
  <2>3. courier' \in [Couriers -> Users \union {None, Gone}]
    OBVIOUS
  <2>4. order' \in [Orders -> [status : Statuses, user : Users, courier : Couriers \union {None}]
                            \union {NoOrder}]
    <3>1. \A o \in Orders : order[o].courier \in RowsOf(req[r].user) => order[o] # NoOrder
      BY NoneAssumption DEF NoOrder, RowsOf
    <3>2. order' = [o \in Orders |-> IF order[o].courier \in RowsOf(req[r].user) \ {}
                                     THEN [order[o] EXCEPT !.courier = None] ELSE order[o]]
      OBVIOUS
    <3> QED
      BY <3>1, <3>2
  <2>5. code' \in [Kinds -> [Users -> Secrets \union {None}]]
    OBVIOUS
  <2>6. req' \in [Requests -> Calls]
    BY <1>0 DEF Finish
  <2>7. UNCHANGED <<tracks, late, tokens, enlisted, secret, used, lost, workload>>
    BY DEF loginVars
  <2> HIDE <1>3 DEF Deletion, Delete
  <2> QED
    BY <2>1, <2>2, <2>3, <2>4, <2>5, <2>6, <2>7
<1>4. ASSUME NEW r \in Requests, CreateUser(r) PROVE TypeOK'
  <2>1. req[r].user \in Users /\ req[r].seen \in Roles
    BY <1>4 DEF CreateUser, CallsFit, Fits
  <2>2. req' \in [Requests -> Calls]
    <3>1. req[r] \in Calls
      OBVIOUS
    <3>2. [req[r] EXCEPT !.pc = "login"] \in Calls
      BY <3>1 DEF Calls
    <3>3. req' = [req EXCEPT ![r] = [req[r] EXCEPT !.pc = "login"]]
      BY <1>4 DEF CreateUser, Continue
    <3> QED
      BY <3>2, <3>3
  <2>3. owns' \in [Users -> SUBSET Tables]
    BY <1>4 DEF CreateUser, Tables
  <2> QED
    BY <1>4, <2>1, <2>2, <2>3 DEF CreateUser, staffVars, secretVars
<1>5. ASSUME NEW r \in Requests, LoginCommit(r) PROVE TypeOK'
  <2>1. req[r].user \in Users /\ req[r].seen \in Roles
    BY <1>5 DEF LoginCommit, CallsFit, Fits
  <2> QED
    BY <1>0, <1>5, <2>1 DEF LoginCommit, Finish, staffVars, secretVars
<1>6. ASSUME NEW r \in Requests, ForgotCommit(r) PROVE TypeOK'
  <2>1. req[r].secret \in Secrets
    BY <1>6 DEF ForgotCommit, At, CallsFit, Fits
  <2>2. code' \in [Kinds -> [Users -> Secrets \union {None}]] /\ UNCHANGED used
    BY <1>6, <2>1 DEF ForgotCommit, Store, Kinds
  <2> QED
    BY <1>0, <1>6, <2>1, <2>2 DEF ForgotCommit, Store, Finish, staffVars, loginVars
<1>7. ASSUME NEW r \in Requests, Accept(r) \/ ClearExpired(r) PROVE TypeOK'
  <2>1. code' \in [Kinds -> [Users -> Secrets \union {None}]]
    BY <1>7 DEF Accept, ClearExpired, ClearCode
  <2>2. used' \in [Secrets -> Nat]
    BY <1>7 DEF Accept, ClearExpired
  <2>3. req' \in [Requests -> Calls]
    BY <1>0, <1>7 DEF Accept, ClearExpired, Finish
  <2> QED
    BY <1>7, <2>1, <2>2, <2>3 DEF Accept, ClearExpired, staffVars, loginVars
<1>8. ASSUME NEW r \in Requests, PromoteCommit(r) \/ OnboardCommit(r) PROVE TypeOK'
  <2>1. req[r].user \in Users
    BY <1>8 DEF PromoteCommit, OnboardCommit, At, CallsFit, Fits
  <2>2. courier' \in [Couriers -> Users \union {None, Gone}]
    BY <1>8, <2>1 DEF PromoteCommit, OnboardCommit, Enrol
  <2>3. role' \in [Users -> Roles \union {"NONE", "GONE"}]
    BY <1>8 DEF PromoteCommit, OnboardCommit, Enrol, Roles
  <2>4. req' \in [Requests -> Calls]
    <3>1. req' = [req EXCEPT ![r] = Idle]
      BY <1>8 DEF PromoteCommit, OnboardCommit, Finish
    <3>2. req \in [Requests -> Calls]
      OBVIOUS
    <3> HIDE DEF TypeOK
    <3> QED
      BY <1>0, <3>1, <3>2
  <2>5. owns' \in [Users -> SUBSET Tables]
    BY <1>8 DEF PromoteCommit, OnboardCommit, Tables
  <2>6. late' \in [Users -> SUBSET (Tables \union Couriers)]
    <3>1. PICK c \in Couriers : Gets(req[r].user, c)
      BY <1>8 DEF PromoteCommit, OnboardCommit, Enrol
    <3> QED
      BY <2>1, <3>1 DEF Gets
  <2> QED
    BY <1>8, <2>2, <2>3, <2>4, <2>5, <2>6 DEF PromoteCommit, OnboardCommit, loginVars, secretVars
<1>9. ASSUME NEW r \in Requests,
             AcceptCommit(r) \/ RejectCommit(r) \/ AdvanceCommit(r) \/ TrackCommit(r)
      PROVE  TypeOK'
  <2>3. order' \in [Orders -> [status : Statuses, user : Users, courier : Couriers \union {None}]
                            \union {NoOrder}]
    <3>1. CASE TrackCommit(r)
      BY <3>1 DEF TrackCommit
    <3>2. CASE AcceptCommit(r) \/ RejectCommit(r) \/ AdvanceCommit(r)
      BY <3>2, OrderWrites DEF Placed
    <3> QED
      BY <1>9, <3>1, <3>2
  <2>4. req' \in [Requests -> Calls]
    BY <1>0, <1>9 DEF AcceptCommit, RejectCommit, AdvanceCommit, TrackCommit, Finish
  <2>5. tracks' \subseteq Orders \X Couriers
    <3>1. req[r].courier \in Couriers /\ req[r].order \in Orders
      BY <1>9 DEF AcceptCommit, RejectCommit, AdvanceCommit, TrackCommit, At, CallsFit, Fits, Serving
    <3> QED
      BY <1>9, <3>1 DEF AcceptCommit, RejectCommit, AdvanceCommit, TrackCommit
  <2> QED
    BY <1>9, <2>3, <2>4, <2>5
       DEF AcceptCommit, RejectCommit, AdvanceCommit, TrackCommit, loginVars, secretVars
<1>10. ASSUME NEW u \in Users, Refresh(u) \/ Adds(u) PROVE TypeOK'
  <2>1. /\ tokens' \subseteq Users \X Roles /\ owns' \in [Users -> SUBSET Tables]
        /\ late' \in [Users -> SUBSET (Tables \union Couriers)]
    <3>1. CASE Refresh(u)
      BY <3>1 DEF Refresh, Live, loginVars, staffVars
    <3>2. ASSUME NEW t \in Tables, AddRow(u, t)
          PROVE  /\ tokens' \subseteq Users \X Roles /\ owns' \in [Users -> SUBSET Tables]
                 /\ late' \in [Users -> SUBSET (Tables \union Couriers)]
      <4>1. tokens' = tokens /\ owns' = [owns EXCEPT ![u] = @ \union {t}] /\ Gets(u, t)
        BY <3>2 DEF AddRow, loginVars
      <4> QED
        BY <3>2, <4>1 DEF Gets
    <3> QED
      BY <1>10, <3>1, <3>2 DEF Adds
  <2> QED
    BY <1>10, <2>1 DEF Refresh, Adds, AddRow, staffVars, loginVars, secretVars
<1>11. ASSUME NEW u \in Users, NEW s \in Secrets, SendOtp(u, s) PROVE TypeOK'
  BY <1>11 DEF SendOtp, Store, Kinds, staffVars, loginVars
<1>12. ASSUME NEW u \in Users, NEW o \in Orders, Place(u, o) PROVE TypeOK'
  BY <1>12 DEF Place, Statuses, loginVars, secretVars
<1>13. ASSUME NEW s \in Secrets, Expire(s) PROVE TypeOK'
  BY <1>13 DEF Expire, staffVars, loginVars
<1>14. CASE UNCHANGED vars
  BY <1>14 DEF vars, staffVars, loginVars, secretVars
<1>15. ASSUME NEW r \in Requests, DeleteSweep(r) PROVE TypeOK'
  <2>1. late' \in [Users -> SUBSET (Tables \union Couriers)]
    BY <1>15 DEF DeleteSweep
  <2>2. req' \in [Requests -> Calls]
    <3>1. req[r] \in Calls
      OBVIOUS
    <3>2. [req[r] EXCEPT !.pc = "account"] \in Calls
      BY <3>1 DEF Calls
    <3>3. req' = [req EXCEPT ![r] = [req[r] EXCEPT !.pc = "account"]]
      BY <1>15 DEF DeleteSweep, Continue
    <3> QED
      BY <3>2, <3>3
  <2> QED
    BY <1>15, <2>1, <2>2 DEF DeleteSweep, loginVars, secretVars
<1> QED
  BY <1>1, <1>2, <1>3, <1>4, <1>5, <1>6, <1>7, <1>8, <1>9, <1>10, <1>11, <1>12, <1>13, <1>14, <1>15,
     Steps

-----------------------------------------------------------------------------
(* What is in flight.                                                      *)

\* An account's role, once COURIER, changes only to GONE.
LEMMA RolesLast ==
  ASSUME TypeOK, CallsFit, [Next]_vars
  PROVE  \A u \in Users : role[u] \in {"COURIER", "GONE"} => role'[u] \in {"COURIER", "GONE"}
<1> USE DEF TypeOK
<1>1. ASSUME NEW r \in Requests, Arrival(r) \/ Ending(r) \/ DeleteSweep(r) PROVE UNCHANGED role
  BY <1>1 DEF Arrival, Begin, Ending, Refuse, Drop, DeleteSweep
<1>2. ASSUME NEW r \in Requests, Deletion(r)
      PROVE  \A u \in Users : role[u] \in {"COURIER", "GONE"} => role'[u] \in {"COURIER", "GONE"}
  BY <1>2 DEF Deletion, Delete
<1>3. ASSUME NEW r \in Requests, CreateUser(r)
      PROVE  \A u \in Users : role[u] \in {"COURIER", "GONE"} => role'[u] \in {"COURIER", "GONE"}
  BY <1>3 DEF CreateUser
<1>4. ASSUME NEW r \in Requests, PromoteCommit(r) \/ OnboardCommit(r)
      PROVE  \A u \in Users : role[u] \in {"COURIER", "GONE"} => role'[u] \in {"COURIER", "GONE"}
  BY <1>4 DEF PromoteCommit, OnboardCommit, Enrol
<1>5. ASSUME NEW r \in Requests,
             \/ LoginCommit(r) \/ ForgotCommit(r) \/ Accept(r) \/ ClearExpired(r)
             \/ AcceptCommit(r) \/ RejectCommit(r) \/ AdvanceCommit(r) \/ TrackCommit(r)
      PROVE  UNCHANGED role
  BY <1>5 DEF LoginCommit, ForgotCommit, Accept, ClearExpired,
              AcceptCommit, RejectCommit, AdvanceCommit, TrackCommit
<1>6. ASSUME NEW u \in Users,
             \/ Refresh(u) \/ Adds(u) \/ \E s \in Secrets : SendOtp(u, s)
             \/ \E o \in Orders : Place(u, o)
      PROVE  UNCHANGED role
  BY <1>6 DEF Refresh, Adds, AddRow, SendOtp, Place
<1>7. ASSUME NEW s \in Secrets, Expire(s) PROVE UNCHANGED role
  BY <1>7 DEF Expire
<1>8. CASE UNCHANGED vars
  BY <1>8 DEF vars
<1> QED
  BY <1>1, <1>2, <1>3, <1>4, <1>5, <1>6, <1>7, <1>8, Steps

\* An order stays.
LEMMA OrdersLast ==
  ASSUME TypeOK, CallsFit, [Next]_vars
  PROVE  \A o \in Orders : order[o].status # "NONE" => order'[o].status # "NONE"
<1> USE DEF TypeOK
<1>1. ASSUME NEW r \in Requests, Arrival(r) \/ Ending(r) \/ DeleteSweep(r) PROVE UNCHANGED order
  BY <1>1 DEF Arrival, Begin, Ending, Refuse, Drop, DeleteSweep, staffVars
<1>2. ASSUME NEW r \in Requests, Deletion(r)
      PROVE  \A o \in Orders : order'[o].status = order[o].status
  <2>1. order' = [o \in Orders |-> IF order[o].courier \in RowsOf(req[r].user)
                                   THEN [order[o] EXCEPT !.courier = None] ELSE order[o]]
    BY <1>2 DEF Deletion, Delete
  <2> QED
    BY <2>1 DEF NoOrder
<1>3. ASSUME NEW r \in Requests,
             \/ CreateUser(r) \/ LoginCommit(r) \/ ForgotCommit(r) \/ Accept(r) \/ ClearExpired(r)
             \/ PromoteCommit(r) \/ OnboardCommit(r) \/ TrackCommit(r)
      PROVE  UNCHANGED order
  BY <1>3 DEF CreateUser, LoginCommit, ForgotCommit, Accept, ClearExpired, PromoteCommit,
              OnboardCommit, TrackCommit, staffVars
<1>4. ASSUME NEW r \in Requests, AcceptCommit(r) \/ RejectCommit(r) \/ AdvanceCommit(r)
      PROVE  \A o \in Orders : order[o].status # "NONE" => order'[o].status # "NONE"
  BY <1>4, OrderWrites DEF Placed, Statuses
<1>5. ASSUME NEW u \in Users, Refresh(u) \/ Adds(u) \/ \E s \in Secrets : SendOtp(u, s)
      PROVE  UNCHANGED order
  BY <1>5 DEF Refresh, Adds, AddRow, SendOtp, staffVars
<1>6. ASSUME NEW u \in Users, NEW o \in Orders, Place(u, o)
      PROVE  \A p \in Orders : order[p].status # "NONE" => order'[p].status # "NONE"
  BY <1>6 DEF Place, NoOrder
<1>7. ASSUME NEW s \in Secrets, Expire(s) PROVE UNCHANGED order
  BY <1>7 DEF Expire, staffVars
<1>8. CASE UNCHANGED vars
  BY <1>8 DEF vars, staffVars
<1> QED
  BY <1>1, <1>2, <1>3, <1>4, <1>5, <1>6, <1>7, <1>8, Steps

\* A code is stored, or has expired, or nothing happens to the codes.
LEMMA SecretSteps ==
  ASSUME TypeOK, CallsFit, [Next]_vars
  PROVE  \/ UNCHANGED secret
         \/ \E u \in Users, s \in Secrets : SendOtp(u, s)
         \/ \E r \in Requests : ForgotCommit(r)
         \/ \E s \in Secrets : Expire(s)
<1>1. ASSUME NEW r \in Requests, Arrival(r) \/ Ending(r) \/ DeleteSweep(r) \/ Deletion(r)
      PROVE  UNCHANGED secret
  BY <1>1 DEF Arrival, Begin, Ending, Refuse, Drop, DeleteSweep, Deletion, Delete, secretVars
<1>2. ASSUME NEW r \in Requests,
             \/ CreateUser(r) \/ LoginCommit(r) \/ Accept(r) \/ ClearExpired(r)
             \/ PromoteCommit(r) \/ OnboardCommit(r)
             \/ AcceptCommit(r) \/ RejectCommit(r) \/ AdvanceCommit(r) \/ TrackCommit(r)
      PROVE  UNCHANGED secret
  BY <1>2 DEF CreateUser, LoginCommit, Accept, ClearExpired, PromoteCommit, OnboardCommit,
              AcceptCommit, RejectCommit, AdvanceCommit, TrackCommit, secretVars
<1>3. ASSUME NEW u \in Users, Refresh(u) \/ Adds(u) \/ \E o \in Orders : Place(u, o)
      PROVE  UNCHANGED secret
  BY <1>3 DEF Refresh, Adds, AddRow, Place, secretVars
<1>4. CASE UNCHANGED vars
  BY <1>4 DEF vars, secretVars
<1> QED
  BY <1>1, <1>2, <1>3, <1>4, Steps

\* A step starts a request, ends one, lets one go on, or leaves them all alone.
LEMMA InFlight ==
  ASSUME TypeOK, CallsFit, [Next]_vars
  PROVE  \/ \E r \in Requests, q \in Calls :
               /\ req[r] = Idle /\ Arrives(q)
               /\ req' = [req EXCEPT ![r] = q]
               /\ UNCHANGED <<role, owns, courier, order, tracks, tokens, enlisted,
                              code, secret, used>>
         \/ \E r \in Requests : CreateUser(r) /\ req' = [req EXCEPT ![r].pc = "login"]
         \/ \E r \in Requests : DeleteSweep(r) /\ req' = [req EXCEPT ![r].pc = "account"]
         \/ \E r \in Requests : req' = [req EXCEPT ![r] = Idle]
         \/ UNCHANGED req
<1>1. ASSUME NEW r \in Requests, Arrival(r)
      PROVE  \E q \in Calls :
               /\ req[r] = Idle /\ Arrives(q)
               /\ req' = [req EXCEPT ![r] = q]
               /\ UNCHANGED <<role, owns, courier, order, tracks, tokens, enlisted,
                              code, secret, used>>
  BY <1>1 DEF Arrival, Begin, staffVars, loginVars, secretVars
<1>2. ASSUME NEW r \in Requests, CreateUser(r) PROVE req' = [req EXCEPT ![r].pc = "login"]
  BY <1>2 DEF CreateUser, Continue
<1>3. ASSUME NEW r \in Requests,
             \/ Ending(r) \/ Deletion(r) \/ LoginCommit(r) \/ ForgotCommit(r) \/ Accept(r)
             \/ ClearExpired(r) \/ PromoteCommit(r) \/ OnboardCommit(r) \/ AcceptCommit(r)
             \/ RejectCommit(r) \/ AdvanceCommit(r) \/ TrackCommit(r)
      PROVE  req' = [req EXCEPT ![r] = Idle]
  BY <1>3 DEF Ending, Refuse, Drop, Deletion, LoginCommit, ForgotCommit, Accept, ClearExpired,
              PromoteCommit, OnboardCommit, AcceptCommit, RejectCommit, AdvanceCommit,
              TrackCommit, Finish
<1>4. ASSUME NEW u \in Users,
             \/ Refresh(u) \/ Adds(u) \/ \E s \in Secrets : SendOtp(u, s)
             \/ \E o \in Orders : Place(u, o)
      PROVE  UNCHANGED req
  BY <1>4 DEF Refresh, Adds, AddRow, SendOtp, Place
<1>5. ASSUME NEW s \in Secrets, Expire(s) PROVE UNCHANGED req
  BY <1>5 DEF Expire
<1>6. CASE UNCHANGED vars
  BY <1>6 DEF vars
<1>7. ASSUME NEW r \in Requests, DeleteSweep(r) PROVE req' = [req EXCEPT ![r].pc = "account"]
  BY <1>7 DEF DeleteSweep, Continue
<1> QED
  BY <1>1, <1>2, <1>3, <1>4, <1>5, <1>6, <1>7, Steps

\* No two links that are about to be stored are the same.
LEMMA ApartStep == TypeOK /\ CallsFit /\ Apart /\ [Next]_vars => Apart'
<1> SUFFICES ASSUME TypeOK, CallsFit, Apart, [Next]_vars PROVE Apart'
  OBVIOUS
<1> USE DEF TypeOK, Apart
<1>1. ASSUME NEW r \in Requests, NEW q \in Calls, Arrives(q), req' = [req EXCEPT ![r] = q]
      PROVE  Apart'
  BY <1>1 DEF Arrives, NewSecret
<1>2. ASSUME NEW r \in Requests, NEW pc, req' = [req EXCEPT ![r].pc = pc] PROVE Apart'
  BY <1>2 DEF Calls
<1>3. ASSUME NEW r \in Requests, req' = [req EXCEPT ![r] = Idle] PROVE Apart'
  BY <1>3 DEF Idle
<1>4. ASSUME UNCHANGED req PROVE Apart'
  BY <1>4
<1> HIDE DEF TypeOK, Apart
<1> QED
  BY <1>1, <1>2, <1>3, <1>4, InFlight

\* A link that is about to be stored by a request that goes on is not stored,
\* or made, by another.
LEMMA ForgotStays ==
  ASSUME TypeOK, CallsFit, Apart, [Next]_vars, NEW r \in Requests,
         req[r].op = "forgot", req'[r] = req[r]
  PROVE  secret'[req[r].secret] = "none"
<1> USE DEF TypeOK
<1>1. req[r].secret \in Secrets /\ secret[req[r].secret] = "none"
  BY DEF CallsFit, Fits
<1>2. ASSUME NEW u \in Users, NEW s \in Secrets, SendOtp(u, s)
      PROVE  secret'[req[r].secret] = "none"
  BY <1>1, <1>2 DEF SendOtp, NewSecret, Store
<1>3. ASSUME NEW q \in Requests, ForgotCommit(q) PROVE secret'[req[r].secret] = "none"
  <2>1. q # r
    BY <1>3 DEF ForgotCommit, Finish, Idle
  <2> QED
    BY <1>1, <1>3, <2>1 DEF ForgotCommit, At, Store, Apart
<1>4. ASSUME NEW s \in Secrets, Expire(s) PROVE secret'[req[r].secret] = "none"
  BY <1>1, <1>4 DEF Expire
<1> QED
  BY <1>1, <1>2, <1>3, <1>4, SecretSteps

\* A code that has expired stays so.
LEMMA ExpiredLast ==
  ASSUME TypeOK, CallsFit, [Next]_vars
  PROVE  \A s \in Secrets : /\ secret[s] = "expired" => secret'[s] = "expired"
                            /\ secret[s] # "none" => secret'[s] # "none"
<1> USE DEF TypeOK
<1>1. ASSUME NEW u \in Users, NEW s \in Secrets, SendOtp(u, s)
      PROVE  secret[s] = "none" /\ secret' = [secret EXCEPT ![s] = "sent"]
  BY <1>1 DEF SendOtp, NewSecret, Store
<1>2. ASSUME NEW r \in Requests, ForgotCommit(r)
      PROVE  /\ req[r].secret \in Secrets /\ secret[req[r].secret] = "none"
             /\ secret' = [secret EXCEPT ![req[r].secret] = "sent"]
  BY <1>2 DEF ForgotCommit, At, Store, CallsFit, Fits
<1>3. ASSUME NEW s \in Secrets, Expire(s)
      PROVE  secret' = [secret EXCEPT ![s] = "expired"]
  BY <1>3 DEF Expire
<1> QED
  BY <1>1, <1>2, <1>3, SecretSteps

\* A courier row that account u gets comes after what a deletion has emptied.
LEMMA EnrolGets ==
  ASSUME TypeOK, NEW u \in Users, Enrol(u)
  PROVE  \A v \in Users :
           /\ RowsOf(v) \subseteq RowsOf(v)'
           /\ Emptied(v) => RowsOf(v)' \ late'[v] \subseteq RowsOf(v) \ late[v]
<1> PICK c \in Couriers : courier[c] = None /\ courier' = [courier EXCEPT ![c] = u] /\ Gets(u, c)
  BY DEF Enrol
<1>1. RowsOf(u)' = RowsOf(u) \union {c} /\ \A v \in Users : v # u => RowsOf(v)' = RowsOf(v)
  BY NoneAssumption DEF TypeOK, RowsOf
<1>2. /\ \A v \in Users : late[v] \subseteq late'[v]
      /\ Emptied(u) => c \in late'[u]
  BY DEF TypeOK, Gets
<1> QED
  BY <1>1, <1>2

\* What a deletion has deleted stays unlogged until it ends.
LEMMA UnloggedLast ==
  ASSUME TypeOK, CallsFit, [Next]_vars, NEW r \in Requests,
         req[r].pc = "account", req'[r] = req[r]
  PROVE  Unlogged(req[r].user)'
<1> DEFINE u == req[r].user
<1>0. u \in Users /\ Unlogged(u) /\ At(r, "delete", "account") /\ Emptied(u)
  BY DEF CallsFit, Fits, At, Emptied
<1>1. ASSUME UNCHANGED <<courier, tracks>>, late[u] \subseteq late'[u] PROVE Unlogged(u)'
  BY <1>0, <1>1 DEF Unlogged, RowsOf, Tracked
<1>2. ASSUME NEW q \in Requests, DeleteSweep(q) PROVE Unlogged(u)'
  <2>1. req[q].user # u
    BY <1>0, <1>2 DEF DeleteSweep
  <2>2. late'[u] = late[u]
    BY <1>0, <1>2, <2>1 DEF DeleteSweep, TypeOK
  <2> QED
    BY <1>1, <1>2, <2>2 DEF DeleteSweep
<1>3. ASSUME NEW q \in Requests, Deletion(q) PROVE Unlogged(u)'
  <2>1. /\ UNCHANGED <<late, tracks>>
        /\ courier' = [c \in Couriers |-> IF c \in RowsOf(req[q].user) THEN Gone ELSE courier[c]]
    BY <1>3 DEF Deletion, Delete
  <2>2. RowsOf(u)' \subseteq RowsOf(u)
    BY <1>0, <2>1, NoneAssumption DEF RowsOf
  <2> QED
    BY <1>0, <2>1, <2>2 DEF Unlogged, Tracked
<1>4. ASSUME NEW q \in Requests, PromoteCommit(q) \/ OnboardCommit(q) PROVE Unlogged(u)'
  <2>1. req[q].user \in Users /\ Enrol(req[q].user) /\ UNCHANGED tracks
    BY <1>4 DEF PromoteCommit, OnboardCommit, At, CallsFit, Fits
  <2>2. RowsOf(u)' \ late'[u] \subseteq RowsOf(u) \ late[u]
    BY <1>0, <2>1, EnrolGets
  <2> QED
    BY <1>0, <2>1, <2>2 DEF Unlogged, Tracked
<1>5. ASSUME NEW q \in Requests, TrackCommit(q) PROVE Unlogged(u)'
  <2>1. /\ UNCHANGED <<courier, late>>
        /\ tracks' = tracks \union {<<req[q].order, req[q].courier>>}
    BY <1>5 DEF TrackCommit
  <2>2. req[q].courier \notin RowsOf(u) \ late[u]
    BY <1>0, <1>5 DEF TrackCommit, Held
  <2> QED
    BY <1>0, <2>1, <2>2 DEF Unlogged, Tracked, RowsOf
<1>6. ASSUME NEW q \in Requests,
             \/ Arrival(q) \/ Ending(q) \/ CreateUser(q) \/ LoginCommit(q) \/ ForgotCommit(q)
             \/ Accept(q) \/ ClearExpired(q) \/ AcceptCommit(q) \/ RejectCommit(q)
             \/ AdvanceCommit(q)
      PROVE  UNCHANGED <<courier, tracks, late>>
  BY <1>6 DEF Arrival, Begin, Ending, Refuse, Drop, CreateUser, LoginCommit, ForgotCommit, Accept,
              ClearExpired, AcceptCommit, RejectCommit, AdvanceCommit, staffVars
<1>7. ASSUME NEW v \in Users,
             \/ Refresh(v) \/ Adds(v) \/ \E s \in Secrets : SendOtp(v, s)
             \/ \E o \in Orders : Place(v, o)
      PROVE  UNCHANGED <<courier, tracks>> /\ late[u] \subseteq late'[u]
  BY <1>0, <1>7 DEF Refresh, Adds, AddRow, Gets, SendOtp, Place, staffVars, TypeOK
<1>8. ASSUME NEW s \in Secrets, Expire(s) PROVE UNCHANGED <<courier, tracks, late>>
  BY <1>8 DEF Expire, staffVars
<1>9. CASE UNCHANGED vars
  BY <1>1, <1>9 DEF vars, staffVars
<1> HIDE DEF u
<1> QED
  BY <1>1, <1>2, <1>3, <1>4, <1>5, <1>6, <1>7, <1>8, <1>9, Steps DEF u

\* A request that is not idle names what its operation needs.
LEMMA FitStep == TypeOK /\ CallsFit /\ Apart /\ [Next]_vars => CallsFit'
<1> SUFFICES ASSUME TypeOK, CallsFit, Apart, [Next]_vars, NEW r \in Requests
             PROVE  Fits(req[r])'
  BY DEF CallsFit
<1>1. ASSUME req'[r] = req[r] PROVE Fits(req[r])'
  <2> DEFINE q == req[r]
  <2>1. q \in Calls /\ Fits(q)
    BY DEF TypeOK, CallsFit
  <2>2. q.op = "forgot" => secret'[q.secret] = "none"
    BY <1>1, ForgotStays
  <2>3. q.pc = "account" => q.op = "delete" /\ Unlogged(q.user)'
    BY <1>1, <2>1, UnloggedLast DEF Fits
  <2> HIDE DEF q
  <2>4. /\ q.op \in Holding => q.user \in Users /\ q.seen \in Roles
        /\ q.pc \in {"create", "login"} => q.op \in Holding
        /\ q.pc = "login" /\ q.seen = "COURIER" => role'[q.user] \in {"COURIER", "GONE"}
        /\ q.op \in {"promote", "onboard", "delete", "remove"} => q.user \in Users
        /\ q.op \in Serving => /\ q.courier \in Couriers /\ q.order \in Orders
                               /\ order'[q.order].status # "NONE"
        /\ q.op \in Answering => q.user \in Users /\ q.secret \in Secrets \union {None}
        /\ q.op = "forgot" => /\ q.user \in Users /\ q.secret \in Secrets
                              /\ secret'[q.secret] = "none"
        /\ q.pc = "expire" => /\ q.op = "reset" /\ q.secret \in Secrets
                              /\ secret'[q.secret] = "expired"
        /\ q.pc = "account" => q.op = "delete" /\ Unlogged(q.user)'
    BY <2>1, <2>2, <2>3, RolesLast, OrdersLast, ExpiredLast DEF Fits, Holding, Answering
  <2> QED
    BY <1>1, <2>4 DEF Fits, q
<1>2. ASSUME NEW p \in Requests, NEW q \in Calls, Arrives(q), req' = [req EXCEPT ![p] = q],
             UNCHANGED <<role, order, secret>>
      PROVE  Fits(req[r])'
  <2>1. CASE p = r
    BY <1>2, <2>1 DEF Arrives, Fits, TypeOK
  <2>2. CASE p # r
    BY <1>1, <1>2, <2>2 DEF TypeOK
  <2> QED
    BY <2>1, <2>2
<1>3. ASSUME NEW p \in Requests, CreateUser(p), req' = [req EXCEPT ![p].pc = "login"]
      PROVE  Fits(req[r])'
  <2>1. CASE p = r
    <3>1. req[r].op \in Holding /\ req[r].user \in Users /\ req[r].seen \in Roles
      BY <1>3, <2>1 DEF CreateUser, CallsFit, Fits
    <3>2. role'[req[r].user] = req[r].seen
      BY <1>3, <2>1, <3>1 DEF CreateUser, TypeOK
    <3>3. req'[r] = [req[r] EXCEPT !.pc = "login"]
      BY <1>3, <2>1 DEF TypeOK
    <3>4. /\ req'[r].op = req[r].op /\ req'[r].user = req[r].user
          /\ req'[r].seen = req[r].seen /\ req'[r].pc = "login"
      BY <3>3 DEF TypeOK, Calls
    <3> QED
      BY <3>1, <3>2, <3>4 DEF Fits, Holding, Answering, Serving
  <2>2. CASE p # r
    BY <1>1, <1>3, <2>2 DEF TypeOK
  <2> QED
    BY <2>1, <2>2
<1>4. ASSUME NEW p \in Requests, req' = [req EXCEPT ![p] = Idle] PROVE Fits(req[r])'
  <2>1. CASE p = r
    BY <1>4, <2>1 DEF TypeOK, Fits, Idle, Holding, Answering, Serving
  <2>2. CASE p # r
    BY <1>1, <1>4, <2>2 DEF TypeOK
  <2> QED
    BY <2>1, <2>2
<1>5. ASSUME NEW p \in Requests, DeleteSweep(p), req' = [req EXCEPT ![p].pc = "account"]
      PROVE  Fits(req[r])'
  <2>1. CASE p = r
    <3>1. req[r].op = "delete" /\ req[r].user \in Users
      BY <1>5, <2>1 DEF DeleteSweep, At, CallsFit, Fits
    <3>2. Unlogged(req[r].user)'
      BY <1>5, <2>1, <3>1 DEF DeleteSweep, Unlogged, RowsOf, Tracked
    <3>3. req'[r] = [req[r] EXCEPT !.pc = "account"]
      BY <1>5, <2>1 DEF TypeOK
    <3>4. req'[r].op = req[r].op /\ req'[r].user = req[r].user /\ req'[r].pc = "account"
      BY <3>3 DEF TypeOK, Calls
    <3> QED
      BY <3>1, <3>2, <3>4 DEF Fits, Holding, Answering, Serving
  <2>2. CASE p # r
    BY <1>1, <1>5, <2>2 DEF TypeOK
  <2> QED
    BY <2>1, <2>2
<1> QED
  BY <1>1, <1>2, <1>3, <1>4, <1>5, InFlight


-----------------------------------------------------------------------------
(* Rows, roles and tokens.                                                 *)

\* Rows, roles and tokens go together: who gets the role gets a row, or signed up
\* with it; and a token tells the role that the account has, or had last.
LEMMA StaffInvStep == TypeOK /\ CallsFit /\ StaffInv /\ [Next]_vars => StaffInv'
<1> SUFFICES ASSUME TypeOK, CallsFit, StaffInv, [Next]_vars PROVE StaffInv'
  OBVIOUS
<1>1. ASSUME UNCHANGED <<role, courier, tokens, enlisted>> PROVE StaffInv'
  BY <1>1 DEF TypeOK, StaffInv, RowsAreCouriers, CouriersHaveRows, TokensTrue, RowsOf
<1>2. ASSUME NEW r \in Requests,
             \/ Arrival(r) \/ Ending(r) \/ ForgotCommit(r) \/ Accept(r) \/ ClearExpired(r)
             \/ AcceptCommit(r) \/ RejectCommit(r) \/ AdvanceCommit(r) \/ TrackCommit(r)
             \/ DeleteSweep(r)
      PROVE  StaffInv'
  BY <1>1, <1>2 DEF DeleteSweep, Arrival, Begin, Ending, Refuse, Drop, ForgotCommit, Accept, ClearExpired,
              AcceptCommit, RejectCommit, AdvanceCommit, TrackCommit, staffVars, loginVars
<1>3. ASSUME NEW u \in Users,
             \/ Adds(u) \/ \E s \in Secrets : SendOtp(u, s)
             \/ \E o \in Orders : Place(u, o)
      PROVE  StaffInv'
  BY <1>1, <1>3 DEF Adds, AddRow, SendOtp, Place, staffVars, loginVars
<1>4. ASSUME NEW s \in Secrets, Expire(s) PROVE StaffInv'
  BY <1>1, <1>4 DEF Expire, staffVars, loginVars
<1>5. CASE UNCHANGED vars
  BY <1>1, <1>5 DEF vars, staffVars, loginVars
<1>6. ASSUME NEW r \in Requests, Deletion(r) PROVE StaffInv'
  <2>1. /\ role' = [role EXCEPT ![req[r].user] = "GONE"]
        /\ courier' = [c \in Couriers |-> IF courier[c] = req[r].user THEN Gone ELSE courier[c]]
        /\ UNCHANGED <<tokens, enlisted>>
    BY <1>6 DEF Deletion, Delete, RowsOf, loginVars
  <2> QED
    BY <2>1, NoneAssumption
       DEF TypeOK, StaffInv, RowsAreCouriers, CouriersHaveRows, TokensTrue, RowsOf
<1>7. ASSUME NEW r \in Requests, CreateUser(r) PROVE StaffInv'
  <2>1. req[r].user \in Users /\ req[r].seen \in Roles
    BY <1>7 DEF CreateUser, CallsFit, Fits
  <2>2. /\ role[req[r].user] = "NONE"
        /\ role' = [role EXCEPT ![req[r].user] = req[r].seen]
        /\ enlisted' = IF req[r].seen = "COURIER" THEN enlisted \union {req[r].user} ELSE enlisted
        /\ UNCHANGED <<courier, tokens>>
    BY <1>7 DEF CreateUser, staffVars
  <2> QED
    BY <2>1, <2>2
       DEF TypeOK, StaffInv, RowsAreCouriers, CouriersHaveRows, TokensTrue, RowsOf
<1>8. ASSUME NEW r \in Requests, LoginCommit(r) PROVE StaffInv'
  <2>1. /\ req[r].user \in Users
        /\ req[r].seen = "COURIER" => role[req[r].user] \in {"COURIER", "GONE"}
    BY <1>8 DEF LoginCommit, CallsFit, Fits
  <2>2. /\ tokens' = tokens \union {<<req[r].user, req[r].seen>>}
        /\ UNCHANGED <<role, courier, enlisted>>
    BY <1>8 DEF LoginCommit, staffVars
  <2> QED
    BY <2>1, <2>2
       DEF TypeOK, StaffInv, RowsAreCouriers, CouriersHaveRows, TokensTrue, RowsOf
<1>9. ASSUME NEW r \in Requests, PromoteCommit(r) \/ OnboardCommit(r) PROVE StaffInv'
  <2>1. req[r].user \in Users /\ UNCHANGED <<tokens, enlisted>>
    BY <1>9 DEF PromoteCommit, OnboardCommit, At, CallsFit, Fits, loginVars
  <2>2. PICK c \in Couriers : courier[c] = None /\ courier' = [courier EXCEPT ![c] = req[r].user]
    BY <1>9 DEF PromoteCommit, OnboardCommit, Enrol
  <2>3. role' = [role EXCEPT ![req[r].user] = "COURIER"]
    BY <1>9 DEF PromoteCommit, OnboardCommit, Enrol
  <2> QED
    BY <2>1, <2>2, <2>3, NoneAssumption
       DEF TypeOK, StaffInv, RowsAreCouriers, CouriersHaveRows, TokensTrue, RowsOf
<1>10. ASSUME NEW u \in Users, Refresh(u) PROVE StaffInv'
  <2>1. tokens' = tokens \union {<<u, role[u]>>} /\ UNCHANGED <<role, courier, enlisted>>
    BY <1>10 DEF Refresh, staffVars
  <2> QED
    BY <2>1 DEF TypeOK, StaffInv, RowsAreCouriers, CouriersHaveRows, TokensTrue, RowsOf
<1> QED
  BY <1>2, <1>3, <1>4, <1>5, <1>6, <1>7, <1>8, <1>9, <1>10, Steps

\* The courier rows of an account and the calls that are about to make one.
LEMMA Finite ==
  ASSUME NEW u
  PROVE  /\ IsFiniteSet(RowsOf(u)) /\ Cardinality(RowsOf(u)) \in Nat
         /\ IsFiniteSet(Enrolling(u)) /\ Cardinality(Enrolling(u)) \in Nat
         /\ Cardinality(Requests) \in Nat
<1>1. RowsOf(u) \in SUBSET Couriers /\ Enrolling(u) \in SUBSET Requests
  BY DEF RowsOf, Enrolling
<1>2. IsFiniteSet(RowsOf(u)) /\ IsFiniteSet(Enrolling(u))
  BY <1>1, FiniteAssumption, FS_Subset
<1> QED
  BY <1>2, FiniteAssumption, FS_CardinalityType

\* Fewer rows, and fewer calls about to make one.
LEMMA Fewer ==
  ASSUME NEW u, Cardinality(RowsOf(u)) + Cardinality(Enrolling(u)) <= Cardinality(Requests),
         RowsOf(u)' \subseteq RowsOf(u), Enrolling(u)' \subseteq Enrolling(u)
  PROVE  Cardinality(RowsOf(u)') + Cardinality(Enrolling(u)') <= Cardinality(Requests)
<1>1. /\ IsFiniteSet(RowsOf(u)') /\ Cardinality(RowsOf(u)') <= Cardinality(RowsOf(u))
      /\ IsFiniteSet(Enrolling(u)') /\ Cardinality(Enrolling(u)') <= Cardinality(Enrolling(u))
  BY Finite, FS_Subset
<1>2. Cardinality(RowsOf(u)') \in Nat /\ Cardinality(Enrolling(u)') \in Nat
  BY <1>1, FS_CardinalityType
<1> QED
  BY <1>1, <1>2, Finite

\* A call that has found no row.
LEMMA EnrollingBounded ==
  ASSUME NEW u, RowsOf(u)' = {}
  PROVE  Cardinality(RowsOf(u)') + Cardinality(Enrolling(u)') <= Cardinality(Requests)
<1>1. Enrolling(u)' \in SUBSET Requests
  BY DEF Enrolling
<1>2. IsFiniteSet(Enrolling(u)') /\ Cardinality(Enrolling(u)') <= Cardinality(Requests)
  BY <1>1, FS_Subset, FiniteAssumption
<1>3. Cardinality(RowsOf(u)') = 0 /\ Cardinality(Enrolling(u)') \in Nat
  BY <1>2, FS_EmptySet, FS_CardinalityType
<1> QED
  BY <1>2, <1>3, Finite

\* One row more, and one call less that is about to make one.
LEMMA EnrolBounded ==
  ASSUME NEW u, Cardinality(RowsOf(u)) + Cardinality(Enrolling(u)) <= Cardinality(Requests),
         NEW c, RowsOf(u)' \subseteq RowsOf(u) \union {c},
         NEW r \in Enrolling(u), Enrolling(u)' \subseteq Enrolling(u) \ {r}
  PROVE  Cardinality(RowsOf(u)') + Cardinality(Enrolling(u)') <= Cardinality(Requests)
<1> DEFINE more == RowsOf(u) \union {c}
           fewer == Enrolling(u) \ {r}
<1>1. IsFiniteSet(more) /\ Cardinality(more) <= Cardinality(RowsOf(u)) + 1
  <2>1. IsFiniteSet(RowsOf(u)) /\ Cardinality(RowsOf(u)) \in Nat
    BY Finite
  <2>2. /\ IsFiniteSet(more)
        /\ Cardinality(more) = IF c \in RowsOf(u) THEN Cardinality(RowsOf(u))
                               ELSE Cardinality(RowsOf(u)) + 1
    BY <2>1, FS_AddElement
  <2> QED
    BY <2>1, <2>2
<1>2. IsFiniteSet(fewer) /\ Cardinality(fewer) = Cardinality(Enrolling(u)) - 1
  BY Finite, FS_RemoveElement
<1> HIDE DEF more, fewer
<1>3. /\ IsFiniteSet(RowsOf(u)') /\ Cardinality(RowsOf(u)') <= Cardinality(more)
      /\ IsFiniteSet(Enrolling(u)') /\ Cardinality(Enrolling(u)') <= Cardinality(fewer)
  BY <1>1, <1>2, FS_Subset DEF more, fewer
<1>4. /\ Cardinality(RowsOf(u)') \in Nat /\ Cardinality(Enrolling(u)') \in Nat
      /\ Cardinality(more) \in Nat /\ Cardinality(fewer) \in Nat
  BY <1>1, <1>2, <1>3, FS_CardinalityType
<1> QED
  BY <1>1, <1>2, <1>3, <1>4, Finite


Bounded(u) == Cardinality(RowsOf(u)) + Cardinality(Enrolling(u)) <= Cardinality(Requests)

\* No step exceeds the bound: only a promotion or an onboarding adds a row, and
\* it was counted before.
LEMMA BoundStep == TypeOK /\ CallsFit /\ RowsAreCouriers /\ CouriersBounded /\ [Next]_vars
                     => CouriersBounded'
<1> SUFFICES ASSUME TypeOK, CallsFit, RowsAreCouriers, CouriersBounded, [Next]_vars,
                    NEW u \in Users
             PROVE  Bounded(u)'
  BY DEF CouriersBounded, Bounded
<1>0. Bounded(u)
  BY DEF CouriersBounded, Bounded
<1>1. ASSUME RowsOf(u)' \subseteq RowsOf(u), Enrolling(u)' \subseteq Enrolling(u) PROVE Bounded(u)'
  BY <1>0, <1>1, Fewer DEF Bounded
<1>2. ASSUME NEW r \in Requests, NEW q \in Calls, Arrives(q), req' = [req EXCEPT ![r] = q],
             UNCHANGED courier
      PROVE  Bounded(u)'
  <2>1. CASE q.op \in {"promote", "onboard"} /\ q.user = u
    <3>1. RowsOf(u) = {}
      BY <2>1, <1>2 DEF Arrives, RowsOf, RowsAreCouriers
    <3>2. RowsOf(u)' = {}
      BY <1>2, <3>1 DEF RowsOf
    <3> QED
      BY <3>2, EnrollingBounded DEF Bounded
  <2>2. CASE ~(q.op \in {"promote", "onboard"} /\ q.user = u)
    <3>1. RowsOf(u)' \subseteq RowsOf(u) /\ Enrolling(u)' \subseteq Enrolling(u)
      BY <1>2, <2>2 DEF RowsOf, Enrolling, TypeOK
    <3> QED
      BY <1>1, <3>1
  <2> QED
    BY <2>1, <2>2
<1>3. ASSUME NEW r \in Requests, \/ req' = [req EXCEPT ![r] = Idle]
                                 \/ req' = [req EXCEPT ![r].pc = "login"]
                                 \/ req' = [req EXCEPT ![r].pc = "account"]
      PROVE  Enrolling(u)' \subseteq Enrolling(u)
  <2>1. CASE req' = [req EXCEPT ![r] = Idle]
    BY <2>1 DEF Enrolling, Idle, TypeOK
  <2>2. ASSUME NEW pc, req' = [req EXCEPT ![r].pc = pc] PROVE Enrolling(u)' \subseteq Enrolling(u)
    BY <2>2 DEF Enrolling, TypeOK, Calls
  <2> QED
    BY <1>3, <2>1, <2>2
<1>4. ASSUME NEW r \in Requests, PromoteCommit(r) \/ OnboardCommit(r), req[r].user = u
      PROVE  Bounded(u)'
  <2>1. PICK c \in Couriers : courier' = [courier EXCEPT ![c] = u]
    BY <1>4 DEF PromoteCommit, OnboardCommit, Enrol
  <2>2. r \in Enrolling(u) /\ req' = [req EXCEPT ![r] = Idle]
    BY <1>4 DEF PromoteCommit, OnboardCommit, At, Finish, Enrolling
  <2>3. RowsOf(u)' \subseteq RowsOf(u) \union {c}
    BY <2>1 DEF RowsOf, TypeOK
  <2>4. Enrolling(u)' \subseteq Enrolling(u) \ {r}
    BY <2>2 DEF Enrolling, Idle, TypeOK
  <2> QED
    BY <1>0, <2>2, <2>3, <2>4, EnrolBounded DEF Bounded
<1>5. ASSUME NEW r \in Requests, PromoteCommit(r) \/ OnboardCommit(r), req[r].user # u
      PROVE  RowsOf(u)' \subseteq RowsOf(u)
  BY <1>5 DEF PromoteCommit, OnboardCommit, Enrol, RowsOf, TypeOK
<1>6. ASSUME NEW r \in Requests, Deletion(r) PROVE RowsOf(u)' \subseteq RowsOf(u)
  BY <1>6, NoneAssumption DEF Deletion, Delete, RowsOf, TypeOK
<1>7. \/ \E r \in Requests : Deletion(r) \/ PromoteCommit(r) \/ OnboardCommit(r)
      \/ UNCHANGED courier
  <2>1. ASSUME NEW r \in Requests,
               \/ Arrival(r) \/ Ending(r) \/ CreateUser(r) \/ LoginCommit(r) \/ ForgotCommit(r)
               \/ Accept(r) \/ ClearExpired(r) \/ AcceptCommit(r) \/ RejectCommit(r)
               \/ AdvanceCommit(r) \/ TrackCommit(r) \/ DeleteSweep(r)
        PROVE  UNCHANGED courier
    BY <2>1 DEF DeleteSweep, Arrival, Begin, Ending, Refuse, Drop, CreateUser, LoginCommit, ForgotCommit,
                Accept, ClearExpired, AcceptCommit, RejectCommit, AdvanceCommit, TrackCommit,
                staffVars
  <2>2. ASSUME NEW v \in Users,
               \/ Refresh(v) \/ Adds(v) \/ \E s \in Secrets : SendOtp(v, s)
               \/ \E o \in Orders : Place(v, o)
        PROVE  UNCHANGED courier
    BY <2>2 DEF Refresh, Adds, AddRow, SendOtp, Place, staffVars
  <2>3. ASSUME NEW s \in Secrets, Expire(s) PROVE UNCHANGED courier
    BY <2>3 DEF Expire, staffVars
  <2>4. CASE UNCHANGED vars
    BY <2>4 DEF vars, staffVars
  <2> QED
    BY <2>1, <2>2, <2>3, <2>4, Steps
<1>8. CASE \E r \in Requests : \/ req' = [req EXCEPT ![r] = Idle]
                               \/ req' = [req EXCEPT ![r].pc = "login"]
                               \/ req' = [req EXCEPT ![r].pc = "account"]
  <2>1. Enrolling(u)' \subseteq Enrolling(u)
    BY <1>8, <1>3
  <2>2. CASE RowsOf(u)' \subseteq RowsOf(u)
    BY <1>1, <2>1, <2>2
  <2>3. CASE UNCHANGED courier
    BY <2>2, <2>3 DEF RowsOf
  <2> QED
    BY <2>2, <2>3, <1>4, <1>5, <1>6, <1>7
<1>9. CASE UNCHANGED req
  <2>1. ASSUME NEW r \in Requests, Deletion(r) \/ PromoteCommit(r) \/ OnboardCommit(r)
        PROVE  RowsOf(u)' \subseteq RowsOf(u) \/ Bounded(u)'
    BY <2>1, <1>4, <1>5, <1>6
  <2>2. Enrolling(u)' = Enrolling(u)
    BY <1>9 DEF Enrolling
  <2>3. UNCHANGED courier => RowsOf(u)' = RowsOf(u)
    BY DEF RowsOf
  <2> QED
    BY <1>1, <1>7, <2>1, <2>2, <2>3
<1> QED
  BY <1>2, <1>8, <1>9, InFlight


-----------------------------------------------------------------------------
(* Codes and links.                                                        *)

\* A code or link that was just made is stored.
Stores(k, u, s) ==
    /\ secret[s] = "none"
    /\ secret' = [secret EXCEPT ![s] = "sent"]
    /\ code' = [code EXCEPT ![k][u] = s]
    /\ UNCHANGED used

\* What is stored is cleared, if it changes at all.
Clears == \A k \in Kinds, u \in Users : code'[k][u] \in {code[k][u], None}

\* What a step does to the codes that are stored, and to how often they were used.
LEMMA CodeSteps ==
  ASSUME TypeOK, CallsFit, [Next]_vars
  PROVE  \/ Clears /\ UNCHANGED used
         \/ \E r \in Requests : Accept(r)
         \/ \E k \in Kinds, u \in Users, s \in Secrets : Stores(k, u, s)
<1> USE DEF TypeOK
<1>1. ASSUME NEW r \in Requests, Arrival(r) \/ Ending(r) \/ DeleteSweep(r)
      PROVE  Clears /\ UNCHANGED used
  BY <1>1 DEF Clears, Arrival, Begin, Ending, Refuse, Drop, DeleteSweep, secretVars
<1>2. ASSUME NEW r \in Requests,
             \/ CreateUser(r) \/ LoginCommit(r) \/ PromoteCommit(r) \/ OnboardCommit(r)
             \/ AcceptCommit(r) \/ RejectCommit(r) \/ AdvanceCommit(r) \/ TrackCommit(r)
      PROVE  Clears /\ UNCHANGED used
  BY <1>2 DEF Clears, CreateUser, LoginCommit, PromoteCommit, OnboardCommit,
              AcceptCommit, RejectCommit, AdvanceCommit, TrackCommit, secretVars
<1>3. ASSUME NEW u \in Users, Refresh(u) \/ Adds(u) \/ \E o \in Orders : Place(u, o)
      PROVE  Clears /\ UNCHANGED used
  BY <1>3 DEF Clears, Refresh, Adds, AddRow, Place, secretVars
<1>4. ASSUME NEW s \in Secrets, Expire(s) PROVE Clears /\ UNCHANGED used
  BY <1>4 DEF Clears, Expire
<1>5. CASE UNCHANGED vars
  BY <1>5 DEF Clears, vars, secretVars
<1>6. ASSUME NEW r \in Requests, Deletion(r) PROVE Clears /\ UNCHANGED used
  BY <1>6 DEF Clears, Deletion, Delete
<1>7. ASSUME NEW r \in Requests, ClearExpired(r) PROVE Clears /\ UNCHANGED used
  BY <1>7 DEF Clears, ClearExpired, ClearCode
<1>8. ASSUME NEW u \in Users, NEW s \in Secrets, SendOtp(u, s) PROVE Stores("otp", u, s)
  BY <1>8 DEF Stores, SendOtp, NewSecret, Store
<1>9. ASSUME NEW r \in Requests, ForgotCommit(r)
      PROVE  /\ req[r].user \in Users /\ req[r].secret \in Secrets
             /\ Stores("reset", req[r].user, req[r].secret)
  BY <1>9 DEF Stores, ForgotCommit, At, Store, CallsFit, Fits
<1> HIDE DEF TypeOK
<1> QED
  BY <1>1, <1>2, <1>3, <1>4, <1>5, <1>6, <1>7, <1>8, <1>9, Steps DEF Kinds

\* Acceptance clears what is stored by then.
LEMMA Accepts ==
  ASSUME TypeOK, CallsFit, NEW r \in Requests, Accept(r)
  PROVE  /\ req[r].op \in Answering /\ req[r].pc = "commit"
         /\ KindOf(req[r].op) \in Kinds /\ req[r].user \in Users
         /\ req[r].secret \in Secrets \union {None}
         /\ code' = [code EXCEPT ![KindOf(req[r].op)][req[r].user] = None]
         /\ req' = [req EXCEPT ![r] = Idle]
         /\ UNCHANGED secret
         /\ Clears
         /\ code'[KindOf(req[r].op)][req[r].user] = None
         /\ \A s \in Secrets : used'[s] = IF s = req[r].secret THEN used[s] + 1 ELSE used[s]
<1>1. /\ req[r].op \in Answering /\ req[r].pc = "commit"
      /\ KindOf(req[r].op) \in Kinds /\ req[r].user \in Users
      /\ req[r].secret \in Secrets \union {None}
      /\ code' = [code EXCEPT ![KindOf(req[r].op)][req[r].user] = None]
      /\ req' = [req EXCEPT ![r] = Idle]
      /\ UNCHANGED secret
  BY DEF Accept, ClearCode, Finish, KindOf, Kinds, Answering, CallsFit, Fits
<1>2. Clears
  BY <1>1 DEF Clears, TypeOK
<1>3. code'[KindOf(req[r].op)][req[r].user] = None
  <2>1. ASSUME NEW k \in Kinds, NEW u \in Users, code' = [code EXCEPT ![k][u] = None]
        PROVE  code'[k][u] = None
    BY <2>1 DEF TypeOK
  <2> QED
    BY <1>1, <2>1
<1>4. \A s \in Secrets : used'[s] = IF s = req[r].secret THEN used[s] + 1 ELSE used[s]
  BY DEF Accept
<1> QED
  BY <1>1, <1>2, <1>3, <1>4

\* A request with a code goes on as it was, or arrives, and changes nothing.
LEMMA Answers ==
  ASSUME TypeOK, CallsFit, [Next]_vars, NEW r \in Requests, req'[r].op \in Answering
  PROVE  \/ req'[r] = req[r]
         \/ /\ Arrives(req'[r]) /\ req'[r] \in Calls
            /\ UNCHANGED <<code, secret, used>>
<1> USE DEF TypeOK
<1>1. ASSUME NEW p \in Requests, NEW q \in Calls, Arrives(q), req' = [req EXCEPT ![p] = q],
             UNCHANGED <<code, secret, used>>
      PROVE  \/ req'[r] = req[r]
             \/ Arrives(req'[r]) /\ req'[r] \in Calls /\ UNCHANGED <<code, secret, used>>
  BY <1>1
<1>2. ASSUME NEW p \in Requests, CreateUser(p), req' = [req EXCEPT ![p].pc = "login"]
      PROVE  req'[r] = req[r]
  <2>1. p # r
    <3>1. req[p].op \in Holding
      BY <1>2 DEF CreateUser, CallsFit, Fits
    <3>2. req'[p].op = req[p].op
      BY <1>2 DEF Calls
    <3> QED
      BY <3>1, <3>2 DEF Holding, Answering
  <2> QED
    BY <1>2, <2>1
<1>3. ASSUME NEW p \in Requests, req' = [req EXCEPT ![p] = Idle] PROVE req'[r] = req[r]
  BY <1>3 DEF Idle, Answering
<1>4. ASSUME NEW p \in Requests, DeleteSweep(p), req' = [req EXCEPT ![p].pc = "account"]
      PROVE  req'[r] = req[r]
  <2>1. p # r
    <3>1. req[p].op = "delete"
      BY <1>4 DEF DeleteSweep, At
    <3>2. req'[p].op = req[p].op
      BY <1>4 DEF Calls
    <3> QED
      BY <3>1, <3>2 DEF Answering
  <2> QED
    BY <1>4, <2>1
<1> HIDE DEF TypeOK
<1> QED
  BY <1>1, <1>2, <1>3, <1>4, InFlight

\* What arrives with an answer found it stored.
LEMMA Found ==
  ASSUME TypeOK, NEW q \in Calls, Arrives(q), q.op \in Answering
  PROVE  /\ KindOf(q.op) \in Kinds /\ q.user \in Users /\ q.secret \in Secrets \union {None}
         /\ code[KindOf(q.op)][q.user] = q.secret
BY DEF Arrives, Fits, Answering, KindOf, Kinds

\* Every code has one place until it is used, and none after.
Spent == \A s \in Secrets : used[s] > 0 => \A k \in Kinds, u \in Users : code[k][u] # s

\* What codes and requests say of a secret stays so: made once, stored in one place.
LEMMA SecretInvStep ==
  TypeOK /\ CallsFit /\ SecretInv /\ Spent /\ [Next]_vars => SecretInv' /\ Spent'
<1> SUFFICES ASSUME TypeOK, CallsFit, SecretInv, Spent, [Next]_vars PROVE SecretInv' /\ Spent'
  OBVIOUS
<1>0. Unmade /\ Apart /\ OnePlace /\ Made /\ AnswersInPlace
  BY DEF SecretInv
<1>1. Unmade'
  <2> SUFFICES ASSUME NEW s \in Secrets, secret'[s] = "none"
               PROVE  used'[s] = 0 /\ \A k \in Kinds, u \in Users : code'[k][u] # s
    BY DEF Unmade
  <2>1. secret[s] = "none" /\ used[s] = 0 /\ \A k \in Kinds, u \in Users : code[k][u] # s
    BY <1>0, ExpiredLast DEF Unmade
  <2>2. CASE Clears /\ UNCHANGED used
    BY <2>1, <2>2, NoneAssumption DEF Clears
  <2>3. ASSUME NEW r \in Requests, Accept(r)
        PROVE  used'[s] = 0 /\ \A k \in Kinds, u \in Users : code'[k][u] # s
    <3>1. req[r].secret # s
      BY <1>0, <2>1, <2>3, Accepts, NoneAssumption DEF Made
    <3>2. Clears /\ used'[s] = used[s]
      BY <2>3, <3>1, Accepts
    <3> QED
      BY <2>1, <3>2, NoneAssumption DEF Clears
  <2>4. ASSUME NEW k \in Kinds, NEW u \in Users, NEW t \in Secrets, Stores(k, u, t)
        PROVE  used'[s] = 0 /\ \A j \in Kinds, v \in Users : code'[j][v] # s
    BY <2>1, <2>4 DEF Stores, TypeOK
  <2> QED
    BY <2>2, <2>3, <2>4, CodeSteps
<1>2. Apart'
  BY <1>0, ApartStep
<1>3. OnePlace'
  <2>1. CASE Clears
    BY <1>0, <2>1 DEF Clears, OnePlace
  <2>2. ASSUME NEW k \in Kinds, NEW u \in Users, NEW s \in Secrets, Stores(k, u, s)
        PROVE  OnePlace'
    <3>1. \A j \in Kinds, v \in Users : code[j][v] # s
      BY <1>0, <2>2 DEF Stores, Unmade
    <3>2. \A j \in Kinds, v \in Users :
             code'[j][v] = IF j = k /\ v = u THEN s ELSE code[j][v]
      BY <2>2 DEF Stores, TypeOK
    <3> QED
      BY <1>0, <3>1, <3>2 DEF OnePlace
  <2> QED
    BY <2>1, <2>2, CodeSteps, Accepts
<1>4. Made'
  <2> SUFFICES ASSUME NEW r \in Requests, req'[r].op \in Answering, req'[r].secret # None
               PROVE  secret'[req'[r].secret] # "none"
    BY DEF Made
  <2>1. CASE req'[r] = req[r]
    BY <1>0, <2>1, ExpiredLast DEF Made, CallsFit, Fits
  <2>2. CASE /\ Arrives(req'[r]) /\ req'[r] \in Calls
             /\ UNCHANGED <<code, secret, used>>
    BY <1>0, <2>2, Found DEF Unmade
  <2> QED
    BY <2>1, <2>2, Answers
<1>5. AnswersInPlace'
  <2> SUFFICES ASSUME NEW r \in Requests, NEW k \in Kinds, NEW u \in Users,
                      req'[r].op \in Answering, req'[r].secret # None,
                      code'[k][u] = req'[r].secret
               PROVE  k = KindOf(req'[r].op) /\ u = req'[r].user
    BY DEF AnswersInPlace
  <2>1. CASE req'[r] = req[r]
    <3>1. req[r].secret \in Secrets /\ secret[req[r].secret] # "none"
      BY <1>0, <2>1 DEF Made, CallsFit, Fits
    <3>2. code[k][u] = req[r].secret
      <4>1. CASE Clears
        BY <2>1, <3>1, <4>1, NoneAssumption DEF Clears
      <4>2. ASSUME NEW j \in Kinds, NEW v \in Users, NEW s \in Secrets, Stores(j, v, s)
            PROVE  code[k][u] = req[r].secret
        BY <2>1, <3>1, <4>2 DEF Stores, TypeOK
      <4> QED
        BY <4>1, <4>2, CodeSteps, Accepts
    <3> QED
      BY <1>0, <2>1, <3>2 DEF AnswersInPlace
  <2>2. CASE /\ Arrives(req'[r]) /\ req'[r] \in Calls
             /\ UNCHANGED <<code, secret, used>>
    BY <1>0, <2>2, Found, NoneAssumption DEF OnePlace
  <2> QED
    BY <2>1, <2>2, Answers
<1>6. Spent'
  <2> SUFFICES ASSUME NEW s \in Secrets, used'[s] > 0, NEW k \in Kinds, NEW u \in Users
               PROVE  code'[k][u] # s
    BY DEF Spent
  <2>1. CASE Clears /\ UNCHANGED used
    BY <2>1, NoneAssumption DEF Clears, Spent
  <2>2. ASSUME NEW r \in Requests, Accept(r) PROVE code'[k][u] # s
    <3>1. CASE req[r].secret = s
      <4>1. code[k][u] = s => k = KindOf(req[r].op) /\ u = req[r].user
        <5>1. req[r].op \in Answering
          BY <2>2, Accepts
        <5> QED
          BY <1>0, <3>1, <5>1, NoneAssumption DEF AnswersInPlace
      <4>2. code'[KindOf(req[r].op)][req[r].user] = None
        BY <2>2, Accepts
      <4>3. Clears
        BY <2>2, Accepts
      <4>4. CASE code[k][u] = s
        BY <4>1, <4>2, <4>4, NoneAssumption
      <4>5. CASE code[k][u] # s
        BY <4>3, <4>5, NoneAssumption DEF Clears
      <4> QED
        BY <4>4, <4>5
    <3>2. CASE req[r].secret # s
      <4>1. used[s] > 0 /\ Clears
        BY <2>2, <3>2, Accepts
      <4> QED
        BY <4>1, NoneAssumption DEF Clears, Spent
    <3> QED
      BY <3>1, <3>2
  <2>3. ASSUME NEW j \in Kinds, NEW v \in Users, NEW t \in Secrets, Stores(j, v, t)
        PROVE  code'[k][u] # s
    <3>1. used[s] > 0 /\ code[k][u] # s
      BY <2>3 DEF Stores, Spent
    <3>2. t # s
      BY <1>0, <2>3, <3>1 DEF Stores, Unmade
    <3> QED
      BY <2>3, <3>1, <3>2 DEF Stores, TypeOK
  <2> QED
    BY <2>1, <2>2, <2>3, CodeSteps
<1> QED
  BY <1>1, <1>2, <1>3, <1>4, <1>5, <1>6 DEF SecretInv


\* The requests that are about to use a code, and how often it was used.
LEMMA FiniteAnswers ==
  ASSUME TypeOK, NEW s \in Secrets
  PROVE  /\ IsFiniteSet(Accepting(s)) /\ Cardinality(Accepting(s)) \in Nat
         /\ Cardinality(Requests) \in Nat /\ used[s] \in Nat
<1>1. Accepting(s) \in SUBSET Requests
  BY DEF Accepting
<1>2. IsFiniteSet(Accepting(s))
  BY <1>1, FiniteAssumption, FS_Subset
<1> QED
  BY <1>2, FiniteAssumption, FS_CardinalityType DEF TypeOK

UsedBounded(s) == used[s] + Cardinality(Accepting(s)) <= Cardinality(Requests)

\* Each acceptance takes one request off those that are about to accept.
LEMMA UsedStep ==
  ASSUME TypeOK, CallsFit, SecretInv, Spent, [Next]_vars, NEW s \in Secrets, UsedBounded(s)
  PROVE  UsedBounded(s)'
<1>0. TypeOK'
  BY TypeStep
<1>1. ASSUME Accepting(s)' \subseteq Accepting(s), used'[s] = used[s] PROVE UsedBounded(s)'
  <2>1. IsFiniteSet(Accepting(s)') /\ Cardinality(Accepting(s)') <= Cardinality(Accepting(s))
    BY <1>1, FiniteAnswers, FS_Subset
  <2>2. Cardinality(Accepting(s)') \in Nat
    BY <2>1, FS_CardinalityType
  <2> QED
    BY <1>1, <2>1, <2>2, FiniteAnswers DEF UsedBounded
<1>2. ASSUME NEW r \in Requests, Accept(r) PROVE UsedBounded(s)'
  <2>1. Accepting(s)' \subseteq Accepting(s) \ {r}
    <3>1. req' = [req EXCEPT ![r] = Idle]
      BY <1>2, Accepts
    <3> QED
      BY <3>1 DEF Accepting, Idle, TypeOK
  <2>2. CASE req[r].secret = s
    <3>1. r \in Accepting(s) /\ used'[s] = used[s] + 1
      BY <1>2, <2>2, Accepts DEF Accepting, Answering
    <3> DEFINE fewer == Accepting(s) \ {r}
    <3>2. IsFiniteSet(fewer) /\ Cardinality(fewer) = Cardinality(Accepting(s)) - 1
      BY <3>1, FiniteAnswers, FS_RemoveElement
    <3> HIDE DEF fewer
    <3>3. IsFiniteSet(Accepting(s)') /\ Cardinality(Accepting(s)') <= Cardinality(fewer)
      BY <2>1, <3>2, FS_Subset DEF fewer
    <3>4. Cardinality(Accepting(s)') \in Nat /\ Cardinality(fewer) \in Nat
      BY <3>2, <3>3, FS_CardinalityType
    <3> QED
      BY <3>1, <3>2, <3>3, <3>4, FiniteAnswers DEF UsedBounded
  <2>3. CASE req[r].secret # s
    <3>1. used'[s] = used[s]
      BY <1>2, <2>3, Accepts
    <3> QED
      BY <1>1, <2>1, <3>1
  <2> QED
    BY <2>2, <2>3
<1>3. CASE UNCHANGED used
  <2>1. CASE Accepting(s)' \subseteq Accepting(s)
    BY <1>1, <1>3, <2>1
  <2>2. ASSUME NEW r \in Accepting(s)', r \notin Accepting(s) PROVE UsedBounded(s)'
    <3>1. r \in Requests /\ req'[r].op \in Answering /\ req'[r].secret = s
      BY <2>2 DEF Accepting, Answering
    <3>2. req'[r] # req[r]
      BY <2>2 DEF Accepting
    <3>3. Arrives(req'[r]) /\ req'[r] \in Calls
      BY <3>1, <3>2, Answers
    <3>4. used[s] = 0
      BY <3>1, <3>3, Found, FiniteAnswers DEF Spent
    <3>5. Accepting(s)' \in SUBSET Requests
      BY DEF Accepting
    <3>6. /\ IsFiniteSet(Accepting(s)')
          /\ Cardinality(Accepting(s)') <= Cardinality(Requests)
      BY <3>5, FS_Subset, FiniteAssumption
    <3>7. Cardinality(Accepting(s)') \in Nat
      BY <3>6, FS_CardinalityType
    <3> QED
      BY <1>3, <3>4, <3>6, <3>7, FiniteAnswers DEF UsedBounded
  <2> QED
    BY <2>1, <2>2
<1> QED
  BY <1>2, <1>3, CodeSteps DEF Stores

-----------------------------------------------------------------------------
(* The invariant, and what follows from it.                                *)

IInv == /\ TypeOK /\ CallsFit
        /\ StaffInv /\ CouriersBounded
        /\ SecretInv /\ Spent /\ \A s \in Secrets : UsedBounded(s)

\* Nobody has an account, and no request is in flight.
LEMMA Initially == Init => IInv
<1> SUFFICES ASSUME Init PROVE IInv
  OBVIOUS
<1>1. TypeOK
  BY LimitAssumption DEF Init, TypeOK, Calls, Idle, NoOrder, Kinds
<1>2. CallsFit
  BY DEF Init, CallsFit, Fits, Idle, Holding, Answering, Serving
<1>3. StaffInv
  BY NoneAssumption DEF Init, StaffInv, RowsAreCouriers, CouriersHaveRows, TokensTrue
<1>4. CouriersBounded
  <2> SUFFICES ASSUME NEW u \in Users
               PROVE  Cardinality(RowsOf(u)) + Cardinality(Enrolling(u)) <= Cardinality(Requests)
    BY DEF CouriersBounded
  <2>1. RowsOf(u) = {} /\ Enrolling(u) = {}
    BY NoneAssumption DEF Init, RowsOf, Enrolling, Idle
  <2> QED
    BY <2>1, FS_EmptySet, Finite
<1>5. SecretInv /\ Spent
  BY NoneAssumption DEF Init, SecretInv, Unmade, Apart, OnePlace, Made, AnswersInPlace, Spent,
                        Idle, Kinds, Answering
<1>6. ASSUME NEW s \in Secrets PROVE UsedBounded(s)
  <2>1. Accepting(s) = {} /\ used[s] = 0
    BY DEF Init, Accepting, Idle
  <2> QED
    BY <1>1, <2>1, FS_EmptySet, FiniteAnswers DEF UsedBounded
<1> QED
  BY <1>1, <1>2, <1>3, <1>4, <1>5, <1>6 DEF IInv

\* Every step keeps the invariant.
LEMMA Inductive == IInv /\ [Next]_vars => IInv'
<1> SUFFICES ASSUME IInv, [Next]_vars PROVE IInv'
  OBVIOUS
<1>1. TypeOK' /\ CallsFit'
  BY TypeStep, FitStep DEF IInv, SecretInv
<1>2. StaffInv'
  BY StaffInvStep DEF IInv
<1>3. CouriersBounded'
  BY BoundStep DEF IInv, StaffInv
<1>4. SecretInv' /\ Spent'
  BY SecretInvStep DEF IInv
<1>5. ASSUME NEW s \in Secrets PROVE UsedBounded(s)'
  BY <1>5, UsedStep DEF IInv
<1> QED
  BY <1>1, <1>2, <1>3, <1>4, <1>5 DEF IInv

\* The invariant holds throughout.
LEMMA Invariance == Spec => []IInv
BY Initially, Inductive, PTL DEF Spec

\* Every variable stays within its type, for any number of accounts and requests.
THEOREM TypesKept == Spec => []TypeOK
<1>1. IInv => TypeOK
  BY DEF IInv
<1> QED
  BY <1>1, Invariance, PTL

\* An account has at most one courier row for each request in flight: one when
\* calls come one at a time, though the column is not unique.
THEOREM FewCourierRows == Spec => []CouriersBounded
<1>1. IInv => CouriersBounded
  BY DEF IInv
<1> QED
  BY <1>1, Invariance, PTL

\* A courier's token of an account that is still there has a courier row behind
\* it, unless its owner signed up as a courier.
THEOREM TokensBacked == Spec => []CourierTokensBacked
<1>1. IInv => CourierTokensBacked
  BY DEF IInv, StaffInv, CouriersHaveRows, TokensTrue, CourierTokensBacked, Live, Roles
<1> QED
  BY <1>1, Invariance, PTL

\* Codes and links are used at most once for each request in flight, and are
\* stored nowhere once they were, also among answers to no code at all.
THEOREM CodesSpent == Spec => []SecretsSpent
<1>1. IInv => SecretsSpent
  BY DEF IInv, Spent, UsedBounded, SecretsSpent
<1> QED
  BY <1>1, Invariance, PTL


-----------------------------------------------------------------------------
(* What a step may take away.                                              *)

\* Only a rejection or a deletion takes a courier off an order.
LEMMA LossStep ==
  ASSUME TypeOK, CallsFit, [Next]_vars, NEW o \in Orders,
         order[o].courier # None, order'[o].courier = None
  PROVE  \/ \E r \in Requests : At(r, "reject", "commit") /\ req[r].order = o /\ req'[r] = Idle
         \/ /\ \A p \in Orders : <<p, order[o].courier>> \notin tracks
            /\ role'[courier[order[o].courier]] = "GONE"
<1> USE DEF TypeOK
<1>1. ASSUME NEW r \in Requests, Deletion(r)
      PROVE  /\ \A p \in Orders : <<p, order[o].courier>> \notin tracks
             /\ role'[courier[order[o].courier]] = "GONE"
  <2>1. order[o].courier \in RowsOf(req[r].user)
    BY <1>1 DEF Deletion, Delete
  <2> QED
    BY <1>1, <2>1 DEF Deletion, Delete, Tracked, RowsOf
<1>2. ASSUME NEW r \in Requests, RejectCommit(r)
      PROVE  At(r, "reject", "commit") /\ req[r].order = o /\ req'[r] = Idle
  BY <1>2 DEF RejectCommit, Finish
<1>3. ASSUME NEW r \in Requests, AcceptCommit(r) \/ AdvanceCommit(r) PROVE FALSE
  <2>1. req[r].courier # None
    BY <1>3, NoneAssumption DEF AcceptCommit, AdvanceCommit, At, CallsFit, Fits, Serving
  <2>2. order'[o].courier \in {order[o].courier, req[r].courier}
    <3>1. ~RejectCommit(r)
      BY <1>3 DEF AcceptCommit, AdvanceCommit, RejectCommit, At
    <3> QED
      BY <1>3, <3>1, OrderWrites
  <2> QED
    BY <2>1, <2>2
<1>4. ASSUME NEW r \in Requests,
             \/ Arrival(r) \/ Ending(r) \/ CreateUser(r) \/ LoginCommit(r) \/ ForgotCommit(r)
             \/ Accept(r) \/ ClearExpired(r) \/ PromoteCommit(r) \/ OnboardCommit(r)
             \/ TrackCommit(r) \/ DeleteSweep(r)
      PROVE  UNCHANGED order
  BY <1>4 DEF DeleteSweep, Arrival, Begin, Ending, Refuse, Drop, CreateUser, LoginCommit, ForgotCommit,
              Accept, ClearExpired, PromoteCommit, OnboardCommit, TrackCommit, staffVars
<1>5. ASSUME NEW u \in Users, Refresh(u) \/ Adds(u) \/ \E s \in Secrets : SendOtp(u, s)
      PROVE  UNCHANGED order
  BY <1>5 DEF Refresh, Adds, AddRow, SendOtp, staffVars
<1>6. ASSUME NEW u \in Users, NEW p \in Orders, Place(u, p) PROVE UNCHANGED order[o]
  BY <1>6 DEF Place, NoOrder
<1>7. ASSUME NEW s \in Secrets, Expire(s) PROVE UNCHANGED order
  BY <1>7 DEF Expire, staffVars
<1>8. CASE UNCHANGED vars
  BY <1>8 DEF vars, staffVars
<1> HIDE DEF TypeOK
<1> QED
  BY <1>1, <1>2, <1>3, <1>4, <1>5, <1>6, <1>7, <1>8, Steps

\* An order loses its courier by a rejection, or with the account of a courier
\* whom no log records, whatever is in flight.
THEOREM UntrackedLost == Spec => OnlyUntrackedAreLost
<1>1. IInv /\ [Next]_vars =>
        [\A o \in Orders :
           LET c == order[o].courier
           IN  c # None /\ order'[o].courier = None =>
                   \/ \E r \in Requests : At(r, "reject", "commit") /\ req[r].order = o
                                          /\ req'[r] = Idle
                   \/ /\ \A p \in Orders : <<p, c>> \notin tracks
                      /\ role'[courier[c]] = "GONE"]_vars
  BY LossStep DEF IInv
<1> QED
  BY <1>1, Invariance, PTL DEF Spec, OnlyUntrackedAreLost

\* Only an answer, or a deletion, takes a code away.
LEMMA DropSecretStep ==
  ASSUME IInv, [Next]_vars, NEW k \in Kinds, NEW u \in Users,
         code[k][u] # None, code'[k][u] = None
  PROVE  \/ secret[code[k][u]] = "expired"
         \/ used'[code[k][u]] > used[code[k][u]]
         \/ role'[u] = "GONE"
         \/ \E r \in Requests : /\ req[r].user = u /\ req[r].op \in {"verify", "reset"}
                                /\ KindOf(req[r].op) = k
                                /\ req[r].secret # code[k][u] /\ req'[r] = Idle
<1>0. TypeOK /\ CallsFit /\ code[k][u] \in Secrets
  BY DEF IInv, TypeOK
<1>1. ASSUME NEW r \in Requests, Deletion(r) PROVE role'[u] = "GONE"
  BY <1>0, <1>1 DEF Deletion, Delete, TypeOK
<1>2. ASSUME NEW r \in Requests, Accept(r)
      PROVE  /\ req[r].user = u /\ req[r].op \in {"verify", "reset"} /\ req'[r] = Idle
             /\ KindOf(req[r].op) = k
             /\ \/ req[r].secret # code[k][u]
                \/ used'[code[k][u]] > used[code[k][u]]
  <2>1. /\ req[r].user = u /\ req[r].op \in {"verify", "reset"} /\ req'[r] = Idle
        /\ KindOf(req[r].op) = k
    BY <1>0, <1>2 DEF Accept, ClearCode, Finish, KindOf, Kinds, TypeOK
  <2>2. ASSUME req[r].secret = code[k][u] PROVE used'[code[k][u]] > used[code[k][u]]
    <3>1. used'[code[k][u]] = used[code[k][u]] + 1
      BY <1>0, <1>2, <2>2, Accepts
    <3> QED
      BY <1>0, <3>1 DEF TypeOK
  <2> QED
    BY <2>1, <2>2
<1>3. ASSUME NEW r \in Requests, ClearExpired(r)
      PROVE  /\ req[r].user = u /\ req[r].op \in {"verify", "reset"} /\ req'[r] = Idle
             /\ KindOf(req[r].op) = k
             /\ \/ req[r].secret # code[k][u]
                \/ secret[code[k][u]] = "expired"
  <2>1. /\ req[r].user = u /\ req[r].op \in {"verify", "reset"} /\ req'[r] = Idle
        /\ KindOf(req[r].op) = k
    BY <1>0, <1>3 DEF ClearExpired, At, ClearCode, Finish, KindOf, Kinds, TypeOK
  <2>2. secret[req[r].secret] = "expired"
    BY <1>0, <1>3 DEF ClearExpired, At, CallsFit, Fits
  <2> QED
    BY <2>1, <2>2
<1>4. ASSUME NEW v \in Users, NEW s \in Secrets, SendOtp(v, s) PROVE FALSE
  BY <1>0, <1>4, NoneAssumption DEF SendOtp, Store, TypeOK
<1>5. ASSUME NEW r \in Requests, ForgotCommit(r) PROVE FALSE
  <2>1. req[r].secret # None
    BY <1>0, <1>5, NoneAssumption DEF ForgotCommit, At, CallsFit, Fits
  <2> QED
    BY <1>0, <1>5, <2>1 DEF ForgotCommit, Store, TypeOK
<1>6. ASSUME NEW r \in Requests,
             \/ Arrival(r) \/ Ending(r) \/ CreateUser(r) \/ LoginCommit(r) \/ PromoteCommit(r)
             \/ OnboardCommit(r) \/ AcceptCommit(r) \/ RejectCommit(r) \/ AdvanceCommit(r)
             \/ TrackCommit(r) \/ DeleteSweep(r)
      PROVE  UNCHANGED code
  BY <1>6 DEF DeleteSweep, Arrival, Begin, Ending, Refuse, Drop, CreateUser, LoginCommit, PromoteCommit,
              OnboardCommit, AcceptCommit, RejectCommit, AdvanceCommit, TrackCommit, secretVars
<1>7. ASSUME NEW v \in Users, Refresh(v) \/ Adds(v) \/ \E o \in Orders : Place(v, o)
      PROVE  UNCHANGED code
  BY <1>7 DEF Refresh, Adds, AddRow, Place, secretVars
<1>8. ASSUME NEW s \in Secrets, Expire(s) PROVE UNCHANGED code
  BY <1>8 DEF Expire
<1>9. CASE UNCHANGED vars
  BY <1>9 DEF vars, secretVars
<1> QED
  BY <1>0, <1>1, <1>2, <1>3, <1>4, <1>5, <1>6, <1>7, <1>8, <1>9, Steps

\* A code or link that was neither used nor has expired goes with its account,
\* or with an answer of its kind that was found right before: to an older code,
\* or to none at all.
THEOREM StaleAnswersOnly == Spec => OnlyStaleAnswersDropSecrets
<1>1. IInv /\ [Next]_vars =>
        [\A k \in Kinds, u \in Users :
           code[k][u] # None /\ code'[k][u] = None =>
             \/ secret[code[k][u]] = "expired"
             \/ used'[code[k][u]] > used[code[k][u]]
             \/ role'[u] = "GONE"
             \/ \E r \in Requests : /\ req[r].user = u /\ req[r].op \in {"verify", "reset"}
                                    /\ KindOf(req[r].op) = k
                                    /\ req[r].secret # code[k][u] /\ req'[r] = Idle]_vars
  BY DropSecretStep
<1> QED
  BY <1>1, Invariance, PTL DEF Spec, OnlyStaleAnswersDropSecrets

-----------------------------------------------------------------------------
(* What a deletion leaves.                                                 *)

\* Nothing is left of account u.
Cleared(u) ==
    /\ owns[u] = {} /\ RowsOf(u) = {} /\ Orderless(u)
    /\ \A k \in Kinds : code[k][u] = None

\* A step that leaves the rows of a deleted account alone.
LEMMA ClearedStays ==
  ASSUME NEW u \in Users, Cleared(u), owns'[u] = owns[u], RowsOf(u)' = RowsOf(u),
         \A o \in Orders : order'[o].user # u, \A k \in Kinds : code'[k][u] \in {code[k][u], None}
  PROVE  Cleared(u)'
BY DEF Cleared, Orderless

\* A deleted account stays without rows: whoever adds one needs the account.
LEMMA ClearedStep ==
  ASSUME TypeOK, CallsFit, [Next]_vars, NEW u \in Users, role[u] = "GONE" => Cleared(u),
         role'[u] = "GONE"
  PROVE  Cleared(u)'
<1> USE DEF TypeOK
<1>1. ASSUME UNCHANGED <<role, owns, courier, order, code>> PROVE Cleared(u)'
  <2>1. Cleared(u)
    BY <1>1
  <2> QED
    BY <1>1, <2>1 DEF Cleared, RowsOf, Orderless
<1>2. ASSUME NEW r \in Requests, Deletion(r) PROVE Cleared(u)'
  <2>1. /\ owns' = [owns EXCEPT ![req[r].user] = @ \intersect {}]
        /\ courier' = [c \in Couriers |-> IF c \in RowsOf(req[r].user) \ {} THEN Gone ELSE courier[c]]
        /\ \A o \in Orders : order'[o].user = order[o].user
        /\ code' = [k \in DOMAIN code |-> [code[k] EXCEPT ![req[r].user] = None]]
        /\ role' = [role EXCEPT ![req[r].user] = "GONE"]
        /\ req[r].user \in Users /\ Orderless(req[r].user)
    BY <1>2 DEF Deletion, Delete, NoOrder
  <2>2. CASE u = req[r].user
    <3>1. RowsOf(u)' = {}
      BY <2>1, <2>2, NoneAssumption DEF RowsOf
    <3> QED
      BY <2>1, <2>2, <3>1 DEF Cleared, Orderless
  <2>3. CASE u # req[r].user
    <3>1. RowsOf(u)' = RowsOf(u)
      BY <2>1, <2>3, NoneAssumption DEF RowsOf
    <3>2. Cleared(u)
      BY <2>1, <2>3
    <3> QED
      BY <2>1, <2>3, <3>1, <3>2 DEF Cleared, Orderless
  <2> QED
    BY <2>2, <2>3
<1>3. ASSUME NEW r \in Requests, CreateUser(r) PROVE Cleared(u)'
  <2>1. req[r].user \in Users /\ req[r].seen \in Roles
    BY <1>3 DEF CreateUser, CallsFit, Fits
  <2>2. req[r].user # u
    BY <1>3, <2>1 DEF CreateUser, Roles
  <2>3. role'[u] = role[u] /\ owns'[u] = owns[u] /\ UNCHANGED <<courier, order, code>>
    BY <1>3, <2>2 DEF CreateUser, staffVars, secretVars
  <2> QED
    BY <2>3 DEF Cleared, RowsOf, Orderless
<1>4. ASSUME NEW r \in Requests, PromoteCommit(r) \/ OnboardCommit(r) PROVE Cleared(u)'
  <2>1. /\ req[r].user \in Users
        /\ role' = [role EXCEPT ![req[r].user] = "COURIER"]
    BY <1>4 DEF PromoteCommit, OnboardCommit, Enrol, At, CallsFit, Fits
  <2>2. req[r].user # u /\ role[u] = "GONE"
    BY <2>1
  <2>3. owns'[u] = owns[u] /\ UNCHANGED <<order, code>>
    BY <1>4, <2>2 DEF PromoteCommit, OnboardCommit, secretVars
  <2>4. RowsOf(u)' = RowsOf(u)
    <3>1. PICK c \in Couriers : courier[c] = None /\ courier' = [courier EXCEPT ![c] = req[r].user]
      BY <1>4 DEF PromoteCommit, OnboardCommit, Enrol
    <3> QED
      BY <2>1, <2>2, <3>1, NoneAssumption DEF RowsOf
  <2> QED
    BY <2>2, <2>3, <2>4 DEF Cleared, Orderless
<1>5. ASSUME NEW r \in Requests, AcceptCommit(r) \/ RejectCommit(r) \/ AdvanceCommit(r)
      PROVE  Cleared(u)'
  <2>1. \A o \in Orders : order'[o].user = order[o].user
    BY <1>5, OrderWrites
  <2>2. UNCHANGED <<role, owns, courier, code>>
    BY <1>5 DEF AcceptCommit, RejectCommit, AdvanceCommit, secretVars
  <2> QED
    BY <2>1, <2>2 DEF Cleared, RowsOf, Orderless
<1>6. ASSUME NEW r \in Requests, Accept(r) \/ ClearExpired(r) PROVE Cleared(u)'
  <2>1. UNCHANGED <<role, owns, courier, order>>
    BY <1>6 DEF Accept, ClearExpired, staffVars
  <2>2. code' = [code EXCEPT ![KindOf(req[r].op)][req[r].user] = None]
    BY <1>6 DEF Accept, ClearExpired, ClearCode
  <2>3. Clears
    BY <2>2 DEF Clears
  <2> QED
    BY <2>1, <2>3 DEF Cleared, Clears, RowsOf, Orderless
<1>7. ASSUME NEW r \in Requests, ForgotCommit(r) PROVE Cleared(u)'
  <2>1. /\ UNCHANGED <<role, owns, courier, order>> /\ Live(req[r].user)
        /\ code' = [code EXCEPT !["reset"][req[r].user] = req[r].secret]
    BY <1>7 DEF ForgotCommit, Store, staffVars
  <2>2. req[r].user # u
    BY <2>1 DEF Live, Roles
  <2>3. \A k \in Kinds : code'[k][u] = code[k][u]
    BY <2>1, <2>2
  <2> QED
    BY <2>1, <2>3 DEF Cleared, RowsOf, Orderless
<1>8. ASSUME NEW v \in Users, NEW s \in Secrets, SendOtp(v, s) PROVE Cleared(u)'
  <2>1. /\ UNCHANGED <<role, owns, courier, order>> /\ Live(v)
        /\ code' = [code EXCEPT !["otp"][v] = s]
    BY <1>8 DEF SendOtp, Store, staffVars
  <2>2. v # u
    BY <2>1 DEF Live, Roles
  <2>3. \A k \in Kinds : code'[k][u] = code[k][u]
    BY <2>1, <2>2
  <2> QED
    BY <2>1, <2>3 DEF Cleared, RowsOf, Orderless
<1>9. ASSUME NEW v \in Users, Adds(v) PROVE Cleared(u)'
  <2>1. /\ UNCHANGED <<role, courier, order, code>> /\ Live(v)
        /\ \E t \in Tables : owns' = [owns EXCEPT ![v] = @ \union {t}]
    BY <1>9 DEF Adds, AddRow, secretVars
  <2>2. v # u
    BY <2>1 DEF Live, Roles
  <2> QED
    BY <2>1, <2>2 DEF Cleared, RowsOf, Orderless
<1>10. ASSUME NEW v \in Users, NEW p \in Orders, Place(v, p) PROVE Cleared(u)'
  <2>1. /\ UNCHANGED <<role, owns, courier, code>> /\ Live(v)
        /\ order' = [order EXCEPT ![p] = [status |-> "CREATED", user |-> v, courier |-> None]]
    BY <1>10 DEF Place, secretVars
  <2>2. v # u
    BY <2>1 DEF Live, Roles
  <2> QED
    BY <2>1, <2>2 DEF Cleared, RowsOf, Orderless
<1>11. ASSUME NEW r \in Requests,
             \/ Arrival(r) \/ Ending(r) \/ LoginCommit(r) \/ TrackCommit(r) \/ DeleteSweep(r)
      PROVE  UNCHANGED <<role, owns, courier, order, code>>
  BY <1>11 DEF Arrival, Begin, Ending, Refuse, Drop, LoginCommit, TrackCommit, DeleteSweep,
               staffVars, secretVars
<1>12. ASSUME NEW v \in Users, Refresh(v) PROVE UNCHANGED <<role, owns, courier, order, code>>
  BY <1>12 DEF Refresh, staffVars, secretVars
<1>13. ASSUME NEW s \in Secrets, Expire(s) PROVE UNCHANGED <<role, owns, courier, order, code>>
  BY <1>13 DEF Expire, staffVars
<1>14. CASE UNCHANGED vars
  BY <1>1, <1>14 DEF vars, staffVars, secretVars
<1> HIDE DEF TypeOK
<1> QED
  BY <1>1, <1>2, <1>3, <1>4, <1>5, <1>6, <1>7, <1>8, <1>9, <1>10, <1>11, <1>12, <1>13, <1>14, Steps

\* What refers to a courier row finds it.
Referring ==
    /\ \A o \in Orders : order[o].courier # None => Exists(order[o].courier)
    /\ \A log \in tracks : Exists(log[2])

\* Rows that are referred to stay: a deletion clears the orders, and a log stops it.
LEMMA ReferringStep ==
  ASSUME TypeOK, CallsFit, [Next]_vars, Referring
  PROVE  Referring'
<1> USE DEF TypeOK
<1>1. ASSUME UNCHANGED tracks, \A o \in Orders : order'[o].courier \in {order[o].courier, None},
             \A c \in Couriers : Exists(c) => Exists(c)'
      PROVE  Referring'
  <2>1. ASSUME NEW o \in Orders, order'[o].courier # None PROVE Exists(order[o].courier)'
    <3>1. order[o].courier = order'[o].courier /\ order[o].courier \in Couriers
      BY <1>1, <2>1 DEF NoOrder
    <3> QED
      BY <1>1, <2>1, <3>1 DEF Referring
  <2>2. ASSUME NEW o \in Orders, order'[o].courier # None PROVE courier'[order'[o].courier] \in Users
    BY <1>1, <2>1, <2>2 DEF Exists
  <2>3. ASSUME NEW log \in tracks PROVE Exists(log[2])'
    BY <1>1, <2>3 DEF Referring
  <2> QED
    BY <1>1, <2>2, <2>3 DEF Referring, Exists
<1>2. ASSUME NEW r \in Requests, Deletion(r) PROVE Referring'
  <2>1. /\ courier' = [c \in Couriers |-> IF c \in RowsOf(req[r].user) \ {} THEN Gone ELSE courier[c]]
        /\ order' = [o \in Orders |-> IF order[o].courier \in RowsOf(req[r].user) \ {}
                                      THEN [order[o] EXCEPT !.courier = None] ELSE order[o]]
        /\ UNCHANGED tracks /\ \A c \in RowsOf(req[r].user) : ~Tracked(c)
    BY <1>2 DEF Deletion, Delete
  <2>2. \A c \in Couriers : Exists(c) /\ c \notin RowsOf(req[r].user) => Exists(c)'
    BY <2>1 DEF Exists
  <2>3. ASSUME NEW o \in Orders, order'[o].courier # None PROVE courier'[order'[o].courier] \in Users
    <3>1. order[o].courier \notin RowsOf(req[r].user) /\ order'[o].courier = order[o].courier
      BY <2>1, <2>3 DEF NoOrder
    <3>2. order[o].courier \in Couriers /\ Exists(order[o].courier)
      BY <2>3, <3>1 DEF Referring, NoOrder
    <3> QED
      BY <2>2, <3>1, <3>2 DEF Exists
  <2>4. ASSUME NEW log \in tracks PROVE Exists(log[2])'
    <3>1. log[1] \in Orders /\ log[2] \in Couriers /\ log = <<log[1], log[2]>>
      OBVIOUS
    <3>2. log[2] \notin RowsOf(req[r].user)
      BY <2>1, <2>4, <3>1 DEF Tracked
    <3>3. Exists(log[2])
      BY <2>4 DEF Referring
    <3> QED
      BY <2>2, <3>1, <3>2, <3>3
  <2> QED
    BY <2>1, <2>3, <2>4 DEF Referring, Exists
<1>3. ASSUME NEW r \in Requests, PromoteCommit(r) \/ OnboardCommit(r) PROVE Referring'
  <2>1. req[r].user \in Users /\ UNCHANGED <<order, tracks>>
    BY <1>3 DEF PromoteCommit, OnboardCommit, At, CallsFit, Fits
  <2>2. PICK c \in Couriers : courier' = [courier EXCEPT ![c] = req[r].user]
    BY <1>3 DEF PromoteCommit, OnboardCommit, Enrol
  <2>3. \A d \in Couriers : Exists(d) => Exists(d)'
    BY <2>1, <2>2 DEF Exists
  <2> QED
    BY <1>1, <2>1, <2>3
<1>4. ASSUME NEW r \in Requests, AcceptCommit(r) PROVE Referring'
  <2>1. /\ UNCHANGED <<courier, tracks>> /\ Exists(req[r].courier)
        /\ \A o \in Orders : order'[o].courier \in {order[o].courier, req[r].courier}
    <3>1. ~RejectCommit(r) /\ ~AdvanceCommit(r)
      BY <1>4 DEF AcceptCommit, RejectCommit, AdvanceCommit, At
    <3> QED
      BY <1>4, <3>1, OrderWrites DEF AcceptCommit
  <2> QED
    BY <2>1 DEF Referring, Exists
<1>5. ASSUME NEW r \in Requests, RejectCommit(r) \/ AdvanceCommit(r) PROVE Referring'
  <2>1. UNCHANGED <<courier, tracks>>
    BY <1>5 DEF RejectCommit, AdvanceCommit
  <2>2. \A o \in Orders : order'[o].courier \in {order[o].courier, None}
    <3>1. ~AcceptCommit(r)
      BY <1>5 DEF AcceptCommit, RejectCommit, AdvanceCommit, At
    <3> QED
      BY <1>5, <3>1, OrderWrites
  <2> QED
    BY <1>1, <2>1, <2>2 DEF Exists
<1>6. ASSUME NEW r \in Requests, TrackCommit(r) PROVE Referring'
  <2>1. /\ UNCHANGED <<courier, order>> /\ Exists(req[r].courier)
        /\ tracks' = tracks \union {<<req[r].order, req[r].courier>>}
    BY <1>6 DEF TrackCommit
  <2> QED
    BY <2>1 DEF Referring, Exists
<1>7. ASSUME NEW v \in Users, NEW p \in Orders, Place(v, p) PROVE Referring'
  <2>1. /\ UNCHANGED <<courier, tracks>>
        /\ order' = [order EXCEPT ![p] = [status |-> "CREATED", user |-> v, courier |-> None]]
    BY <1>7 DEF Place
  <2> QED
    BY <2>1 DEF Referring, Exists
<1>8. ASSUME UNCHANGED <<courier, order, tracks>> PROVE Referring'
  BY <1>8 DEF Referring, Exists
<1>9. ASSUME NEW r \in Requests,
             \/ Arrival(r) \/ Ending(r) \/ CreateUser(r) \/ LoginCommit(r) \/ ForgotCommit(r)
             \/ Accept(r) \/ ClearExpired(r) \/ DeleteSweep(r)
      PROVE  UNCHANGED <<courier, order, tracks>>
  BY <1>9 DEF Arrival, Begin, Ending, Refuse, Drop, CreateUser, LoginCommit, ForgotCommit,
              Accept, ClearExpired, DeleteSweep, staffVars
<1>10. ASSUME NEW v \in Users, Refresh(v) \/ Adds(v) \/ \E s \in Secrets : SendOtp(v, s)
      PROVE  UNCHANGED <<courier, order, tracks>>
  BY <1>10 DEF Refresh, Adds, AddRow, SendOtp, staffVars
<1>11. ASSUME NEW s \in Secrets, Expire(s) PROVE UNCHANGED <<courier, order, tracks>>
  BY <1>11 DEF Expire, staffVars
<1>12. CASE UNCHANGED vars
  BY <1>8, <1>12 DEF vars, staffVars
<1> HIDE DEF TypeOK
<1> QED
  BY <1>2, <1>3, <1>4, <1>5, <1>6, <1>7, <1>8, <1>9, <1>10, <1>11, <1>12, Steps

\* A deleted account has nothing left, and nothing refers to a courier row that
\* is gone, whatever is added, claimed and recorded between a deletion's
\* statements: the last one finds what came too late, and a log or a lock keeps
\* the rest.
THEOREM DeletionTakesAll == Spec => []NothingLeftBehind
<1>1. Init => NothingLeftBehind
  BY DEF Init, NothingLeftBehind, NoOrder
<1>2. IInv /\ NothingLeftBehind /\ [Next]_vars => NothingLeftBehind'
  <2> SUFFICES ASSUME IInv, NothingLeftBehind, [Next]_vars PROVE NothingLeftBehind'
    OBVIOUS
  <2>1. TypeOK /\ CallsFit /\ Referring /\ \A u \in Users : role[u] = "GONE" => Cleared(u)
    BY DEF IInv, NothingLeftBehind, Referring, Cleared
  <2>2. Referring'
    BY <2>1, ReferringStep
  <2>3. \A u \in Users : role'[u] = "GONE" => Cleared(u)'
    BY <2>1, ClearedStep
  <2> QED
    BY <2>2, <2>3 DEF NothingLeftBehind, Referring, Cleared
<1> QED
  BY <1>1, <1>2, Invariance, PTL DEF Spec
=============================================================================
