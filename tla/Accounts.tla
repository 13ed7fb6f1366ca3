------------------------------ MODULE Accounts ------------------------------
(***************************************************************************)
(* Accounts and couriers: the handlers of Credentials and Staff on the     *)
(* same rows.  An account that is deleted under a handler's feet, or made  *)
(* twice, is what the two have in common.                                  *)
(***************************************************************************)
EXTENDS Credentials, Staff

Init ==
    /\ role = [u \in Users |-> "NONE"]
    /\ owns = [u \in Users |-> {}]
    /\ late = [u \in Users |-> {}]
    /\ courier = [c \in Couriers |-> None]
    /\ order = [o \in Orders |-> NoOrder]
    /\ tracks = {}
    /\ tokens = {}
    /\ enlisted = {}
    /\ code = [k \in Kinds |-> [u \in Users |-> None]]
    /\ secret = [s \in Secrets |-> "none"]
    /\ used = [s \in Secrets |-> 0]
    /\ req = [r \in Requests |-> Idle]
    /\ lost = 0
    /\ workload \in Workloads

Next ==
    \/ \E r \in Requests : AuthCall(r) \/ AuthStep(r) \/ StaffCall(r) \/ StaffStep(r) \/ Drop(r)
    \/ \E u \in Users :
          \/ Refresh(u)
          \/ \E t \in Tables : AddRow(u, t)
          \/ \E s \in Secrets : SendOtp(u, s)
          \/ \E o \in Orders : Place(u, o)
    \/ \E s \in Secrets : Expire(s)

Spec == Init /\ [][Next]_vars

-----------------------------------------------------------------------------
Calls ==
    [op : {"idle", "register", "login", "google", "forgot", "verify", "reset", "promote",
           "onboard", "accept", "reject", "advance", "track", "delete", "remove"},
     pc : {"idle", "create", "login", "store", "expire", "commit", "account"},
     user : Users \union {None}, courier : Couriers \union {None},
     order : Orders \union {None}, secret : Secrets \union {None},
     seen : Roles \union Statuses \union {"NONE"}]

\* Every variable stays within its type.
TypeOK ==
    /\ role \in [Users -> Roles \union {"NONE", "GONE"}]
    /\ owns \in [Users -> SUBSET Tables]
    /\ late \in [Users -> SUBSET (Tables \union Couriers)]
    /\ courier \in [Couriers -> Users \union {None, Gone}]
    /\ order \in [Orders -> [status : Statuses, user : Users,
                             courier : Couriers \union {None}] \union {NoOrder}]
    /\ tracks \subseteq Orders \X Couriers
    /\ tokens \subseteq Users \X Roles
    /\ enlisted \subseteq Users
    /\ code \in [Kinds -> [Users -> Secrets \union {None}]]
    /\ secret \in [Secrets -> {"none", "sent", "expired"}]
    /\ used \in [Secrets -> Nat]
    /\ req \in [Requests -> Calls]
    /\ lost \in 0 .. MaxLost
    /\ workload \in Workloads

-----------------------------------------------------------------------------
\* The calls that have found account u without a courier row, or not at all,
\* and are about to create its courier row.
Enrolling(u) ==
    {r \in Requests : req[r].op \in {"promote", "onboard"} /\ req[r].user = u}

\* An account has at most as many courier rows as requests were in flight
\* together: one when calls come one at a time.  Nothing else bounds them, since
\* the column is not unique.
CouriersBounded ==
    \A u \in Users :
        Cardinality(RowsOf(u)) + Cardinality(Enrolling(u)) <= Cardinality(Requests)

\* Who holds a courier's token and still has an account finds a courier row,
\* which every courier endpoint dereferences unseen; but for those who signed
\* up with the role of a courier, whom the code gives no row.
CourierTokensBacked ==
    \A u \in Users :
        <<u, "COURIER">> \in tokens /\ Live(u) /\ u \notin enlisted => RowsOf(u) # {}

\* The requests that have found code or token s valid and are about to use it.
Accepting(s) ==
    {r \in Requests : req[r].op \in {"verify", "reset"} /\ req[r].pc = "commit"
                      /\ req[r].secret = s}

\* A code or a reset link that was made is accepted at most once for each request
\* in flight, once when calls come one at a time; after that it is stored nowhere.
\* (The null that an account without a code answers to is no code: it spends none.)
SecretsSpent ==
    \A s \in Secrets :
        /\ used[s] + Cardinality(Accepting(s)) <= Cardinality(Requests)
        /\ used[s] > 0 => \A k \in Kinds, u \in Users : code[k][u] # s

\* A deletion takes all of the account, however other handlers add rows, claim
\* orders and record positions between its statements: a deleted account has no
\* row, courier row, order or code left, and no order and no tracking log refers
\* to a courier row that is gone.
NothingLeftBehind ==
    /\ \A u \in Users :
           role[u] = "GONE" =>
               /\ owns[u] = {} /\ RowsOf(u) = {} /\ Orderless(u)
               /\ \A k \in Kinds : code[k][u] = None
    /\ \A o \in Orders : order[o].courier # None => Exists(order[o].courier)
    /\ \A log \in tracks : Exists(log[2])

\* A code or link that is stored and was neither used nor has expired is only
\* taken away with its account, or by an answer of its own kind that was found
\* right before it was made: to an older one, or to none.
OnlyStaleAnswersDropSecrets ==
    [][\A k \in Kinds, u \in Users :
         code[k][u] # None /\ code'[k][u] = None =>
             \/ secret[code[k][u]] = "expired"
             \/ used'[code[k][u]] > used[code[k][u]]
             \/ role'[u] = "GONE"
             \/ \E r \in Requests :
                   /\ req[r].user = u /\ req[r].op \in {"verify", "reset"}
                   /\ KindOf(req[r].op) = k
                   /\ req[r].secret # code[k][u] /\ req'[r] = Idle]_vars

\* An order loses its courier by a rejection, or with the account of a courier
\* who has never recorded a position, and in no other way.  Nobody is told then:
\* an order that is on its way stays there without a courier.
OnlyUntrackedAreLost ==
    [][\A o \in Orders :
         LET c == order[o].courier
         IN  c # None /\ order'[o].courier = None =>
                 \/ \E r \in Requests : At(r, "reject", "commit") /\ req[r].order = o
                                        /\ req'[r] = Idle
                 \/ /\ \A p \in Orders : <<p, c>> \notin tracks
                    /\ role'[courier[c]] = "GONE"]_vars
=============================================================================
