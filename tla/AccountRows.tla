----------------------------- MODULE AccountRows -----------------------------
(***************************************************************************)
(* The rows behind an account, and what is common to the handlers of       *)
(* AuthService, UsersService, CouriersService and AdminService.  A handler *)
(* reads, checks, awaits, and writes by id in a later statement or         *)
(* transaction; what stops a late write is not a second check but the      *)
(* database: unique e-mail addresses, foreign keys, and updates of rows    *)
(* that are gone, which throw.  A request in flight is a slot `req[r]'     *)
(* that carries what it read.                                              *)
(***************************************************************************)
EXTENDS Integers, FiniteSets

CONSTANTS
    Users,      \* accounts, one for each e-mail address (used once: a bound)
    Couriers,   \* ids of courier rows
    Orders,     \* order ids
    Secrets,    \* one-time codes and reset tokens that can be made (a bound)
    Requests,   \* slots for requests in flight at the same time (a bound)
    MaxLost,    \* how many requests may fail between two steps (a bound)
    Workloads,  \* sets of endpoints; a behaviour calls those of one set (a bound)
    None,       \* SQL NULL
    Gone        \* the user of a courier row that was deleted

ASSUME FiniteAssumption == IsFiniteSet(Requests) /\ IsFiniteSet(Couriers)
ASSUME NoneAssumption ==
    /\ None \notin Users \union Couriers \union Orders \union Secrets
    /\ Gone \notin Users \union {None}
ASSUME LimitAssumption == MaxLost \in Nat

VARIABLES
    role,      \* users: the role; "NONE" before the account exists, "GONE" after
    owns,      \* the tables that hold rows of the account
    late,      \* what the account got since a deletion emptied its tables
    courier,   \* couriers: whose the row is
    order,     \* orders: status, owner and courier
    tracks,    \* order_tracking_logs: which courier was where for which order
    tokens,    \* access tokens that were issued: account and role
    enlisted,  \* accounts that signed up as couriers themselves
    code,      \* users.otp_code and users.reset_token
    secret,    \* what has become of each code and token
    used,      \* how often each code or token was accepted
    req,       \* requests in flight
    lost,      \* requests that failed between two steps so far
    workload   \* the endpoints this behaviour calls

staffVars == <<courier, order, tracks, late>>
loginVars == <<tokens, enlisted>>
secretVars == <<code, secret, used>>
vars == <<role, owns, staffVars, loginVars, secretVars, req, lost, workload>>

Roles == {"USER", "COURIER", "ADMIN"}

\* ON_GOING stands for every status in which a courier may be tracked, and
\* COMPLETED for the end of an order: module Orders tells them apart.
Statuses == {"CREATED", "MATCHED", "ON_GOING", "COMPLETED"}

NoOrder == [status |-> "NONE", user |-> None, courier |-> None]

Live(u) == role[u] \in Roles

\* The courier rows of an account: user_id is not unique.
RowsOf(u) == {c \in Couriers : courier[c] = u}

Exists(c) == courier[c] \in Users

\* JwtAuthGuard: the token is believed, whatever has become of the account.
LoggedIn(u) == \E seen \in Roles : <<u, seen>> \in tokens

-----------------------------------------------------------------------------
Idle == [op |-> "idle", pc |-> "idle", user |-> None, courier |-> None,
         order |-> None, secret |-> None, seen |-> "NONE"]

\* The call `call' arrives and passes the guards of its caller.
Begin(r, call) ==
    /\ req[r] = Idle
    /\ call.op \in workload
    /\ req' = [req EXCEPT ![r] = call]
    /\ UNCHANGED <<role, owns, staffVars, loginVars, secretVars, lost, workload>>

At(r, op, pc) == req[r].op = op /\ req[r].pc = pc

Continue(r, pc) == req' = [req EXCEPT ![r].pc = pc]

Finish(r) == req' = [req EXCEPT ![r] = Idle]

\* The request answers with an error, and what it did stays.
Refuse(r) ==
    /\ Finish(r)
    /\ UNCHANGED <<role, owns, staffVars, loginVars, secretVars, lost, workload>>

\* A request fails between two steps: the process restarts, or a call throws.
Drop(r) ==
    /\ lost < MaxLost
    /\ req[r] # Idle
    /\ lost' = lost + 1
    /\ Finish(r)
    /\ UNCHANGED <<role, owns, staffVars, loginVars, secretVars, workload>>
=============================================================================
