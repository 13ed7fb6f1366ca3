------------------------------ MODULE Defaults ------------------------------
(***************************************************************************)
(* A user's default payment account (WalletService) and primary address    *)
(* (AddressesService).  Both are a flag on one of the user's rows.  Making *)
(* a row the default clears the flag of the user's rows in one statement   *)
(* and sets it in a later one, without a transaction, and for an address   *)
(* with the geocoding call in between.                                     *)
(***************************************************************************)
EXTENDS Integers, FiniteSets

CONSTANTS
    Rows,      \* row ids in each table (a bound)
    Requests,  \* slots for requests in flight at the same time (a bound)
    MaxLost,   \* how many requests may fail between two steps (a bound)
    None       \* SQL NULL

ASSUME FiniteAssumption == IsFiniteSet(Rows) /\ IsFiniteSet(Requests)
ASSUME NoneAssumption == None \notin Rows
ASSUME LimitAssumption == MaxLost \in Nat

VARIABLES
    flag,  \* the state of each row of one user, by table
    req,   \* requests in flight that make a row the default
    lost   \* requests that failed between two steps so far

vars == <<flag, req, lost>>

Tables == {"accounts", "addresses"}

Idle == [pc |-> "idle", op |-> "idle", table |-> "none", row |-> None, found |-> FALSE]

Exists(t, i) == flag[t][i] \in {"plain", "default"}

\* An id that no row had and no request is about to create.
Fresh(t, i) ==
    /\ flag[t][i] = "none"
    /\ \A r \in Requests : ~(req[r].op = "create" /\ req[r].table = t /\ req[r].row = i)

Finish(r) == req' = [req EXCEPT ![r] = Idle]

-----------------------------------------------------------------------------
(* Calls that do not ask for the flag: one statement that matters.         *)

CreatePlain(t, i) ==
    /\ Fresh(t, i)
    /\ flag' = [flag EXCEPT ![t][i] = "plain"]
    /\ UNCHANGED <<req, lost>>

\* An update with the flag set to false.
Unset(t, i) ==
    /\ Exists(t, i)
    /\ flag' = [flag EXCEPT ![t][i] = "plain"]
    /\ UNCHANGED <<req, lost>>

Remove(t, i) ==
    /\ Exists(t, i)
    /\ flag' = [flag EXCEPT ![t][i] = "gone"]
    /\ UNCHANGED <<req, lost>>

-----------------------------------------------------------------------------
(* Calls that ask for the flag.                                            *)

\* Mutant: nobody looks for the payment account first.
BugAsked(op, t, i) == IF op = "create" THEN Fresh(t, i) ELSE flag[t][i] # "none"

\* A payment account must exist before the old default is cleared.  An address
\* need not: whether it is there turns out when it is written.
Asked(op, t, i) ==
    IF op = "create" THEN Fresh(t, i)
    ELSE IF t = "accounts" THEN Exists(t, i)
    ELSE flag[t][i] # "none"

\* `found' is what the look at the row has shown, or would have.
Ask(r, op, t, i) ==
    /\ req[r] = Idle
    /\ Asked(op, t, i)
    /\ req' = [req EXCEPT ![r] = [pc |-> "clear", op |-> op, table |-> t, row |-> i,
                                  found |-> Exists(t, i)]]
    /\ UNCHANGED <<flag, lost>>

\* Mutant: only the row that becomes the default is cleared.
BugClear(r) ==
    LET t == req[r].table
    IN  /\ req[r].pc = "clear"
        /\ flag' = [flag EXCEPT ![t][req[r].row] = IF @ = "default" THEN "plain" ELSE @]
        /\ req' = [req EXCEPT ![r].pc = "set"]
        /\ UNCHANGED lost

\* updateMany: none of the user's rows is the default.
Clear(r) ==
    LET t == req[r].table
    IN  /\ req[r].pc = "clear"
        /\ flag' = [flag EXCEPT ![t] =
                      [i \in Rows |-> IF flag[t][i] = "default" THEN "plain" ELSE flag[t][i]]]
        /\ req' = [req EXCEPT ![r].pc = "set"]
        /\ UNCHANGED lost

\* Mutant: a state of the flag that neither table has.
BugSet(r) ==
    LET t == req[r].table
        i == req[r].row
    IN  /\ req[r].pc = "set"
        /\ req[r].op = "create" \/ Exists(t, i)
        /\ flag' = [flag EXCEPT ![t][i] = "primary"]
        /\ Finish(r)
        /\ UNCHANGED lost

Set(r) ==
    LET t == req[r].table
        i == req[r].row
    IN  /\ req[r].pc = "set"
        /\ req[r].op = "create" \/ Exists(t, i)
        /\ flag' = [flag EXCEPT ![t][i] = "default"]
        /\ Finish(r)
        /\ UNCHANGED lost

\* The address has no coordinates, or the row to update is gone: the default
\* that was cleared does not come back.
SetRefused(r) ==
    /\ req[r].pc = "set"
    /\ \/ req[r].table = "addresses"
       \/ req[r].op = "update" /\ ~Exists(req[r].table, req[r].row)
    /\ Finish(r)
    /\ UNCHANGED <<flag, lost>>

\* The process stops, or a query throws.
Drop(r) ==
    /\ lost < MaxLost
    /\ req[r] # Idle
    /\ lost' = lost + 1
    /\ Finish(r)
    /\ UNCHANGED flag

-----------------------------------------------------------------------------
Init ==
    /\ flag = [t \in Tables |-> [i \in Rows |-> "none"]]
    /\ req = [r \in Requests |-> Idle]
    /\ lost = 0

Next ==
    \/ \E t \in Tables, i \in Rows : CreatePlain(t, i) \/ Unset(t, i) \/ Remove(t, i)
    \/ \E r \in Requests, op \in {"create", "update"}, t \in Tables, i \in Rows : Ask(r, op, t, i)
    \/ \E r \in Requests : Clear(r) \/ Set(r) \/ SetRefused(r) \/ Drop(r)

Spec == Init /\ [][Next]_vars

-----------------------------------------------------------------------------
\* Every variable stays within its type.
TypeOK ==
    /\ flag \in [Tables -> [Rows -> {"none", "plain", "default", "gone"}]]
    /\ req \in [Requests -> [pc : {"idle", "clear", "set"}, op : {"idle", "create", "update"},
                             table : Tables \union {"none"}, row : Rows \union {None},
                             found : BOOLEAN]]
    /\ lost \in 0 .. MaxLost

Default(t) == {i \in Rows : flag[t][i] = "default"}

\* The requests that have cleared the default of table t and not set theirs yet.
Setting(t) == {r \in Requests : req[r].pc = "set" /\ req[r].table = t}

\* A user has at most as many defaults as requests were in flight together: one
\* when calls come one at a time, and any later call takes surplus ones back.
\* Two calls in flight do leave two defaults, however: nothing is locked.
DefaultsBounded ==
    \A t \in Tables :
        Cardinality(Default(t)) + Cardinality(Setting(t)) <= Cardinality(Requests)

\* There is a default, or a request is about to set one.
Covered(t) == Default(t) # {} \/ Setting(t) # {}

\* A table that is covered is left without a default only when the user takes the
\* flag or the row away, when a request dies on the way, when the payment account
\* that was to become the default is removed meanwhile, or when an address is
\* refused: it alone is checked after the old default is cleared.
DefaultsSurvive ==
    [][\A t \in Tables : Covered(t) /\ ~Covered(t)' =>
         \/ req' = req
         \/ lost' > lost
         \/ \E r \in Setting(t) :
               /\ req'[r] = Idle
               /\ t = "addresses" \/ (req[r].found /\ ~Exists(t, req[r].row))]_vars
=============================================================================
