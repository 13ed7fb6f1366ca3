----------------------------- MODULE Broadcast -----------------------------
(***************************************************************************)
(* broadcastToCouriers: a fire-and-forget search that outlives the request *)
(* that started it.  It looks for online couriers within 3 km, waits ten   *)
(* seconds, looks within 5 km, and cancels the order when it found nobody. *)
(* Which couriers are near is the couriers' doing, so a look may find      *)
(* somebody or not.  The order row is read once, at the start, for its     *)
(* address; its status is never read.                                      *)
(***************************************************************************)
EXTENDS OrderRows

Stages == {"idle", "near", "waiting", "giveUp"}

Quiet == [stage |-> "idle", order |-> None]

StartSearch(s, o) ==
    /\ search[s] = Quiet
    /\ search' = [search EXCEPT ![s] = [stage |-> "near", order |-> o]]

\* The couriers found are all notified, and the search is over.
Found(s) ==
    /\ search[s].stage \in {"near", "waiting"}
    /\ offered' = [offered EXCEPT ![search[s].order] = TRUE]
    /\ search' = [search EXCEPT ![s] = Quiet]
    /\ UNCHANGED <<rowVars, bookVars, req>>

\* Nobody within 3 km: set the timer.
NobodyNear(s) ==
    /\ search[s].stage = "near"
    /\ search' = [search EXCEPT ![s].stage = "waiting"]
    /\ UNCHANGED <<rowVars, offered, bookVars, req>>

\* Mutant: the last empty look ends the search without a word.
BugNobodyAround(s) ==
    /\ search[s].stage = "waiting"
    /\ search' = [search EXCEPT ![s] = Quiet]
    /\ UNCHANGED <<rowVars, offered, bookVars, req>>

\* The timer fired, and nobody is within 5 km either.
NobodyAround(s) ==
    /\ search[s].stage = "waiting"
    /\ search' = [search EXCEPT ![s].stage = "giveUp"]
    /\ UNCHANGED <<rowVars, offered, bookVars, req>>

\* The auto-cancel, whatever the order's status is by now.
GiveUp(s) ==
    /\ search[s].stage = "giveUp"
    /\ ~Locked(search[s].order)
    /\ SetStatus(search[s].order, "CANCELLED")
    /\ search' = [search EXCEPT ![s] = Quiet]
    /\ UNCHANGED <<scale, offered, bookVars, req>>

\* The process stops while the search waits: nothing restarts it.
LoseSearch(s) ==
    /\ MayFail
    /\ search[s] # Quiet
    /\ search' = [search EXCEPT ![s] = Quiet]
    /\ UNCHANGED <<rowVars, offered, bookVars, req>>

SearchStep(s) == Found(s) \/ NobodyNear(s) \/ NobodyAround(s) \/ GiveUp(s)
=============================================================================
