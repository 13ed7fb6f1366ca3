------------------------------ MODULE Payouts ------------------------------
(***************************************************************************)
(* What the wallet promises about withdrawals, whatever its handlers do to *)
(* each other: money is held once, for as long as nothing is decided; it   *)
(* goes to the bank only if Xendit has paid it, and back to the wallet     *)
(* otherwise.  Handlers that race may settle a withdrawal again.  A user   *)
(* who had the money back then keeps it: what the balance has beyond the   *)
(* ledger grows by that withdrawal's amount, and nothing else changes it.  *)
(***************************************************************************)
EXTENDS Integers

CONSTANTS
    Users,        \* the owners of wallets
    Withdrawals,  \* slots for withdrawals
    Amounts,      \* the amounts that are withdrawn
    None          \* of no user, and no amount

VARIABLES
    place,   \* where the money of each withdrawal is
    claim,   \* whose it is, and how much
    paid,    \* the withdrawals whose payout succeeded
    surplus  \* what each user's balance has beyond the ledger

vars == <<place, claim, paid, surplus>>

Init ==
    /\ place = [w \in Withdrawals |-> "nowhere"]
    /\ claim = [w \in Withdrawals |-> [user |-> None, amount |-> None]]
    /\ paid = {}
    /\ surplus = [u \in Users |-> 0]

Hold(w, u, a) ==
    /\ place[w] = "nowhere"
    /\ place' = [place EXCEPT ![w] = "held"]
    /\ claim' = [claim EXCEPT ![w] = [user |-> u, amount |-> a]]
    /\ UNCHANGED <<paid, surplus>>

\* Xendit's payout succeeds, decided or not.
Pay(w) ==
    /\ place[w] # "nowhere"
    /\ paid' = paid \union {w}
    /\ UNCHANGED <<place, claim, surplus>>

Goes(w, to) ==
    /\ to = "bank" => w \in paid
    /\ place' = [place EXCEPT ![w] = to]
    /\ UNCHANGED <<claim, paid>>

Settle(w, to) ==
    /\ place[w] = "held"
    /\ Goes(w, to)
    /\ UNCHANGED surplus

SettleAgain(w, to) ==
    /\ place[w] \in {"bank", "wallet"}
    /\ Goes(w, to)
    /\ surplus' = IF place[w] = "wallet"
                  THEN [surplus EXCEPT ![claim[w].user] = @ + claim[w].amount]
                  ELSE surplus

Next ==
    \E w \in Withdrawals :
        \/ \E u \in Users, a \in Amounts : Hold(w, u, a)
        \/ Pay(w)
        \/ \E to \in {"bank", "wallet"} : Settle(w, to) \/ SettleAgain(w, to)

Spec == Init /\ [][Next]_vars
=============================================================================
