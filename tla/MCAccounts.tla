----------------------------- MODULE MCAccounts -----------------------------
(* A small instance of Accounts for TLC. *)
EXTENDS Accounts, TLC

Interchangeable ==
    Permutations(Requests) \union Permutations(Users) \union Permutations(Couriers)
        \union Permutations(Secrets)

\* Signing up and becoming a courier, twice, against deletion and removal.
Hiring == {"register", "google", "login", "refresh", "promote", "onboard", "delete", "remove"}

\* Working on an order, against rejection and deletion.
Working == {"google", "login", "onboard", "addresses", "place", "accept", "reject",
            "advance", "track", "delete"}

\* Codes and links.
Recovering == {"google", "otp", "verify", "forgot", "reset", "delete"}

\* Rows that come while an account is deleted.
Leaving == {"google", "promote", "notifications", "withdrawals", "delete"}
Moving == {"google", "addresses", "payment_accounts", "place", "delete"}

Days == {Hiring, Working, Recovering, Leaving, Moving}
=============================================================================
