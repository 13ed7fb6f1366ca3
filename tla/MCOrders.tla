------------------------------ MODULE MCOrders ------------------------------
(* Small instances of Orders for TLC. *)
EXTENDS Orders, TLC

\* A net total the owner owes and one the owner earns.
Nets == {-1, 1}
Debt == {-1}

\* Everything up to the pick-up, without money.
ClaimEndpoints == Operations \ {"payWallet", "payInvoice", "paid", "complete", "deliver"}

\* Payment, refund and callbacks.
PaymentEndpoints == {"accept", "arrive", "startWeighing", "submit", "confirm",
                     "payWallet", "payInvoice", "paid", "cancel"}

\* Payment from the wallet, and the settlement of a completed order.
SettlementEndpoints == {"accept", "arrive", "startWeighing", "submit", "confirm", "pickup",
                        "payWallet", "cancel", "deliver", "complete"}

\* What must end: an unanswered order, a lock held by a cancel, a paid invoice.
LiveEndpoints == {"accept", "arrive", "startWeighing", "submit", "confirm",
                  "payInvoice", "paid", "cancel"}

\* Callbacks of one invoice while the courier goes on.
CallbackEndpoints == {"accept", "arrive", "startWeighing", "submit", "confirm",
                      "payInvoice", "paid", "deliver"}

\* Everything that does not depend on Xendit.
SerialEndpoints == Operations \ {"payInvoice", "paid"}

Interchangeable == Permutations(Requests) \union Permutations(Couriers) \union Permutations(Payments)
=============================================================================
