# Angkutin backend: a verification development

Angkutin is a waste pick-up service: owners place orders, couriers claim them,
weigh the waste, and money moves between wallets, the bank (through Xendit) and
the ledger. The backend is a NestJS application over PostgreSQL (Prisma). This
directory holds TLA+ models of its core, TLC configurations that check them on
small instances, and TLAPS proofs of the results that matter most.

Run everything from this directory:

    tlasany Orders.tla
    tlc -workers 2 -config MCOrders_claims.cfg MCOrders
    tlapm OrdersProofs.tla

`PROJECT.json` lists components, runs, mutants, the map from definitions to
source lines, the findings, the hazards and the theorems.

## 1. Inventory

All paths are below `src/src/`. "Row" means a row of the table of that name.

| component | state | operations that change it | modelled in |
|---|---|---|---|
| order lifecycle (`orders/orders.service.ts`, `orders.controller.ts`, `couriers/couriers.controller.ts`) | `orders`, `order_status_histories` | create, accept, depart, arrive, pickup, deliver, complete, reject, startWeighing, submitWeighing, confirmWeighing, cancel | `OrderRows`, `CourierFlow`, `UserFlow`, `Orders` |
| dispatch (`broadcastToCouriers`) | an in-memory search with a ten-second timer | look within 3 km, wait, look within 5 km, notify, auto-cancel | `Broadcast` |
| order payments (`payOrder`, `handlePayment*`, `webhooks/`) | `payments`, the invoice at Xendit | pay from the wallet, pay by invoice, paid callback, expired callback | `UserFlow`, `Orders` |
| wallet (`wallet/wallet.service.ts`) | `wallets`, `wallet_transactions`, `withdrawals`, payment accounts | top-up, credits, order debit, request, approve and reject a withdrawal, payout webhook, account defaults | `Wallet`; payment accounts in `Defaults` |
| Xendit client (`xendit/xendit.service.ts`) | none of its own; invoices and payouts at Xendit | createInvoice, createPayout | steps of the handlers that call it |
| couriers (`couriers/couriers.service.ts`, `couriers.controller.ts`) | `couriers` | register, onboard, delete; approve, online, position, vehicle | `Staff` (the first three, and the courier row behind a courier's calls) |
| admin (`admin/admin.service.ts`) | none of its own | approve and reject a withdrawal, delete a user, prices, exports | withdrawals in `Wallet`, deletion in `Staff`; the rest are reads and single writes |
| addresses (`addresses/addresses.service.ts`) | `addresses` with a primary flag | create, update, set primary, delete | `Defaults` |
| users, auth (`users/`, `auth/`) | `users` with OTP, reset and refresh tokens | register, login, Google login, refresh, OTP, reset; logout, profile | `Credentials` (all but the last two) |
| notifications, mail, upload | none | output only | not modelled; an order's NEW_ORDER push is `offered` |
| waste types (`waste-types/`) | price list | single-row operations | not modelled; the total it leads to is `NetValues` |
| tracking (`updateCourierLocation`) | `order_tracking_logs` | record a position | `Staff`: a log keeps the courier's row from being deleted |
| AI analysis (`analyzeAndSaveAiResult`) | photos' results | single inserts | not modelled: nothing else reads them to decide |

### How components interact

- A controller calls one service method; the method *reads* the row, *checks*
  its guards on what it read, *awaits* other reads or services, and then
  *writes* in `prisma.$transaction`. The write names only the row's id. The one
  exception is `acceptOrder`, whose `updateMany` repeats its conditions.
- `create` and `rejectOrder` start `broadcastToCouriers` and do not wait for it.
- `transitionOrderStatus` (to COMPLETED) and `cancelOrder` call the wallet from
  *inside* their transaction; the wallet opens a transaction of its own on
  another connection, so it commits first. `payOrder` calls it before its
  transaction.
- Xendit calls back through `webhooks/`: the invoice callback reaches
  `handlePaymentSuccess` or `handlePaymentExpired`, the payout callback
  `handleXenditPayoutWebhook`. Both are repeated until they are answered and may
  come in any order.
- Accounts, couriers and orders meet in foreign keys. All restrict a deletion
  except the one from an order to its courier, which is set to NULL
  (`migrations/20260428062317_init`). The token of a request is believed
  whatever has become of its account (`jwt.strategy.ts`).
- PostgreSQL runs at READ COMMITTED. Two transactions that update the same
  row are ordered by the row's lock; nothing else is.

### Hard behaviours

1. Two handlers that read the same status and both write (double accept, double
   reject, double complete, double cancel, two decisions about a withdrawal).
2. Handlers that write over what they did not read: the auto-cancel, the paid
   callback, a confirm or a cancel that was overtaken.
3. Money that commits before the transaction that records why it moved.
4. Callbacks that are repeated, late, or earlier than the call that caused them
   has finished.
5. Crashes between two steps, and an in-memory search that no restart resumes.
6. A lock held by `cancelOrder` while it waits for another transaction.
7. Checks before a create or an update that nothing in the database repeats: two
   courier rows of one user, a code used twice, a new code cleared by the answer
   to an old one.
8. Deletions that race with what they are about to delete, and with rows that
   come into a table they have emptied.
9. External ids made of milliseconds, which two calls may share.

### What makes each component correct

- *Order lifecycle*: the timeline only shows stages some stage leads to; a
  courier is replaced only after a release; statuses follow the table
  `validTransitions` and the caller's role, except where a write is blind; an
  order at work has a courier; an owner cancels before the courier arrives (not
  so: finding).
- *Dispatch*: a created order is offered or leaves CREATED; an assigned one is
  not timed out (it is: finding).
- *Payments*: PAID means money; a refund means a PAID payment; a paid invoice
  lands; an order that is owed for is paid before pick-up (it is not: finding);
  a repeated callback changes nothing (it does: finding).
- *Settlement*: who is credited, once and whole.
- *Wallet*: statuses tell what happened at Xendit; nobody is short; only a
  race pays a withdrawal twice (it does: finding); every payout that ended is
  settled; all of it implements the abstract `Payouts`.
- *Defaults*: a user has one default payment account and one primary address
  unless calls overlap, and loses it only as told (below).
- *Couriers*: one courier row for each account unless calls overlap; a courier's
  token has a courier row behind it; an order loses its courier only by a
  rejection or with an account that never recorded a position.
- *Auth*: a code or link is accepted once unless calls overlap, is stored nowhere
  afterwards, and is not taken away fresh except by a late answer to an older one
  or to none.
- *Admin*: a deletion takes all of an account, or nothing.

## 2. The models

### Modules

| module | what it is |
|---|---|
| `Lifecycle` | abstract specification: timeline, holder, proceeds and refunds of each order |
| `OrderRows` | the rows, requests in flight, and what every handler does: `Begin`, `Continue`, `Finish`, `Refuse`, `Drop`, `SetStatus`, `Book` |
| `Broadcast` | the search of `broadcastToCouriers` and its auto-cancel |
| `CourierFlow` | accept, depart, arrive, pickup, deliver, complete, reject and the weighing |
| `UserFlow` | create, confirm, pay, cancel, and the Xendit invoice with its callbacks |
| `Orders` | the composition, its fairness and its properties; `LC` maps it to `Lifecycle` |
| `MCOrders`, `MCOrders_*.cfg` | instances for TLC |
| `OrdersProofs` | inductive invariant, type and schedule invariants, the refinement |
| `MoneyProofs` | payments, refunds, fares and settlements of `Orders`, and the work they are for |
| `TableProofs` | who may bring an order from which status to which |
| `SerialProofs` | what holds of `Orders` while the requests of an order come one at a time |
| `Wallet` | balances, ledger, withdrawals and payouts |
| `MCWallet`, `MCWallet_*.cfg` | instances for TLC |
| `Defaults` | the default payment account and the primary address of a user |
| `MCDefaults`, `MCDefaults_flags.cfg` | instance for TLC |
| `DefaultsProofs` | how many defaults a user can have |
| `WalletProofs` | inductive invariant, safety and action properties of `Wallet`, and that it implements `Payouts` |
| `LockedProofs` | what holds of `Wallet` while the requests of a withdrawal come one at a time |
| `Payouts` | abstract specification: where the money of a withdrawal is, what was paid, and how much users have beyond the ledger |
| `AccountRows` | the rows behind an account and what its handlers share |
| `Credentials` | sign-up, login, refresh, one-time codes, reset links |
| `Staff` | who becomes a courier, a courier's calls and the row they rest on, deletion and removal |
| `Accounts` | the composition of the two and its properties |
| `MCAccounts`, `MCAccounts_accounts.cfg` | instance for TLC |
| `AccountsProofs` | inductive invariant and the action properties of `Accounts` |

### State and code

| variable | code |
|---|---|
| `order[o]` | `status`, `courierId`, `netTotal` and `scheduleType` of the row; status NONE is an order that is not placed |
| `history[o]` | the *set* of statuses in `order_status_histories` |
| `scale[o]` | whether the note of the newest WEIGHING history row is the weights as JSON or a text |
| `offered[o]` | a courier was pushed NEW_ORDER |
| `search[s]` | one run of `broadcastToCouriers`: looking near, waiting, giving up |
| `payment[p]`, `invoice[p]` | the payment row with external id p; the invoice that row names (`own`), invoices under the same id that no row names (`stray`), and whether one of these has expired (`lapsed`) |
| `entries[o][k]` | how many ledger rows of a kind (`proceeds`, `commission`, `points`, `fare`, `refund`) mention the order |
| `req[r]` | a request in flight: operation, next step, actor, and the part of the row it read |
| `balance`, `ledger` | `wallets.balance`, and the sum of the `wallet_transactions` that are not FAILED |
| `flag[t][i]` (`Defaults`) | `isDefault` of a payment account or `isPrimary` of an address, and whether the row exists |
| `role[u]`, `owns[u]` (`Accounts`) | `users.role`, `NONE` before and `GONE` after; which of the restricting tables have rows of the user: wallets, addresses, withdrawals, payment accounts, notifications |
| `late[u]` (`Accounts`) | the rows the user got since a deletion under way emptied its tables |
| `courier[c]` | `couriers.user_id` of a courier row |
| `order[o]`, `tracks` (`Accounts`) | status, owner and courier of an order; which courier has a tracking log for which order |
| `tokens`, `enlisted` | access tokens with the role they were issued for; who signed up as a courier |
| `code[k][u]`, `secret[s]`, `used[s]` | `otp_code` and `reset_token`; whether a code was sent or has expired; how often it was accepted |
| `workload` | the set of endpoints this behaviour calls (a bound, not state of the code) |
| `withdrawal[w]`, `row[w]`, `payout[w]` | the withdrawal, its ledger row's status, the payout at Xendit with its id |

A handler is an action `XRead` that reads and checks (refused calls change
nothing, so a call that fails its first guards is not a step), one action per
await that changes or reads something later, and `XCommit`, its transaction.
Guards that use the row read at the start use `req[r].seen` and `req[r].net`,
never `order[o]`. `Claim` is the exception, as in the code.

- **READ COMMITTED.** A transaction is one step where every write in it is
  visible at once and nothing it read is used after it. `cancelOrder` holds the
  lock of its row over the refund, and the refund commits before it: three steps
  (`CancelLock`, `CancelRefund`, `CancelFinish`), with every writer of the row
  waiting on `Locked`. A completion credits first and locks last, so its credits
  are separate steps and its status write is one.
- **Crashes.** `Drop` ends a request between two of its steps: the process
  restarts, Prisma's transaction times out, or a query throws. `LoseSearch` does
  the same to a search. What was committed stays.
- **The ledger as counts.** `Orders` counts ledger rows per order and kind; the
  amounts are in `Wallet`, which in turn does not know what a debit is for. The
  two meet in `DebitFare`/`PayCommit`, `CreditUser`/`Credit` and
  `CancelRefund`/`Credit`.
- **Accounts.** A user is named by the e-mail address. Two sign-ups for one address
  race for the unique column (`CreateRefused`). Access tokens never expire in the
  model, which admits more than the code does. `Place`, `AcceptRead` and the other
  order calls here keep only what a deletion can take away: ON_GOING stands for
  every status in which a courier may be tracked, and a row that is gone makes
  the write fail (`WorkRefused`, `UserGone`).
- **Payouts.** `PO` maps the ledger row's status to a place: none to nowhere,
  PENDING to held, SUCCESS to the bank, FAILED to the wallet. `surplus` is
  `balance - ledger`. `SettleAgain` is the promise at its weakest: handlers that
  race may settle a withdrawal again, and what the user gets then is exactly one
  amount more, or nothing.
- **External ids.** A slot of `Payments` is one external id. Two calls of one kind
  (`PAY-WL`, `INV`) may draw the same one, when they fall in one millisecond; the
  column is unique, so the later `payment.create` throws (`IdTaken`): a fare stays
  debited without a row, or an invoice stays at Xendit under the other call's id.
  Callbacks carry that id, so the orphan's expiry (`StrayExpired`) hits the other
  row. The orphan cannot be paid, since its URL is handed out with the row only,
  and it expires after the call that made it has ended, since an invoice lasts 24
  hours. Ids are shared only where `MayFail` is set: a throw in the middle of a
  handler is one of the failures that runs and theorems with `~MayFail` exclude.
- **Deletion.** `deleteUser` is a transaction of about eight statements. One that
  reads a table sees what was committed before it, so that only rows which come
  into a table that is empty by then make a difference. `DeleteSweep` stands for
  the statements that empty the tables, `DeleteCommit` and `DeleteUndone` for the
  last one, which a foreign key lets pass or not; in between other handlers add
  rows (`Gets`), and those that need a row the transaction has locked wait
  (`Held`, `OrderHeld`).
- **Codes.** `verifyOtp` compares with `!==`, and nothing validates its body, so
  that null is the right answer for an account that has no code: `VerifyRead`
  takes `None` too. `resetPassword` looks the user up by the token and does not.
- **Actors.** Only an order's owner passes the ownership guards, so the owner is
  one actor "USER"; "ADMIN" cancels; couriers are constants.

### Runs

| run | shows | bounds |
|---|---|---|
| `claims` | with two couriers, owner and admin, two calls in flight and any of them dying: types, the schedule, every change of status is its caller's to make from what was read (`ChangesAreEntitled`), and the lifecycle | 1 order, 2 couriers, 2 requests, 1 search |
| `payments` | with wallet and invoice payments, shared external ids, callbacks, cancels and crashes: PAID is funded, refunds are backed | 1 order that is owed for, 1 courier, 2 requests, 2 payments |
| `settlement` | without crashes, with pick-ups and double payments: fares agree with payments, a completion's bookings are whole, money moves only for work that is on the timeline, the lifecycle holds with the wallet's money operations | 1 order, 1 courier, 2 requests, 2 payments |
| `live` | under fairness: calls finish, a created order is answered, a paid invoice lands | 1 order, 1 courier, 2 requests |
| `timeout` (violation) | the auto-cancel cancels an assigned order | 1 of everything |
| `pickup` (violation) | the pickup endpoint takes an unpaid order | 1 of everything |
| `cancel` (violation) | the owner cancels an order that waits for the payment | 1 of everything |
| `callback` (violation) | a repeated callback undoes the courier's next step | 2 requests |
| `payouts` | statuses, balances and settlement of withdrawals with approvals, rejections, webhooks and one crash; `Payouts` is implemented | 1 user, 1 withdrawal, 2 requests, amounts 1 and 2 |
| `decisions` (violation) | two decisions about one withdrawal are both carried out | 1 withdrawal, 2 requests |
| `flags` | never more defaults than calls in flight, in both tables, with failures and crashes; and how a user can lose the default | 3 rows in each table, 2 requests |
| `accounts` | courier rows are bounded, tokens backed, codes spent, fresh codes kept, deletions whole, couriers lost only as told, with one crash | 2 users, 3 courier rows, 1 order, 2 codes, 2 requests, one of 5 workloads |

*Why the bounds are enough to be interesting.* Nothing in the code relates two
orders, or two withdrawals, except through balances, so one of each shows every
interleaving of handlers on a row. Every race in the inventory needs two
handlers in flight plus a search or a callback; two request slots and one search
give them. Couriers matter as a pair (claim against claim, claim against
release). Amounts 1 and 2 against balances up to 2 make both a covered and an
uncovered debit happen. `MaxEntries` stops new
bookings after a ledger kind has that many rows of an order; two calls that both
began before still reach one more, so double payments happen, and two payment
rows hold them: two wallet payments, or a wallet payment and an invoice that is
paid later. Three rows and two calls in flight are the least with which surplus
defaults could pile up. Larger instances of `Wallet` (two
withdrawals; three requests) were checked once and hold; so were the inductive
invariants of `SerialProofs` with two orders and two requests, one per order, and
those of `LockedProofs` with two withdrawals. The theorems remove the bounds for
the properties they name.

In `accounts` a behaviour calls the endpoints of one workload: becoming and
ceasing to be a courier; working on an order; codes and links; and two in which
rows of each kind come while an account is deleted. Each has the deletion in it,
and sign-in, so that what they share is there; nothing of one workload reads what
only another writes. Two users suffice, since handlers meet only in one user's
rows; three courier rows are one more than two calls can make of one user; two
codes are an old one and a new one, or one of each kind. E-mail addresses and ids
are used once.

`CHECK_DEADLOCK FALSE` everywhere: the system really stops, when every order is
completed or cancelled and no bound admits another call.

*Endpoints.* Each run calls the subset of the operations named in `MCOrders`;
the passing runs together call all of them.

### Fairness, and why the code justifies it

- Weak fairness of `Proceed(r)` and `SearchStep(s)`: Node's event loop runs each
  continuation whose promise has settled, and timers fire. PostgreSQL hands a
  row's lock to a waiter once it is released.
- Strong fairness of a paid callback, and of a payout webhook that has something
  to settle: Xendit repeats a delivery until it is answered with success, and
  each repetition finds the server. In the model a delivery competes for one of
  the finitely many request slots, so it is enabled again and again but not
  continuously; the real server has no such limit.
- No fairness of calls by owners, couriers and admins, of payments at Xendit, or
  of `Drop`. The liveness of orders is claimed for a process that does not stop
  (`MayFail = FALSE`): a restart loses the search, and nothing resumes it.
  `PayoutSettles` is claimed with a crash allowed.

## 3. What is proved

Assumptions: the named ASSUMEs of `OrderRows`, `Wallet`, `Defaults` and
`AccountRows` (the NULL value is none of the ids; net totals are integers, amounts
are naturals; rows and requests in `Defaults`, courier rows and requests in
`Accounts`, are finitely many, since they are counted). TLC evaluates them in the
runs of these modules. No bound on the number of orders, couriers, requests,
searches, payments, users, withdrawals or codes.

**Orders.** `Grounded` is inductive. `ScheduleRespected` and the refinement are
not: a step such as `TransitionCommit` writes a status that was justified when
the request began, possibly many commits ago. What makes it right is that the
*timeline only grows*. So the invariant says, for each request in flight, that a
stage its writes rest on (`Basis`) is still on the timeline, whatever the row
shows by now; and that rows, payments and searches refer to placed orders.

- `AlwaysGrounded`: `Spec => []Grounded`, one lemma per handler and the general
  ones (`RequestsKept`, `RowWritten`, `BeginGrounded`) under them.
- `TypeCorrect`, `ScheduleCorrect`: conjuncts of it.
- `OrdersImplementLifecycle`: each step maps to a step of `Lifecycle` or a
  stutter. `Claim` maps to `Claim` because the conditional update looks at the
  courier again; `RejectCommit` to `Release` because its order was once MATCHED;
  credits to `PayProceeds` and `Refund`; every status write to `Advance`.

**Money of an order** (`MoneyProofs`). What a handler did to an order's money and
why is written in different transactions, so each invariant ties the money to the
requests that are between the two.

- `SlotsAgree`: `SlotInv` says what a request knows of its payment, and a row of
  its invoice: only calls of one kind share an external id (`SlotsApart`), so a row
  is never a wallet payment under an invoice; a row is PAID by its method and its
  own invoice (`RowFunded`); a callback's payment belongs to its order, and its
  invoice is paid.
- `PaidFunded`: from `SlotInv`. With crashes, with any callbacks, with shared ids.
- `RefundsBacked`: a cancel that found a payment under its lock refunds money that
  came in (`RefundInv`), and a payment of which the money came in stays one
  (`BackingStays`): its own invoice is PAID for good, a filled row is not filled
  again, and PAID is taken back only where an orphan of the same id expired.
- `RefundsStayPaid`: where no request dies, and so no external id is shared, there
  are no orphans (`AlwaysNoStrays`: each stray invoice belongs to the call that is
  about to record it), and what is refunded says PAID for good.
- `FaresMatch`, `SettlementsWhole`: the wallet payments recorded and the requests
  that debited and have yet to record them are together as many as the fares
  (`FareKept`); the commissions are the points plus the completions between the
  two (`SettlementKept`). A call that dies in between breaks exactly this, hence
  `~MayFail`, as in the run `settlement`.
- `WorkIsDone`: money moves only for an order with a timeline of all the stages
  that lead there. The refinement alone gives one stage before another
  (`Lifecycle!LeadsTo`); `Staged` chains them back to CREATED, and `Justified`
  says that what is booked has its stage (`BookedAt`) on the timeline.

**Who changes a status** (`TableProofs`). `SeenFits` says that each request in
flight has read a status from which its *caller* may bring the order where its
write will (`Allowed`, by operation, status and actor); `Entitled` is the table by
role. `RowsPlain` is what makes a courier's cancel one of an order that somebody
claimed: a CREATED order has no courier. So every change is entitled, or made by
one of the two writers that look at no status: `ChangesEntitled`. It is a
statement about what the caller had *read*: what was overwritten meanwhile is the
subject of `SearchesSurprise`.

**One request per order** (`SerialProofs`). `WorkHasCourier` and `SettledOnce` fail
when two handlers work on one order, as TLC shows with two requests; so no run
claims them. The theorems assume only `[]OnePerOrder`: no two requests in flight
*on the same order*. Other orders, the searches and Xendit run beside. That is what
a lock on the order's row, taken before the read and held to the write, would buy.
The row can then still change between read and write: a search may cancel the
order, and `WorkInv` and `OnceInv` allow exactly this (`Fresh`).

- `WorkersAssigned`: with callbacks and crashes. A payment is the awkward case: a
  late callback moves its order to PICKED_UP from anywhere, which is harmless
  because an order with a payment has been past the stages in which it can be
  rejected (`PastRejection`).
- `OnceSettled`: each kind is booked by one operation (`Booker`), which starts only
  in a status the order has left for good once the kind is booked (`After`).
  Assumes no callback (`"paid" \notin Endpoints`), because a late one puts a
  completed order back to PICKED_UP, and then it is completed again; and
  `~MayFail`, because a completion that dies after its first credit is repeated.
- `SearchesSurprise`: a change is entitled from the status the order *has*, but for
  the callback and where a search has cancelled the order or is about to.
- `CallbacksIdempotent`: the property that the run `callback` refutes holds, so the
  check of the callback is right and only its place is wrong.

**Wallet.** `Grounded` says what each request in flight knows (an approval past
`createPayout` has a payout; a success webhook has a succeeded one; a debit was
covered when it was read). `NeverShort` is not inductive on its own; with
`ShownAsHappened` it is, because every step gives the balance at least what it
gives the ledger (`Return` adds to the balance always and to the ledger only if
the row had not failed).

- `TypeCorrect`, `StatusCorrect`, `NobodyShort`: conjuncts.
- `MispayersWereOvertaken`: the step that makes balance and ledger part is the
  last one of a handler that was overtaken. The argument: a row that is FAILED
  under an unsettled withdrawal shows only when the withdrawal is PROCESSING.
- `OverdraftsWereStale`: a debit that is not covered was covered when it was
  read, so the balance changed in between.
- `WalletImplementsPayouts`: the refinement. Besides `Grounded` it needs `Slots`:
  the slot of a withdrawal that is about to be written is still empty, and two
  requests never share one. Rejections and webhooks map to `Settle` when the row
  is PENDING and to `SettleAgain` otherwise; the lemma `Settles` says so for any
  row, and what `SettlesStep` adds is that balance and ledger part by one amount
  exactly when the row had failed.

**One request per withdrawal** (`LockedProofs`). The same question for withdrawals,
with `[]OnePerWithdrawal`: payments, credits, other withdrawals and Xendit run
beside. Nobody is overtaken then (`Current`), and a withdrawal that is not settled
has a hold that was not given back (`Held`).

- `BalancesExact`: balance and ledger agree to the unit, from the lemma behind
  `MispayersWereOvertaken`. With crashes.
- `PendingDecided`: the property that the run `decisions` refutes holds.
- `NobodyPaidTwice`: what was given back was not paid out and will not be. This one
  assumes that no request dies (`MaxLost = 0`): an approval that dies after
  `createPayout` leaves a live payout under a PENDING withdrawal, which can be
  rejected. A lock alone does not help against that.

**Defaults.** A clear turns all defaults of a table into one request that may
set one, and a set turns such a request into a default, so the number of
defaults plus the number of requests between the two never exceeds the number of
requests (`DefaultsBounded`, inductive together with `TypeOK`). With one call at
a time a user has at most one default; with n calls in flight at most n.

- `TypeCorrect`, `AtMostOnePerRequest`.
- `DefaultsKept`: a table that has a default, or a request about to set one, is
  left without only by the user, by a call that dies, by a payment account that is
  removed while it becomes the default, or by an address that is refused. It
  needs that a request for a payment account has seen the row it names
  (`CallsFit`).

**Accounts.** `IInv` is the type, what a request in flight names (`CallsFit`), what
a courier's token rests on (`StaffInv`), the bound on courier rows, where a code
can be (`SecretInv`: made once, stored in one place, answers in flight rest on a
code that was made, or on none), `Spent`, the bound on acceptances, and what a
deletion leaves (`NothingLeftBehind`; between its statements, the logs cannot come
for a courier row it has deleted: `Unlogged`). The counting
arguments are those of `Defaults`: a create takes one request off those about to
create, and an acceptance one off those about to accept. `TokensBacked` is not
inductive alone: a token is issued for a role that was read earlier, so
`StaffInv` says that roles, rows and tokens agree: the account of a courier row is
a courier, a courier who did not sign up as one has a row, and who holds a
courier's token is a courier still or is gone. No step takes the role away without
the account; a deletion takes the rows with it, and `CouriersService.remove` never
gets past the wallet.

- `TypesKept`, `FewCourierRows`, `TokensBacked`, `CodesSpent`: invariants.
- `DeletionTakesAll`: a row that comes between the statements is in `late`, where
  the last statement finds it; a log or a claim waits for a courier row that is
  being deleted, and finds it gone; an order needs an address that is not.
- `StaleAnswersOnly`, `UntrackedLost`: step by step.

**Only model-checked.** Liveness (`RequestsFinish`, `OrderAnswered`,
`PaymentLands`, `PayoutSettles`), which needs fairness and ENABLED and is beyond
the provers. Every invariant and action property that a passing run checks is a
theorem. `WorkHasCourier` and `SettledOnce` are the other way round: theorems that
no run checks, since they need `OnePerOrder`.

## 4. Findings

Each is a run with `expect: violation` whose property states what a document or
a comment of the repository says.

1. `timeout` - `order_flow_backlog.md:235`: assigned orders are not cancelled by
   the timeout. The auto-cancel does not read the order again.
2. `pickup` - `order_flow_integration_guide.md:28,31`: who owes pays before the
   pick-up. The courier's `pickup` endpoint does not look at it.
3. `callback` - `order_flow_backlog.md:457`: callbacks are idempotent. Two that
   read PENDING both write.
4. `cancel` - `order_flow_backlog.md:267,299`, `order_flow_integration_guide.md:243`:
   a user cancels only before ARRIVED. The list of blocked statuses in
   `cancelOrder` lacks WAITING_PAYMENT.
5. `decisions` - `wallet.service.ts:273,313`: a decision takes a withdrawal from
   PENDING. The status is checked on an earlier read.

Weaker statements that do hold are checked beside them: every change of status is
its caller's to make from what was read (the owner's cancel of an order in
WAITING_PAYMENT counts as the code has it), only overtaken handlers pay wrongly,
and nobody is ever short.

One disagreement has no run of its own: `order_flow_backlog.md:553` lists "Double
payment prevention (idempotency)", and two calls of `payOrder` that both read
WAITING_PAYMENT both debit the owner and both record a PAID payment; so does a
wallet payment beside an invoice that is paid later. The run `settlement` contains
the first: its fares and payments agree there, at two of each. `OnceSettled` says
when it does not happen.

Noticed on the way, where no document says otherwise:

- `CouriersService.remove` answers with an error for every account that has a
  wallet, which is every account.
- Who signs up with the role COURIER gets tokens for endpoints that then
  dereference a missing courier row.
- Deleting a courier who has not recorded a position leaves an order on its way
  without a courier.
- An account without a code is verified by a null answer, whether or not a code was
  ever sent, and a code that is sent meanwhile is cleared.
- Two invoice calls in one millisecond share an external id: the orphan's expiry
  sets the other one's row from PAID to EXPIRED. If the order was refunded, the row
  no longer says what for; if it is cancelled later, the refund is skipped.
- Two wallet payments in one millisecond share theirs: the second is debited and
  its row refused.
- A deletion is refused, and must be repeated, when a row comes between its
  statements.

## 5. Not modelled, and why

- Amounts and rounding (`Math.floor` in `createPayout`, per-kilogram prices):
  data on single lines; `Wallet` has whole amounts and `Orders` the sign of the
  net total.
- Distances and positions: which couriers are near is nondeterministic.
- Token signatures, uploads, mail, push delivery: no state the properties mention.
  Comparing a code with its hash is equality.
- Profiles, pictures, a courier's approval, online status, position and vehicle:
  single writes that no modelled handler reads.
- `terminal_validations`: `deleteUser` empties the table, and nothing in the code
  puts a row into it.
- The points of an order of no weight (`earnedPoints > 0`): a weighing comes to 3
  kg at least.
- `logout`: its route has no guard, so it reads a user that is undefined and
  throws.
- The item rows of a weighing and `getWeighingSummary`: the models have the sign
  of the stored net total, which is what decides. See the plan.
- The owner's cancellation inside `Accounts`: `Orders` has it; there it would only
  end an order, which changes nothing about who can be deleted.
- The order of a timeline: `history` is a set. The code reads it in creation
  order only for display and for the newest WEIGHING row, which is `scale`.
- `getWallet`'s creation of a missing wallet: a user is created with the wallet in
  one transaction, and the unique user id stops a second one.
- The `OrderCancellation` row of `cancelOrder`: written with the status in one
  transaction and read by nobody.
- The connection pool: see the plan.

## 6. Plan

1. `Weighing`: the item rows that overlapping submits leave twice, and the summary
   that adds them up against the stored net total that is charged.
2. `Pool`: transactions nested in transactions on a pool of k connections, with
   Prisma's timeouts; when everybody waits, and that timeouts end it.
3. Composition of `Orders` and `Wallet` on one wallet, so that `PayRefused` and
   `DebitFare` follow from the balance.
4. Documents against code: the auto-cancel writes no `OrderCancellation` row
   (`order_flow_backlog.md:236`).
