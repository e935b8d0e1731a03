# Gramoz: formal models of the shop

Gramoz is an online shop: a NestJS server on PostgreSQL and Redis
(`src/server/src`), a Next.js shop front (`src/web/src`), a payment gateway and a
courier behind HTTP APIs. This directory holds TLA+ models of the parts whose
correctness depends on the order in which concurrent requests, timers, callbacks
and crashes come, the TLC configurations that check them, and proofs that TLAPS
checks. `PROJECT.json` lists components, runs, mutants, findings, hazards and
theorems, and maps every definition to the lines it stands for.

## 1. Inventory

| Component (under `src/server/src` unless noted) | State | Operations | Model |
|---|---|---|---|
| Orders (`modules/orders/orders.service.ts`, `.store.ts`) | orders, order_items, idempotency_keys, stock columns | checkout, cancel, expire, status changes, quote | `Checkout` |
| Order expiry worker (`orders-expiry.processor.ts`) | none of its own | every few minutes: select candidates, expire each | `OrderPayments` |
| Payments (`modules/payments`) | payments, payment columns of orders, the gateway's sessions | initiate, COD, IPN, success/fail/cancel callbacks, refund calls | `OrderPayments`, `Refunds` |
| Refunds (`modules/refunds`) | refunds, restock ledger | request, approve/reject/process, reconcile | `Refunds` |
| Outbox worker (`outbox.processor.ts`) | outbox_events: status, attempts, updated_at | recover, claim, fence, handle, complete, retry, dead-letter | `Outbox` |
| Courier (`modules/courier`) | consignment columns of orders, the courier's shipments | create, inquire, adopt, reconcile by an admin | `CourierDispatch` |
| Cart (`modules/cart`) | cart_items | add, update, remove, clear | in `Checkout`, `CartReminders` and `Storefront` |
| Promo codes (`modules/promos`) | promos.current_uses, is_active | use, give back, toggle | in `Checkout`; the code applied on a page in `Storefront` |
| Loyalty points (`modules/loyalty`) | a ledger of awards with expiry, spends, refunds | spend, refund, award, expire | `Rewards`, `Checkout` |
| Products and their cache (`modules/products`) | products, variants, Redis copies | find through the cache, edit, delete; sales | `Catalogue`; sales in `Checkout` |
| Abandoned cart mails (`cart/abandoned-cart.processor.ts`) | a flag per cart row | scan, claim, queue, roll back | `CartReminders` |
| Reviews (`modules/reviews`) | reviews; the rating is a query | submit, edit, moderate, delete | `Rewards` |
| Authentication (`modules/auth`, `cache/redis.service.ts`) | users, sessions, one-time codes, counters in Redis | register, login, refresh, logout, providers, codes, reset, suspend | `Accounts` |
| Users and their cache (`modules/users`, `auth/guards/roles.guard.ts`) | users, Redis copy, generation, tombstone | find, update, ban, heal | `UserCache` |
| Rate limiting (`common/guards/app-throttler.guard.ts`, `cache/throttler-storage-redis.service.ts`) | counter and block per key | increment, fall back to memory | `RequestLimits` |
| Addresses (`modules/addresses`) | addresses with is_default | create, update, remove, set the default | `AddressBook` |
| Categories, wishlists, settings | rows, the cached list of categories | create, read, update, delete | categories in `Catalogue`; the others are not modelled |
| Notifications, storage, invoices | none | external calls, rendering | not modelled |
| Analytics, health, metrics, configuration | none or process counters | read-only queries, start-up | not modelled |
| Web: cart store and synchronisation (`src/web/src/stores`, `lib/cart-sync.ts`) | a store per tab, broadcast messages, a key per checkout page | change, fetch, announce, receive, check out | `Storefront` |
| Web: session handling (`lib/http-clients.ts`, `proxy.ts`) | cookies, one auth store per tab, one refresh in flight per client | request, refresh, login, logout, guards of pages | `WebSession` |
| Web: pages and components | forms, the state of a page | render, submit | those that race the server: in `Storefront`, `AddressBook`, `Catalogue`, `WebSession` |
| Deployment scripts, migrations | - | operations | not modelled |

**How they interact.** A checkout is one transaction that reads the cart,
quotes, deducts stock, empties the cart, uses the promo, spends points and
inserts the order together with its outbox events. Payments move the order from
`unpaid` to `paid` through callbacks of the gateway that can be late, repeated
or lost. Cancellations (customer, admin, expiry) give everything back and leave
a `REFUND_REQUIRED` event when money was taken; a payment of a cancelled order
leaves `RECONCILIATION_REQUIRED`. The outbox worker turns events into mails,
SMS, refund rows and courier shipments. Admins settle refunds through the
gateway and reconcile shipments whose outcome is unknown. All of this shares
rows of `orders`, and nothing else coordinates the processes. Beside the database,
Redis keeps what may be forgotten: copies of users, products and categories, one
session and the codes of a user, the counters of the request limits. In the browser,
several tabs share the cookies of one session and tell each other that the cart has
changed; what they show is always fetched from the server.

**What is hard.** PostgreSQL runs at READ COMMITTED: what a transaction reads
without a lock can change before it writes. Several handlers read, call an
external service for up to ten seconds and then write. Gateway and courier can
accept a request and lose the answer. Timers fire in every server process.
Clients retry. A login, a refresh and a reset are several Redis commands and
statements each. Answers overtake each other between a server and the tabs, and
tabs do not see each other's requests.

**What makes each part correct.**

- Orders: units, points and promo uses are conserved; one order per key; the
  goods of a cart are ordered once; a cancelled order stays cancelled and its
  money is owed; no deadlock among checkouts.
- Payments: the order and its payments agree; money taken for a cancelled order
  is flagged; a customer can always try again; expiry never cancels a paid order.
- Outbox: a claim is identified by its number of attempts; no side effect runs
  twice at once; a completed event stays so; every event is settled in the end.
- Courier: at most one shipment per order, as far as the courier's answers tell; a
  dispatch in progress is never forgotten; a tracking is never lost; nothing is
  collected twice.
- User cache: no copy older than an invalidated change is served; staleness ends.
- Reviews and points: a purchase is rewarded once; no more points are spent than were
  given; what is published was read by an admin.
- Accounts: a refresh token is rotated once and not after it was revoked; a new
  password ends the sessions before it; guesses at a code are limited.
- Addresses, reminders, catalogue, limits: one default address; a reminder per change
  of the cart at most; edits are shown and sold variants stay; a bounded number of
  requests in any window, and who waits is served.
- Shop front: quiet tabs show the server's cart; one checkout page makes one order;
  a refresh is not denied because of itself, and every call settles.
- Refunds: one call of the gateway per refund; settlement only once the
  money is confirmed or an admin vouches for it; goods come back once; no more is paid
  back than was taken.

## 2. Plan

Order of work, most important behaviour first:

1. `Checkout` with `OrderStatus`, `Units`: done; `CheckoutProofs` and
   `UnitsTheorems` prove all its invariants.
2. `OrderPayments` and `Refunds` with `PaymentsProofs`: done.
3. `Outbox`, its abstract contract `OutboxContract` and `OutboxProofs`: done.
   `CourierDispatch` with `CourierProofs`: done.
4. `Rewards`, whose theorems are in `CheckoutProofs`: done.
5. `Accounts`, the browser's side of it, `WebSession`, and the cached row, `UserCache`,
   with `AccountsProofs`: done.
6. `Catalogue`, `CartReminders`, `AddressBook`, `RequestLimits` with `BackOfficeProofs`:
   done. `Storefront` with `StorefrontProofs`: done.
7. Next, new modules: `ConnectionPool` (checkouts that hold one pooled connection and
   wait for a second), `Pricing` (promo and delivery arithmetic as functions against
   a reference definition).
8. Abstract specifications still to state: `StockLedger` (every unit is on the
   shelf or in one order) implemented by `Checkout`; an order's life as one
   state machine implemented by `OrderPayments`.
9. Every safety invariant of the passing runs is proved. Proofs still to write: the
   refinements of 8.

Composition: `Checkout` and `OrderPayments` share the orders row. Each has the
other's steps on it as short atomic actions (`PaymentSettled` and
`UpdateOrderStatus` in `Checkout`; `CancelOrder` in `OrderPayments`), so that
each is checked against all the actors of the row. `CourierDispatch` relies on
what `Outbox` shows of claims and merges the claim with the fence; `Refunds`
starts where `OrderPayments` ends, with a delivered or a cancelled and paid order.
`WebSession` sees the server as `Accounts` has it, one session rotated by compare and
swap; `Storefront` sees it as a cart row and the orders made from it, and `Catalogue`
has the sales and cancellations of `Checkout` as atomic steps on the stock.

## 3. The modules

### Checkout

Variables `stock`, `cart`, `promo`, `points`, `orders`, `idem`, `outbox` are the
committed tables; `tx[r]` and `cx[c]` are what a checkout or a cancellation in
progress has read and locked. A transaction's writes appear when it commits;
a rollback (error, lost connection, crash, deadlock victim) forgets them.
`CheckoutBegin` takes the user's advisory lock and reads the key and the cart,
`CheckoutQuote` reads promo and points through the pool, outside the
transaction, `CheckoutDeduct` runs the conditional UPDATE of one SKU in the
canonical order, `CheckoutPromo` the conditional UPDATE of the promo and the
deletion of the cart rows, `CheckoutCommit` spends the points and commits.
`CheckoutReplay` is the answer to a repeated key. `CancelBegin`, `CancelLock`,
`CancelRestock`, `CancelCommit` are `cancelOrderInternal` for its three callers.
A row lock is a fact about `tx` and `cx`: a conditional UPDATE waits until no
other transaction holds the row, then sees its committed value, as PostgreSQL
does. Prices and texts are left out; SKUs are numbers because the code sorts them.
`Units` sums units over SKUs and orders with the folds of the community modules.

### OrderPayments

One order, its payment rows and the gateway's sessions. Short transactions that
decide under a lock are one action. Whatever the code reads before a lock is a
step of its own: `StartRead`, `StartClean`, `StartCreate` and `GatewayOpens`/
`GatewayRefuses` are `initiatePayment`; `CodRead`, `CodCreate` are `initiateCod`;
`FallbackRead`, `FallbackFails` a callback without transaction id;
`ExpirySelect`, `ExpireOrder` the expiry worker. A payment ages from recent to
stale (2 min) to old (15 min).

### Outbox, OutboxContract

`row[e]` is the outbox row (with `expired` for an `updated_at` of five minutes
ago), `worker[w]` a tick. `Recover`, `Claim`, `Renew`, `Complete` and `Fail` are
the SQL statements, each atomic as PostgreSQL makes a single statement with row
locks; `Handle` is a call of a handler; `Crash` may come between any two. The
claim's fences (`Owns`, `SameAttempts`, `DeadLetters`) are operators of their own.
`OutboxContract` says what a client of the outbox sees: an accepted event is
performed at most `MAX_ATTEMPTS` times while it is open and ends done or dead.

### CourierDispatch

The consignment of one order: `ReadOrder`, `Inquire`, `ClaimOrder`, `Create`,
`Release`, `WriteTracking`, `QueueSms` are `handleCreateConsignment` with a copy
of the order in `worker[w].seen`; `parcels` is what the courier has. `Inquire` may
answer "not found" of a shipment that exists: the code's comments treat the
courier as eventually consistent. `OpenCase`, `Adopt`, `ClearAndRetry` and
`CancelDispatch` are the admin's reconciliation. An admin clears a dispatch only
when the courier misses no shipment: what the page asks them to verify.

`createConsignment` classifies the courier's answer: timeouts, 408, 5xx and answers
without a code are ambiguous, anything else is a rejection, after which `Release`
takes the sentinel away and a retry ships anew. Its comment counts a 429 among the
requests that "may have been processed before the failure" (`courier.service.ts:117`), its check
leaves it out (line 118). So a rejection may leave a shipment as well (`refused`),
which neither the workers nor an admin who trusts the answer looks for.
`WorkersShipOnce` counts the shipments that were not refused;
`WorkersShipOnceWhateverAnswered` counts them all and is broken (section 4).

### Refunds

The refunds of one order. `RequestRead` and `RequestCreate` are a customer's
request, `EventCreates` the outbox handlers. An admin's `processRefund` is
`Start` (its reads), then `Decide` (approve or reject), or `Claim`,
`CallAccepted`/`CallFails` and `WriteOutcome` (the gateway), or `Settle`.
`reconcileRefund` is `ReconcileRead`, `Inquire` and `SettleConfirmed`;
`GatewayDecides` settles or refuses a transfer later. `transfers` is what the gateway
has; `restocks` and `restored` count goods and points given back. Which statuses
admins ask for is the constant `Statuses`: the admin page offers 'processed' and
'rejected'; the API's DTO allows more.

A request may carry any reference (`gatewayRefundId`): one of the gateway's, of this
refund or another, settled or not, or one the gateway never gave (`ManualRef`).
`processRefund` compares it with nothing: it makes the refund settle at once, also
an online one that was never sent (`refunds.service.ts:244`, `262`). `source` says whether the
reference of a request came from its admin or from an inquiry that confirmed it, `vouched` that
one an admin typed has settled a refund. `SettledOnConfirmation` is about the refunds
settled without; with them, `SettledByGatewayOnly` is broken (section 4).

### UserCache

The Redis copy of one user's row, from which every request is authenticated. `Miss`,
`ReadGeneration`, `ReadRow` and `Fill`/`Skip` are `findById`; `Admits` is the Lua script
that decides whether the copy is stored. `Change` is the committed statement of
`create`, `update` or `delete`, `GuardHeals` the check of `RolesGuard`; both go on with
`Stamp`, `Increment`, `Bury`, `Drop`, the commands of `invalidateUserCache`'s pipeline, or
`Abandon` it. `EvictGeneration` and `EvictTombstone` are Redis under memory pressure
(`docker-compose.yml:42`, volatile-lru). Content is a version number, and all servers
are assumed to read the same clock.

### Rewards

Reviews and points of one customer. `SubmitCheck` is what `submitReview` reads before its
transaction, `SubmitInsert` the transaction with its reward; `Edit`, `Delete` are the
customer's and the admin's, `AdminReads` and `Judge` the moderation, by the id of the
review the admin saw. `rewards`, `spent` and `given` are the rows of the ledger; `Net`,
`Valid` and `Available` are the two queries of a balance and what it makes of them, so
points may expire between `SpendReadNet` and `SpendReadValid`. `lock` is the FOR UPDATE
lock of the customer's row. In the code the checkout's advisory lock separates
two spends as well; this module shows that the points need no more than their own lock.
The sums are `Units`' totals, whose theorems the proofs use.

### Accounts

One account: its row, the session Redis keeps for the user, the codes with their
counters. A request is a record with a `pc`, and an action is one awaited step of it.
`Register`, `CreateAccount` are `register`; `AskForCode`, `SendCode` every endpoint that
sends a code; `SubmitCode`, `CountAttempt`, `DropCode`, `ClearAttempts` and then `Confirm`
or `SetPassword`, `Expel` are `verifyEmail`, `verifyPhoneOtp` and `resetPassword`; `Login`,
`Enter` and `Refresh`, `Rotate` (the Lua script of `rotateSession`) make sessions;
`OAuthLookup`, `OAuthLink`, `OAuthJoin` are `validateOAuthUser`. `Abandon` is a request that
fails between two steps. Passwords are versions, tokens and codes are numbers in the
order they are issued; `parent`, `since`, `tries`, `revoked`, `settled` and `late` are history.

### WebSession

A browser: `access` and `refresh` are its cookies, `stored` the persisted user, `tab[t]` a
page with its auth store, `call[c]` a call through one `HttpClient`, `busy[h]` its
`isRefreshing`. `Call`, `Answer`, `Recover`, `Rotate`, `Renewed`, `Denied`, `CallFails`,
`RefreshFails` are `HttpClient.request` and its refresh: the server rotates in
`Rotate` and the browser learns it in `Renewed`, between which any other tab may act. `Open`
is the proxy, `GuardDashboard` and `VerifyAdmin` the layouts, `Hydrate` the store read from
localStorage. `SessionEnds` is whatever ends a session on the server.

### Storefront

The tabs of one customer. `thread[t][k]` is a handler of the store or of a page, run
between two awaits at a time: `Ask` is a change of the cart, answered by `Succeed`, `Cleared`
or `Fail`; `Load`, `Focus`, `GetCart`, `GotCart`, `LoseCart` a fetch with the number that says
whether its answer is still wanted (`current`); `Receive` a message of another tab.
`OpenCheckout`, `EditForm`, `Submit`, `PlaceOrder`, `Ordered`, `OrderFails`, `Pay` are the checkout
page with its idempotency key. `misled` marks the tabs whose own fetch failed or whose
answer was lost, which no store can see.

### Catalogue, CartReminders, AddressBook, RequestLimits

`Catalogue`: `Get`, `ReadRow`, `ReadVariants`, `Set` are a read through the cache, by a page of the
shop or by the form of an admin; `Save`, `SaveVariants`, `SaveFails`, `SaveSwallowed`, `Delete`,
`EditCategories`, `ReviewsChange` the edits, followed by `Invalidate`; `Buy`, `BuyVariant`,
`CancelSale` the sales, which change the stock while a form with the old stock is open.

`EditsAreShown` is about the edits that invalidate an entry: those of a product, its variants
and its reviews, and those of the list of categories. It excuses an entry whose DEL
failed, which is only logged, and one that a read wrote after the DEL with rows from before
the edit; the tests say the second does not happen (`NextReadIsNew`). It says nothing of
the stock in the entry, which sales change without a DEL, nor of the category's name in
it: `EditCategories` changes that name (`product.category`) and deletes `categories:all`
only, so that the product's entry keeps the old one until it expires
(`CategoryIsShown`). Both are broken (section 4).

`CartReminders`: `Scan`, `Claim`, `Notify` or `Abort` are one customer of the hourly job;
`AddItem`, `UpdateItem`, `RemoveItem`, `ClearCart` the customer; `HoursPass` makes the rows idle. The
rows claimed by a job are locked until it commits.

`AddressBook`: a request is a transaction: `Begin`, `UnsetStart` and `Unset` (the UPDATE that takes
the default from the others, which waits for rows that are locked), `Check`, `Write`, `Delete`,
`ChooseHeir`, `Commit` or `Rollback`. An UPDATE without a lock reads the rows committed when it
starts, as READ COMMITTED does.

`RequestLimits`: `Increment` is the Lua script on the counter of an address and then of the account
that the request names, `Fallback` what the guard does when Redis fails, `Tick` a
millisecond of every time to live.

### MC modules

They give the constants small values and define symmetry sets, constraints and views. Components
that share no state are checked by one run where each is small: `MCPoints` is `Rewards` or
`Checkout` with one customer, `MCPayments` is `OrderPayments` or `Refunds`, `MCAccounts` is
`Accounts`, `WebSession` or `UserCache`, `MCBackOffice` is `AddressBook`, `CartReminders`,
`Catalogue` or `RequestLimits`. Where one of them is EXTENDed (`Checkout`, `OrderPayments`,
`Accounts`) the others are instances. The variable `part`, chosen by the initial state, says
which one a behaviour is of; the variables of the others keep their initial values. One
symmetric set of values then serves all of them. That a behaviour of such a run is one of each
component is a theorem (`RunIsOfBoth`, `RunIsOfThree`, `RunIsOfAll`), so that the theorems about
a component are about what the run checks.

Symmetry is used for interchangeable requests, ticks, tabs and admins, and never where
liveness is checked. A VIEW drops only data that no guard and no property checked under it
reads: the outbox of `Checkout` (`Goods`), what the courier was told of a shipment (`Dispatch`),
the balance a spend was checked against (`Visible` in `MCPoints`), the units of orders and discounts
and the messages that have come (`Visible` in `MCStorefront`), the save that was answered
falsely (`Visible` in `MCBackOffice`). The constraints are: `Explored`
in `MCCheckout`, two cancellations at once only while no checkout is in progress; `InTurn` in
`MCPayments`, two admins work on a resubmission in turn once the first refund was settled
on the word of an admin; `OneCase` in
`MCCourierDispatch`, reconciliation with one event, two events without it; `TwoCodes` in
`MCAccounts`; `Explored` in `MCBackOffice`, addresses up to the first overlap with an insertion or a
removal, one entry of the cache at a time, and edits of categories beside a product's entry
while it has no variants and nothing is sold.

## 4. The runs

Passing runs (the mutants in `PROJECT.json` show that each property can fail):

| Run | Instance | Shows |
|---|---|---|
| `checkout_contention` | 2 customers, each with one SKU in the cart and another to add, one unit of each, 1 promo use, 2 cancellations | stock and promo uses are conserved, locks protect what was verified, checkouts never wait in a circle, no cart is ordered twice |
| `points` | 2 purchases, 2 submissions, 1 admin, 2 orders that spend points that expire; or 1 customer, 2 checkouts with and without one key, 2 payloads, 1 cancellation, every admin status | one reward per purchase, no more spent than given; points are conserved, one order per key, replays agree, money of cancelled orders is owed |
| `payments` | 2 initiations, 2 payment rows, online and COD, every callback late or repeated, expiry, refund; or 2 admins who process and reject, with references of any origin, 2 refunds, 2 transfers | the order and its payments agree, money of cancelled orders is flagged, a retry is always possible, paid orders do not expire; one call per refund, settlement on confirmation or an admin's word, goods back once per refund |
| `outbox` | 2 overlapping ticks, 2 events, 2 attempts, 1 crash | handlers are exclusive, the contract is implemented, and every accepted event is settled in the end |
| `courier` | 2 events of one order, 2 workers whose handlers may outlive their lease, 2 attempts, 2 admins | workers ship once until an admin resolves the event (shipments behind a rejection left out), a dispatch in progress is always watched, a link to a shipment is never lost |
| `user_cache` | 1 read, 2 overlapping changes, any Redis command may fail | an outdated copy is not served for ever |
| `accounts` | 2 overlapping requests of every kind, 2 kinds of codes, 1 provider, 2 passwords; or the browser of `web_session`; or the copy of `user_cache` | a token is rotated once and not after it was revoked, a reset ends earlier sessions, guesses are limited; a refresh is denied for a reason of its own only; no outdated copy unless tombstones came in the wrong order or keys were dropped |
| `web_session` | 3 calls (one an upload) of 2 clients in 2 tabs, 2 tokens, 2 expiries | every call settles |
| `storefront` | 2 tabs with 2 handlers each, 2 units, 3 requests, 2 messages, 2 keys | quiet tabs show the cart of the server; a checkout page makes one order |
| `back_office` | 3 addresses and 2 pages; 2 products and 2 instances of the job; 1 product or the categories and 2 clients; 2 clients, a window of 2 ticks | one default address; a reminder per change at most; edits that invalidate an entry are shown, sold variants stay; a window lets a bounded number through, and who waits is served |

Violation runs: each states what a document, comment or test says and the code
does not do; the quoted line is in the finding.

| Run | What happens |
|---|---|
| `checkout_cart_race` | a unit added to a cart row during its checkout is deleted, though not ordered |
| `payments_demotion` | cleaning up a stale payment races its success: a paid order becomes unpaid |

**Further disagreements.** TLC finds each property below violated when it replaces the
properties of the module's configuration, with SYMMETRY, VIEW and CONSTRAINT left out (a
view may hide what the property reads). They are properties of what the documentation
or a comment says, and no run of the project claims them.

| Module | Property | What happens |
|---|---|---|
| `MCPayments` | `ExpiryExcludesCod` | the row locks of the expiry query end with it (`orders.service.ts:625`): a COD payment made next is cancelled; `orders-expiry.processor.ts:15` "EXCLUDES Cash On Delivery (COD) orders" |
| `MCPayments` with `MaxPayments = 3`, `Methods = {"online"}`, `AdminStatuses = {}` | `OneActivePayment` | a delayed clean-up (`payments.service.ts:245`) sets the order to unpaid after a newer payment was created: two pending payments; GRAMOZ-12 test matrix, line 105, "must be strictly prevented" |
| `MCPayments` | `RefundedIsTerminal` | a success notification repeated after the refund (`payments.service.ts:604`) sets the order to paid; TASK-18 report, line 182, "(Terminal)" |
| `MCPayments` | `NoPaymentForCancelled` | `initiateCod` looks only at the payment status under its lock (`payments.service.ts:170`): a payment for a cancelled order; line 157, "Cannot initiate payment for a cancelled order" |
| `MCPayments` | `RefundNamesAPaidPayment` | the refund of a cancelled order names its latest payment, not the one that was paid (`outbox.processor.ts:591`) |
| `MCPayments` with `Statuses = {"approved", "processed", "rejected"}` | `OneInitiation` | an approval takes a claimed refund back to approved (`refunds.service.ts:209`): a second call of the gateway (the admin page does not offer approvals, the API does) |
| `MCPayments` | `ProcessedIsFinal` | a reconciliation writes its status over a settled refund (`refunds.service.ts:626`) |
| `MCPayments` | `PaidBackAtMostOnce` | an accepted refund without a reference is recorded as rejected (`payments.service.ts:1015`): a second one is paid; GRAMOZ-12 test matrix, line 146, "Cumulative refund amount cannot exceed captured funds" |
| `MCPayments` | `RestockedAtMostOnce` | a rejected refund is reopened by a reconciliation and settles, and its successor too (`refunds.service.ts:430`): goods are put back twice |
| `MCPayments` with `Statuses` of all four | `SettledOnConfirmation` | the status 'processing' of the API (`refunds.service.ts:262`) settles a refund nobody has sent |
| `MCPayments` | `SettledByGatewayOnly` | an admin types a reference, which nothing verifies (`refunds.service.ts:244`, `262`, `397-401`): the refund of an online payment settles without a transfer; GRAMOZ-08 tracker, line 1405, "Final settlement occurs exclusively" when the gateway answers 'refunded' |
| `MCCourierDispatch` | `PaidIsNotCollected` | the amount to collect is computed from the copy read at the start (`outbox.processor.ts:276`): a payment during the dispatch is collected again at the door; lines 396-397, "if customer already paid online (paymentStatus === 'paid'), COD amountToCollect must be 0" |
| `MCCourierDispatch` | `NoDispatchOfCancelled` | the check uses the copy read at the start (`outbox.processor.ts:284`): an order cancelled since is shipped; line 283, "Prevent dispatch if order was cancelled or refunded" |
| `MCCourierDispatch` | `AtMostOneParcel` | two admins clear the same event (`courier.service.ts:680`): a second shipment; GRAMOZ-10 test matrix, line 277, "duplicate dispatches prevented; row locks enforce single resolution winner" |
| `MCCourierDispatch` | `WorkersShipOnceWhateverAnswered` | a 429 counts as a rejection (`courier.service.ts:118`, `171-176`): the sentinel is released though the courier may have made the shipment, and a retry whose inquiry does not find it yet makes another; line 117, "5xx / 408 / 429: the request may have been processed before the failure" |
| `MCCourierDispatch` | `ShippedSmsIsQueued` | tracking and SMS event are two statements (`outbox.processor.ts:448`): a crash between them loses the SMS; lines 29-31, "side effects are never lost" |
| `MCUserCache` | `CurrentDespiteEviction` | a generation dropped by Redis is counted anew and equals the one an old read holds (`users.store.ts:26`): its outdated copy is stored; GRAMOZ-12 test matrix, line 59, "Evicted key must not allow racing cache populate to bypass check and store stale data" |
| `MCUserCache` | `CurrentDespiteDelay` | two invalidations of a user without a generation write their tombstones in the wrong order (`users.store.ts:223`): a read between them is let in; line 56, "Invalidation races prevented" |
| `MCPoints` | `SpendIsADeduction` | points that expired unspent still count in the sum of all rows (`loyalty.store.ts:58`): after a spend of valid points the balance falls by less than the spend; `loyalty.service.ts:97`, "they are an immediate deduction" |
| `MCPoints` | `ApprovedWasRead` | a status is set by id alone (`reviews.store.ts:119`): an edit between the admin's reading and approval is published; GRAMOZ-08 tracker, line 1435, "Any customer edit automatically resets review status to 'pending' (re-moderation requirement)" |
| `MCAccounts` | `CeilingIsStrict` | a request that read the code before it was invalidated is counted anew once another has cleared the counter (`auth.service.ts:163`): more guesses are compared than the ceiling allows; `auth.concurrency.spec.ts:556`, "atomically enforces 5-attempt ceiling" |
| `MCAccounts` | `ResetForcesLogin` | a login that checked the old password stores its session after the reset deleted the old one (`auth.service.ts:377`); line 372, "Delete session (force re-login)" |
| `MCAccounts` | `NewCodeIsAccepted` | a new code does not reset the counter of the one before (`auth.service.ts:163`): entered correctly it is refused; line 178, "please request a new code" |
| `MCWebSession` | `SignedOutWhenOver` | a refresh denied because another tab rotated the token signs the customer out (`http-clients.ts:87`); same line, "Only redirect on actual auth failure" |
| `MCWebSession` | `LogoutIsFinal` | the answer of a refresh that a logout overtook puts the cookies back; `auth-store.ts:66`, "tell the server to clear the httpOnly cookies" |
| `MCStorefront` | `MessagesBringTheCart` | the answer of a fetch is shown though the cart changed since it was read; `cart-sync.ts:7-9`, "tabs always fetch authoritative state directly from PostgreSQL" |
| `MCStorefront` | `DiscountIsCurrent` | the discount is the one of the subtotal at the time the code was applied: a later change of the cart keeps it |
| `MCBackOffice` | `NeverOversold` | the form writes the stock it was filled with over the sales since (`products.service.ts:318`); GRAMOZ-02 review, line 147, "Zero chance of overselling even under heavy concurrency" |
| `MCBackOffice` | `AnsweredIsSaved` | an error of inserting the variants, such as a SKU too long, is swallowed inside the transaction (`products.service.ts:370-372`), which PostgreSQL then rolls back (an error of deleting them, lines 339-341, is answered as one); `products.controller.ts:255`, "Product updated successfully" |
| `MCBackOffice` | `NextReadIsNew` | a read that began before an update writes the old rows after the update's DEL (`products.service.ts:290-300`): later reads are given them; `products-cache-concurrency.spec.ts:199`, "Next read after update settles MUST return the new authoritative price" |
| `MCBackOffice` | `CategoryIsShown` | a category is renamed (`categories.service.ts:116-127`): only `categories:all` is deleted, the entries of its products keep the old name (`products.service.ts:264`, `271-274`) |
| `MCBackOffice` | `CartIsBuyable` | saving a product gives its variants new ids: the cart refers to one that is gone |
| `MCBackOffice` | `OnlyIdleReminded` | the claim looks at the flag only (`abandoned-cart.processor.ts:88`): a cart used since the scan is reminded; lines 39-40 define an idle cart |
| `MCBackOffice` | `WaitedOutIsServed` | requests during a block fill the next window: who waited as told is refused once more; `app-throttler.guard.ts:131`, "Please try again in N seconds" |
| `MCBackOffice` without `~mixed` in `Explored` | `OneDefault` | two addresses are inserted as default at once: neither sees the other; `addresses.service.ts:20`, "If setting as default, unset others first" |
| `MCBackOffice` without `~mixed` in `Explored` | `SomeDefault` | the default is deleted while its heir is, or a first address inserted: none is left; `addresses.service.ts:25` |

**Bounds.** Two of everything that competes: every property relates at most two
requests, ticks, tabs or admins on one row, and the hazards listed need two actors and
one interruption. `MaxPayments`, `MaxRefunds`, `MaxTransfers`, `MaxParcels`
bound rows that only grow; the runs reach the bound and the actions that need one
more row simply stop. `MaxAdded` bounds what is put in a cart, `MaxCrashes` the
crashes of outbox ticks (one, since each only leaves a row in processing),
`AdminStatuses` the statuses an admin sets. In `user_cache` and `accounts` two
milliseconds (`MaxClock`) tell before from after, and two changes (`MaxVersion`) an outdated
copy from a current one; `MaxGen` bounds the invalidations counted. In
`points` three reviews or revisions (`MaxSerial`) let one purchase be reviewed again while
the other is reviewed, and each order spends one point (`MaxSpend`); the theorems about
`Rewards` hold for any bounds. `MAX_ATTEMPTS` of the outbox is 3 in the
code; `outbox` and `courier` use 2, which still has a first claim, a
retry and an exhausted event (the theorems about `Outbox` hold for every value). In
`accounts` a code allows one guess instead of five, so that the counter is met; three tokens
or codes in all (`MaxIssued`) and two passwords let a session, its rotation and a reset
overlap; the theorems hold for any bounds. In `web_session` and `accounts` a third token would only
repeat the rotation of the second; in `storefront` three requests let two changes and a
checkout, or a change of one tab during two of the other, overlap. In
`back_office` one edit (`MaxEdits`) tells an old copy from a new one, three changes of
the cart are one more than the instances, and a window of two ticks has a
request at its start, in it and at its end; the limits of 3 and 2 requests are below the code's.
Runs with `CHECK_DEADLOCK FALSE` are those in which the system may really stop:
all orders are placed and cancelled, every event is settled, or a bound is reached.

**Fairness.** `UserCache` assumes that a read that has begun ends (each Redis
command times out after 3 s, each statement returns or fails) and that Redis keeps to the
60 s of the copy; not that an invalidation succeeds. `Outbox` assumes: the timer fires for ever, a tick that
does not crash goes on (each statement and each HTTP call returns or fails), and
time passes for a lease. `WebSession` assumes that a request of a browser is answered or
fails, and that the page handles what comes; not that a refresh succeeds, nor anything
of what the customer does. Nothing obliges a handler to succeed, an admin to act, a
customer to pay or a process to survive, so no other liveness is claimed.

## 5. The proofs

All theorems are for every value of the constants that satisfies the module's
assumption. `LEMMA`s are steps; the theorems are in `PROJECT.json`.

`CheckoutProofs` (from `CheckoutAssumption`): the inductive invariant is
`TypeOK /\ LocksProtect`. Type correctness alone is not inductive: that a
stock stays a natural number after a commit depends on what the transaction
verified when it took the row lock, and that nobody else could change the row
since; `LocksProtect` says exactly that. `TypeCorrect` and `LocksAreSufficient`
follow. `StockIsConserved` follows from it and from `UnitsTheorems`, which shows
how the sums of units change when one order or one SKU does, and so does
`PointsAreConserved`. The other invariants are proved relative to that one, each with
what it lacks to be inductive:

- `CancelledMoneyComesBack`: `MoneyFlagged` counts the events also of orders that are not
  cancelled or not paid (none).
- `PromoUsesAreCounted`: `PromoHeld` says that the use a checkout found free is still free
  while it holds the row of the promo.
- `KeysNameOneOrder`, `AnswersAgree`: `KeysKnown` says that a user has one checkout in progress,
  whose key is still unused, and that a stored key names the order and the answers.
- `NothingIsOrderedTwice`: `CartsCovered` counts what the open checkout has read of the cart with
  what was ordered.
- `CheckoutsNeverDeadlock`: `LockedInOrder` says that the rows a checkout holds come before those
  it still needs. Among finitely many waiting requests the one that holds the greatest row
  then waits for nobody in the set, so this theorem assumes that `Reqs` is finite.

Its second part is about `Rewards` (from `PointsAssumption`), which the run `points` checks beside
`Checkout`. `RewardsAreUnique` is inductive with the types (`Rows`). `PointsAreCovered` needs to
know that a spend that has passed its check is still covered when it commits:
`ReadSumHolds` says that the sum it read is at most the current one, which holds because
whoever else could lower the sum is a spend and would need the lock (`SpendsExclude`).
`NetInsert`, `NetExpire`, `NetSpend`, `NetGiveBack` say what each kind of row does to the sum,
from the lemmas of `UnitsTheorems`.

`PaymentsProofs`, first part (from `OrderPaymentsAssumption`): every step that looks for the
latest payment needs to know that there is one, so `Inv` has that payments are numbered without a
gap (`Numbered`) and that whatever names a payment names an existing one (`NamesRows`).
`PaidOnline` says that only online payments are completed, so that no fallback of a
cash payment undoes one; `LatestIsPending` is `InitiatedIsRetryable` in terms of the row
numbers, and the library's well-founded minimum gives the latest pending one.
`PaidIsBacked`, `CancelledMoneyIsFlagged`, `CustomersCanRetry` and `ExpirySparesPaidOrders`
follow.

Second part, `Refunds` (for admins that only process and reject, `Usual`; with the other
statuses of the API two of the properties fail, see above): a refund that was claimed is
never unclaimed, so that whoever calls the gateway is the only one to have claimed that
refund (`RefundsClaimed`, over transfers that are numbered in turn, `TransfersNumbered`), which
is `OneInitiationHolds`. `Confirmations` follows a reference from the gateway's answer through
the request to the settlement and shows `PaidBackOnConfirmation`: a settled online refund
either was confirmed or has a reference that an admin typed. `GoodsComeBackOnce` is
inductive with the types.

`OutboxProofs` (from `OutboxAssumption`): the invariant `Inv` adds to the types
that a tick has a claim exactly while it is at work (`WellFormed`), that held
claims are distinct, never ahead of the row and never current for a completed
row (`ClaimsKnown`), and, for handlers that end within their lease, that a running
handler's row is its own and that no claim was handled twice (`Leased`). The
key is that only the claim statement raises `attempts`: two ticks that hold the
same event therefore hold different numbers, so at most one of them passes the
fences. `ClaimsAreDistinct` and `CompletionIsFinal` need no assumption on
handlers; `HandlersAreExclusive` and `Implementation` (every step is a step of
`OutboxContract` or a stutter) assume `~SlowHandlers`.

`CourierProofs` (from `CourierAssumption`): `WorkersShipOneParcel` and `SentinelStaysWatched` speak of a
dispatch that no admin has resolved, and `DispatchInv` has what is needed while that is so. For the
first: only the handler that set the sentinel may ask the courier for a shipment, the sentinel
stays where there is a shipment that was not refused, and a handler that has seen it and found no shipment claims it
only in its first attempt, in vain (`Heed`, `Dispatched`). No lease is needed for it. For
the second: within their leases a handler is the only one of its event (`Leased`), and a sentinel is
kept by an event all of whose handlers either set it or retry having seen it, none of which
completes the event before the sentinel is replaced (`Keeper`, `Kept`). `LinksAreKept` is about
every step, the admins' too, and needs that who writes a tracking has a shipment (`Found`).

`AccountsProofs` (from `AccountsAssumption` and `WebAndCacheAssumption`): none of the properties is inductive. For
`TokensAreRotatedOnce`, `SessionIsFresh` says that the current session is neither revoked nor already
the parent of another token, which every way to make or end a session preserves because
a rotation compares and swaps. For `PasswordsEndSessions`, `PasswordsOK` and `HistoryOK` say that
no password is settled before the row has it, that a token's user was identified by a
password of the row, and `NobodyYet` that before there is an account no request can
set a password or store a session. `AttemptsAreBounded` counts: while a code is the one Redis keeps,
its attempts are those its counter shows and a full round for each request that could still
have reset the counter, of which there are at most all but one (`Rounds`, over the numbers of requests
about to reset the counter and about to compare); when it is kept no longer, each request
that has read it tries once more. So the bound is a round and one attempt for every request at
once, not the ceiling alone (`CeilingIsStrict` fails, see above). `AccountTypesCorrect` needs that a
request has what its next step uses: a kind of code, a provider, an issued code or token (`Apt`).

Of the other two components of that run, `CopiesAreCurrent` is about `UserCache`:
`CurrentWithoutMishap` is not inductive, since nothing in it speaks of reads that will store a
copy later. `CacheInv` adds that a read whose copy would be admitted has seen every settled
change, and that an invalidation in progress either shuts a read out (`ShutOut`) or was
preceded by the change the read has seen (`ReadsCovered`); it rests on generations and times only
growing, which is what the two excluded mishaps break. `DenialsHaveAReason` is about `WebSession`,
for any assignment of calls to clients and of clients to tabs. `WebInv` says that the one call
of a client that refreshes is the one that set `isRefreshing` (`Locked`), that a token on its
way to the browser is known to its call only (`GrantsUnused`), and that while the cookie is a token
the client has rotated, the next one is on its way to that client or was lost
(`CookieSuperseded`). So a refresh that begins, with the cookie of then and with no other under way,
has a token its client never rotated, unless an answer was lost (`RefreshesExcused`). Without the
lock two calls of a client send the same cookie and the second is denied by the first, which is
the mutant `Recover_Unlocked`.

`StorefrontProofs` (from `StorefrontAssumption`): `QuietTabsAgree` speaks of tabs where nothing is in
progress, and the invariant says for all the others why they will come to show the cart:
a fetch whose answer is wanted will bring it or is yet to read it (`Fresh`), a
message is on its way to the tab (`Pending`), one of its own handlers awaits the answer to a change, after
which it fetches (`Awaits`), or one of another tab has a change to announce (`Speaks`), unless the tab was
misled (`Covered`). It needs that one fetch of a tab at most is wanted (`RowOK`), which is what the
sequence number of the store is for. `OneOrderPerPage` needs that an order carries the key of the page
that submitted it, and that the order made under a key names that page (`Named`).

`BackOfficeProofs` (from the assumptions of `MCBackOffice`) has a part for each component:

- `DefaultsAreUnique`: while no insertion or removal overlaps another request, a request that
  sets a default has matched, and then unset, every saved row (`MatchesAll`), and a row inherits
  the mark only from one that had it (`Inherits`); `BookInv`.
- `RemindersAreUnique`: a single claim at a time holds rows (`Claims`), and an event, that claim and
  rows that are due are each paid for by a change of their own (`Paid`); `RemindInv`.
- `EditsComeThrough`, `OrderedVariantsStay`: an entry of the cache that is not current is excused or its
  DEL is coming (`Shown`); an ordered variant is the one in the row, and stock and
  orders balance (`Balanced`), so that no edit can replace it; `ShelfInv`.
- `LimitsBoundAnyWindow`, `PatienceIsServed`: what a limit accepted since the key was made and what it
  accepted before are a limit's worth each, and nothing passes once a block began
  (`Window`); who was refused after waiting meets a block that outlasts the hits (`Patient`);
  `LimitInv`. The window may be of any length, and any number of addresses ask. The sums
  over parts of a window are the totals of `UnitsTheorems`.

`UnitsTheorems` has the lemmas about sums that these proofs need: of a set with one more
member (`TotalInsert`), of two disjoint sets (`TotalUnion`), of a subset (`TotalSubset`), of
nothing but zeros (`TotalNone`), and under a bijection (`TotalRenamed`).

**Assumed, not shown.** `SlowHandlers = FALSE` stands for handlers aborted by a
timeout before five minutes pass: true of the courier's and the SMS client's
calls (ten seconds), not of the mail client, which has none. The gateway and the
courier do what their documentation in the code says.

**Model-checked only.** Every safety invariant of the passing runs is a theorem. Liveness
(`EventuallySettled`, `StalenessEnds`, `CallsSettle`) stays with TLC: together with ENABLED it is out
of the prover's reach, as are inductions over recursively defined data; no module here
declares a RECURSIVE operator. `TypeOK` is proved for every module that has one
(`Checkout`, `OrderPayments`, `Outbox`, `Refunds`, `UserCache`, `WebSession`, `Rewards`, `CourierDispatch`,
`Accounts`); the proofs about the other modules have the types they need among the
parts of their invariants.

## 6. Not modelled

Signatures, amounts and currencies of gateway notifications ("validated" is a
guard); prices, the amounts and dates of promos and delivery charges; texts of mails and SMS;
tracking; search and analytics; rendering. Wishlists and settings are reads and writes of
single rows. Notifications, storage and invoices are calls of external services
without state; configuration, health, metrics, deployment and migrations are start-up
code and operations.

The pool of database connections is not state: a checkout that needs a second
connection while it holds one (`orders.service.ts:206`) can wait for others that do the
same, for as long as the pool's timeout; the plan gives it a module. Restocking a
cancellation locks SKUs in the order of an unordered SELECT and can deadlock
with a checkout (`orders.store.ts:626`); PostgreSQL then rolls one back, which is the rollback
action. An SMS event of type cancelled has no branch in its handler
(`outbox.processor.ts:533`) and ends dead-lettered, which `Outbox` has as a handler that fails.
