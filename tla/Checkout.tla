------------------------------ MODULE Checkout ------------------------------
(***************************************************************************)
(* Checkout and cancellation: OrdersService.createOrderFromCart,           *)
(* cancelOrderInternal (customer, admin and expiry callers) and            *)
(* updateOrderStatus, as concurrent PostgreSQL transactions at READ        *)
(* COMMITTED.                                                              *)
(*                                                                         *)
(* The variables other than `tx' and `cx' are the committed contents of    *)
(* the tables.  tx[r] and cx[c] are the private state of the transactions  *)
(* in progress: what they have read, and the rows whose locks they hold    *)
(* since their own UPDATE.  A transaction's writes become visible when it  *)
(* commits; a rollback (an error, a lost connection, a crashed process, a  *)
(* deadlock victim) only forgets its private state.                        *)
(*                                                                         *)
(* Prices, addresses and e-mail texts are abstracted away.  A SKU is a row *)
(* of products or of product_variants; SKUs are natural numbers so that    *)
(* the canonical lock order of the code is their order.                    *)
(***************************************************************************)
EXTENDS Integers, FiniteSets, OrderStatus, Units

CONSTANTS
  Users,        \* customers
  PhoneUsers,   \* the customers whose profile has a phone number
  Skus,         \* stock-keeping rows, ordered as the sort of the code orders them
  OrderIds,     \* identifiers of orders: the bound on the orders placed
  Keys,         \* idempotency keys
  Null,         \* SQL NULL: no user, no order, no key, no hash
  Hashes,       \* hashes of normalised request payloads
  Reqs,         \* checkout requests that may be in progress together
  Cancels,      \* cancellations that may be in progress together
  InitStock,    \* the stock before the first order
  InitCart,     \* what each user has in the cart at the start
  InitPoints,   \* the loyalty points of each user before the first order
  MaxUses,      \* promos.max_uses of the one promo code
  MaxAdded,     \* bound: units of one SKU a user ever puts in the cart
  AdminStatuses \* bound: the statuses an admin sets (all, or a few of them)

ASSUME CheckoutAssumption ==
  /\ Skus \subseteq Nat
  /\ PhoneUsers \subseteq Users
  /\ IsFiniteSet(OrderIds)
  /\ Null \notin Users \cup OrderIds \cup Keys \cup Hashes
  /\ Reqs \cap Cancels = {}
  /\ InitStock \in [Skus -> Nat]
  /\ InitCart \in [Users -> [Skus -> Nat]]
  /\ InitPoints \in [Users -> Nat]
  /\ MaxUses \in Nat
  /\ MaxAdded \in Nat
  /\ AdminStatuses \subseteq OrderStatuses

VARIABLES
  stock,    \* [Skus -> Nat]: products.stock / product_variants.stock
  cart,     \* cart[u][s]: quantity of the cart_items row, 0 when there is none
  promo,    \* the promos row: currentUses and isActive
  points,   \* points[u]: the loyalty balance
  orders,   \* orders[o]: the orders row, its items and its points
  idem,     \* idem[u][k]: the idempotency_keys row
  outbox,   \* outbox[o][t]: outbox_events rows of type t written for order o
  tx,       \* tx[r]: checkout transaction of request r
  cx,       \* cx[c]: cancellation transaction c
  added,    \* history: added[u][s], units of s that u ever put in the cart
  served    \* history: the successful responses to requests with a key

tables == <<stock, cart, promo, points, orders, idem, outbox>>
history == <<added, served>>
vars == <<tables, tx, cx, history>>

-----------------------------------------------------------------------------
(* Rows *)

EventTypes == {"SEND_ORDER_CONFIRMATION", "SEND_LOW_STOCK_ALERT",
               "CREATE_CONSIGNMENT", "SMS_DELIVERED", "SMS_CANCELLED",
               "REFUND_REQUIRED", "RECONCILIATION_REQUIRED"}

NoItems == [s \in Skus |-> 0]

\* A slot of the orders table that has not been inserted yet.
EmptyRow == [status |-> "none", payment |-> "unpaid", user |-> Null,
             items |-> NoItems, promo |-> FALSE, spent |-> 0, key |-> Null]

OrderRows ==
  [status : OrderStatuses \cup {"none"}, payment : {"unpaid", "paid"},
   user : Users \cup {Null}, items : [Skus -> Nat], promo : BOOLEAN,
   spent : Nat, key : Keys \cup {Null}]

NoIdem == [order |-> Null, hash |-> Null]
IdemRows == {NoIdem} \cup [order : OrderIds, hash : Hashes]

\* A request that has no transaction open.
IdleTx == [pc |-> "idle", user |-> Null, key |-> Null, hash |-> Null,
           promo |-> FALSE, items |-> NoItems, rows |-> {}, spend |-> 0,
           held |-> {}]

TxStates ==
  [pc : {"idle", "quote", "deduct", "finish"}, user : Users \cup {Null},
   key : Keys \cup {Null}, hash : Hashes \cup {Null}, promo : BOOLEAN,
   items : [Skus -> Nat], rows : SUBSET Skus, spend : Nat,
   held : SUBSET Skus]

IdleCx == [pc |-> "idle", order |-> Null, expiry |-> FALSE, held |-> {}]

CxStates ==
  [pc : {"idle", "begun", "restock"}, order : OrderIds \cup {Null},
   expiry : BOOLEAN, held : SUBSET Skus]

Exists(o) == orders[o].status # "none"

\* Orders that still hold the goods, the promo use and the points they took.
Live(o) == orders[o].status \notin {"none", "cancelled"}

Needed(items) == {s \in Skus : items[s] > 0}

\* The row lock of SKU s is held by no open transaction.
Free(s) == /\ \A r \in Reqs : s \notin tx[r].held
           /\ \A c \in Cancels : s \notin cx[c].held

\* incrementPromoUsage holds the promo row from "finish" to the commit; a
\* cancellation takes it in its last step.
PromoFree == \A r \in Reqs : ~(tx[r].pc = "finish" /\ tx[r].promo)

\* The order row is locked (SELECT ... FOR UPDATE) by a cancellation.
OrderFree_None(o) == TRUE
OrderFree(o) == \A c \in Cancels : ~(cx[c].pc = "restock" /\ cx[c].order = o)

\* A DELETE of this cart row is waiting for its transaction to commit.
CartRowFree(u, s) ==
  \A r \in Reqs : ~(tx[r].pc = "finish" /\ tx[r].user = u /\ s \in tx[r].rows)

Init ==
  /\ stock = InitStock
  /\ cart = InitCart
  /\ promo = [uses |-> 0, active |-> TRUE]
  /\ points = InitPoints
  /\ orders = [o \in OrderIds |-> EmptyRow]
  /\ idem = [u \in Users |-> [k \in Keys |-> NoIdem]]
  /\ outbox = [o \in OrderIds |-> [t \in EventTypes |-> 0]]
  /\ tx = [r \in Reqs |-> IdleTx]
  /\ cx = [c \in Cancels |-> IdleCx]
  /\ added = InitCart
  /\ served = {}

-----------------------------------------------------------------------------
(* The cart *)

\* addItem and upsertCartItem.  The ceiling of the upsert is a stock value
\* read in an earlier statement: it may be any value the column has held.
\* On a conflict the quantity of the SAME row (same id) grows.
CartAdd(u, s, q) ==
  /\ CartRowFree(u, s)
  /\ added[u][s] + q <= MaxAdded
  /\ cart[u][s] + q <= InitStock[s]
  /\ cart' = [cart EXCEPT ![u][s] = @ + q]
  /\ added' = [added EXCEPT ![u][s] = @ + q]
  /\ UNCHANGED <<stock, promo, points, orders, idem, outbox, tx, cx, served>>

\* updateItem: the quantity of a row is overwritten, under the same kind of
\* ceiling.
CartUpdate(u, s, q) ==
  /\ CartRowFree(u, s)
  /\ cart[u][s] > 0
  /\ q <= InitStock[s]
  /\ LET more == IF q > cart[u][s] THEN q - cart[u][s] ELSE 0 IN
       /\ added[u][s] + more <= MaxAdded
       /\ added' = [added EXCEPT ![u][s] = @ + more]
  /\ cart' = [cart EXCEPT ![u][s] = q]
  /\ UNCHANGED <<stock, promo, points, orders, idem, outbox, tx, cx, served>>

\* removeItem: the row is deleted, and with it the id a checkout of this
\* user may have read; a later addItem makes a row with another id.
CartRemove(u, s) ==
  /\ CartRowFree(u, s)
  /\ cart[u][s] > 0
  /\ cart' = [cart EXCEPT ![u][s] = 0]
  /\ tx' = [r \in Reqs |->
              IF tx[r].user = u THEN [tx[r] EXCEPT !.rows = @ \ {s}] ELSE tx[r]]
  /\ UNCHANGED <<stock, promo, points, orders, idem, outbox, cx, history>>

-----------------------------------------------------------------------------
(* createOrderFromCart *)

\* acquireUserCheckoutLock: pg_advisory_xact_lock on the user, held until
\* the transaction ends.
CheckoutLockFree_None(u) == TRUE
CheckoutLockFree(u) == \A r \in Reqs : tx[r].user # u

\* What findIdempotencyKeyForUpdate makes of the key.  A "started" row is
\* only ever visible to the transaction that inserted it.
KeyUnused_Any(u, k) == TRUE
KeyUnused(u, k) == k \in Keys => idem[u][k] = NoIdem

Response(u, k, h, o) == [user |-> u, key |-> k, hash |-> h, order |-> o]

\* The request hash must be the one the key was first used with.
SameRequest_Any(u, k, h) == TRUE
SameRequest(u, k, h) == idem[u][k].hash = h

\* A key whose order was placed: the stored order is returned, unless the
\* payload differs (the request is then refused).
CheckoutReplay(r, u, k, h) ==
  /\ tx[r].pc = "idle"
  /\ CheckoutLockFree(u)
  /\ ~KeyUnused(u, k)
  /\ SameRequest(u, k, h)
  /\ served' = served \cup {Response(u, k, h, idem[u][k].order)}
  /\ UNCHANGED <<tables, tx, cx, added>>

\* The transaction up to the initial stock check: advisory lock, idempotency
\* check, read of the cart joined with the stock.  An empty cart or a short
\* stock ends the transaction without a write.
CheckoutBegin(r, u, k, h, usePromo) ==
  /\ tx[r].pc = "idle"
  /\ CheckoutLockFree(u)
  /\ KeyUnused(u, k)
  /\ Needed(cart[u]) # {}
  /\ \A s \in Skus : cart[u][s] <= stock[s]
  /\ tx' = [tx EXCEPT ![r] =
       [pc |-> "quote", user |-> u, key |-> k, hash |-> h, promo |-> usePromo,
        items |-> cart[u], rows |-> Needed(cart[u]), spend |-> 0,
        held |-> {}]]
  /\ UNCHANGED <<tables, cx, history>>

\* promosService.validate (to which a limit of 0 is no limit) and
\* loyaltyService.getBalance: both read through the connection pool, outside
\* the transaction, and lock nothing.  The
\* points to use depend on prices, and are 0 when the customer does not ask
\* for it: any amount up to the balance.
CheckoutQuote(r) ==
  /\ tx[r].pc = "quote"
  /\ tx[r].promo => promo.active /\ (promo.uses < MaxUses \/ MaxUses = 0)
  /\ \E p \in 0..points[tx[r].user] :
       tx' = [tx EXCEPT ![r].pc = "deduct", ![r].spend = p]
  /\ UNCHANGED <<tables, cx, history>>

\* The row the deduction loop updates next: the loop runs over the cart items
\* sorted by variantId ?? productId.
NextSkus_Unsorted(r) == Needed(tx[r].items) \ tx[r].held
NextSkus(r) ==
  LET todo == Needed(tx[r].items) \ tx[r].held
  IN  {s \in todo : \A t \in todo : s <= t}

\* The WHERE clause of the deduction: stock >= quantity.
StockSuffices(r, s) == stock[s] >= tx[r].items[s]

\* One conditional UPDATE of deductProductStock / deductVariantStock.  It
\* waits for the row lock and evaluates its WHERE clause once it has it.
CheckoutDeduct(r, s) ==
  /\ tx[r].pc = "deduct"
  /\ s \in NextSkus(r)
  /\ Free(s)
  /\ StockSuffices(r, s)
  /\ tx' = [tx EXCEPT ![r].held = @ \cup {s}]
  /\ UNCHANGED <<tables, cx, history>>

\* The UPDATE of incrementPromoUsage: it waits for the promo row and finds
\* the code still active and below its limit.
PromoIncrements_Unchecked(r) == PromoFree
PromoIncrements(r) == PromoFree /\ promo.active /\ promo.uses < MaxUses

\* deleteCartItemsByIds and incrementPromoUsage, once every row is deducted:
\* the cart rows and the promo row are locked until the commit.
CheckoutPromo(r) ==
  /\ tx[r].pc = "deduct"
  /\ Needed(tx[r].items) \subseteq tx[r].held
  /\ tx[r].promo => PromoIncrements(r)
  /\ tx' = [tx EXCEPT ![r].pc = "finish"]
  /\ UNCHANGED <<tables, cx, history>>

\* spendPoints (which re-checks the balance under the user's row lock), the
\* outbox rows, the completed idempotency row, and COMMIT.
CheckoutCommit(r, o) ==
  LET t == tx[r] IN
  /\ t.pc = "finish"
  /\ t.spend <= points[t.user]
  /\ ~Exists(o)
  /\ stock' = [s \in Skus |-> stock[s] - t.items[s]]
  /\ cart' = [cart EXCEPT ![t.user] =
                [s \in Skus |-> IF s \in t.rows THEN 0 ELSE @[s]]]
  /\ promo' = IF t.promo THEN [promo EXCEPT !.uses = @ + 1] ELSE promo
  /\ points' = [points EXCEPT ![t.user] = @ - t.spend]
  /\ orders' = [orders EXCEPT ![o] =
       [status |-> "pending", payment |-> "unpaid", user |-> t.user,
        items |-> t.items, promo |-> t.promo, spent |-> t.spend,
        key |-> t.key]]
  /\ idem' = IF t.key = Null THEN idem
             ELSE [idem EXCEPT ![t.user][t.key] = [order |-> o, hash |-> t.hash]]
  /\ outbox' = [outbox EXCEPT ![o]["SEND_ORDER_CONFIRMATION"] = @ + 1,
                              ![o]["SEND_LOW_STOCK_ALERT"] = @ + 1]
  /\ served' = IF t.key = Null THEN served
               ELSE served \cup {Response(t.user, t.key, t.hash, o)}
  /\ tx' = [tx EXCEPT ![r] = IdleTx]
  /\ UNCHANGED <<cx, added>>

\* Any throw inside runTransaction, a deadlock victim, or a crash of the
\* process: PostgreSQL rolls the transaction back.
CheckoutRollback(r) ==
  /\ tx[r].pc # "idle"
  /\ tx' = [tx EXCEPT ![r] = IdleTx]
  /\ UNCHANGED <<tables, cx, history>>

-----------------------------------------------------------------------------
(* cancelOrder, expireOrder, updateOrderStatus *)

\* The unlocked reads before cancelOrderInternal: cancelOrder's checks, the
\* candidate query of the expiry worker; none for the admin endpoint.
CancelBegin(c, o, caller) ==
  /\ cx[c].pc = "idle"
  /\ Exists(o)
  /\ caller = "customer" => orders[o].status \in CancellableStatuses
  /\ caller = "expiry" => /\ orders[o].status = "pending"
                          /\ orders[o].payment # "paid"
  /\ cx' = [cx EXCEPT ![c] = [pc |-> "begun", order |-> o,
                              expiry |-> (caller = "expiry"), held |-> {}]]
  /\ UNCHANGED <<tables, tx, history>>

\* What cancelOrderInternal requires of the row it has locked.
Eligible_Unchecked(c) == TRUE
Eligible(c) ==
  LET o == orders[cx[c].order] IN
  /\ o.status \in CancellableStatuses
  /\ cx[c].expiry => o.status = "pending" /\ o.payment # "paid"

\* findOrderByIdForUpdate and the checks on the locked row.
CancelLock(c) ==
  /\ cx[c].pc = "begun"
  /\ OrderFree(cx[c].order)
  /\ Eligible(c)
  /\ cx' = [cx EXCEPT ![c].pc = "restock"]
  /\ UNCHANGED <<tables, tx, history>>

\* One restoreProductStock / restoreVariantStock.  getOrderItemsForRestock
\* has no ORDER BY: the rows come in any order.
CancelRestock(c, s) ==
  /\ cx[c].pc = "restock"
  /\ s \in Needed(orders[cx[c].order].items) \ cx[c].held
  /\ Free(s)
  /\ cx' = [cx EXCEPT ![c].held = @ \cup {s}]
  /\ UNCHANGED <<tables, tx, history>>

\* decrementPromoUsage, refundPoints, the notifications, and COMMIT of the
\* status change with all of it.
CancelCommit(c) ==
  LET o == cx[c].order
      row == orders[o]
  IN
  /\ cx[c].pc = "restock"
  /\ Needed(row.items) \subseteq cx[c].held
  /\ row.promo => PromoFree
  /\ stock' = [s \in Skus |-> stock[s] + row.items[s]]
  /\ promo' = IF row.promo /\ promo.uses > 0
              THEN [promo EXCEPT !.uses = @ - 1] ELSE promo
  /\ points' = [points EXCEPT ![row.user] = @ + row.spent]
  /\ orders' = [orders EXCEPT ![o].status = "cancelled"]
  /\ outbox' = [outbox EXCEPT
       ![o]["SMS_CANCELLED"] = IF row.user \in PhoneUsers THEN @ + 1 ELSE @,
       ![o]["REFUND_REQUIRED"] = IF row.payment = "paid" THEN @ + 1 ELSE @]
  /\ cx' = [cx EXCEPT ![c] = IdleCx]
  /\ UNCHANGED <<cart, idem, tx, history>>

\* An ineligible order, an error or a crash: the cancellation rolls back.
CancelRollback(c) ==
  /\ cx[c].pc # "idle"
  /\ cx' = [cx EXCEPT ![c] = IdleCx]
  /\ UNCHANGED <<tables, tx, history>>

\* updateOrderStatus by an admin (a cancellation goes through CancelBegin):
\* one row locked, checked, written, with the events of the new status.
UpdateOrderStatus(o, status) ==
  /\ Exists(o) /\ OrderFree(o)
  /\ status # "cancelled"
  /\ status \in ORDER_STATE_TRANSITIONS[orders[o].status]
  /\ orders' = [orders EXCEPT ![o].status = status]
  /\ outbox' = [outbox EXCEPT
       ![o]["CREATE_CONSIGNMENT"] = IF status = "shipped" THEN @ + 1 ELSE @,
       ![o]["SMS_DELIVERED"] =
          IF status = "delivered" /\ orders[o].user \in PhoneUsers
          THEN @ + 1 ELSE @]
  /\ UNCHANGED <<stock, cart, promo, points, idem, tx, cx, history>>

\* A successful payment moves every order but a cancelled one to processing.
StatusAfterPayment(status) ==
  IF status = "cancelled" THEN "cancelled" ELSE "processing"

\* The transaction of handleSuccessfulPayment on the order row, for the first
\* payment of the order that succeeds (OrderPayments has the payments).
PaymentSettled(o) ==
  /\ Exists(o) /\ OrderFree(o)
  /\ orders[o].payment # "paid"
  /\ orders' = [orders EXCEPT ![o].payment = "paid",
                                 ![o].status = StatusAfterPayment(@)]
  /\ outbox' = [outbox EXCEPT ![o]["RECONCILIATION_REQUIRED"] =
                  IF orders[o].status = "cancelled" THEN @ + 1 ELSE @]
  /\ UNCHANGED <<stock, cart, promo, points, idem, tx, cx, history>>

\* promosService.toggleActive.
ToggleActive ==
  /\ PromoFree
  /\ promo' = [promo EXCEPT !.active = ~@]
  /\ UNCHANGED <<stock, cart, points, orders, idem, outbox, tx, cx, history>>

Next ==
  \/ \E u \in Users, s \in Skus :
       \/ \E q \in 1..MaxAdded : CartAdd(u, s, q) \/ CartUpdate(u, s, q)
       \/ CartRemove(u, s)
  \/ \E r \in Reqs, u \in Users, k \in Keys \cup {Null}, h \in Hashes,
        p \in BOOLEAN : CheckoutBegin(r, u, k, h, p)
  \/ \E r \in Reqs, u \in Users, k \in Keys, h \in Hashes :
        CheckoutReplay(r, u, k, h)
  \/ \E r \in Reqs :
       \/ CheckoutQuote(r) \/ CheckoutPromo(r)
       \/ \E s \in Skus : CheckoutDeduct(r, s)
       \/ \E o \in OrderIds : CheckoutCommit(r, o)
       \/ CheckoutRollback(r)
  \/ \E c \in Cancels, o \in OrderIds,
        caller \in {"customer", "admin", "expiry"} : CancelBegin(c, o, caller)
  \/ \E c \in Cancels :
       \/ CancelLock(c) \/ CancelCommit(c) \/ CancelRollback(c)
       \/ \E s \in Skus : CancelRestock(c, s)
  \/ \E o \in OrderIds :
       \/ \E status \in AdminStatuses : UpdateOrderStatus(o, status)
       \/ PaymentSettled(o)
  \/ ToggleActive

Spec == Init /\ [][Next]_vars
-----------------------------------------------------------------------------
(* Properties *)

\* Every table and every open transaction holds values of its columns' types;
\* in particular no stock, balance or promo counter is ever negative.
TypeOK ==
  /\ stock \in [Skus -> Nat]
  /\ cart \in [Users -> [Skus -> Nat]]
  /\ promo \in [uses : Nat, active : BOOLEAN]
  /\ points \in [Users -> Nat]
  /\ orders \in [OrderIds -> OrderRows]
  /\ idem \in [Users -> [Keys -> IdemRows]]
  /\ outbox \in [OrderIds -> [EventTypes -> Nat]]
  /\ tx \in [Reqs -> TxStates]
  /\ cx \in [Cancels -> CxStates]
  /\ added \in [Users -> [Skus -> Nat]]
  /\ served \subseteq [user : Users, key : Keys, hash : Hashes, order : OrderIds]

LiveOrders == {o \in OrderIds : Live(o)}
OrdersOf(u) == {o \in OrderIds : orders[o].user = u}

\* The quantity of SKU s in each order, and the points each was paid with.
Ordered(s) == [o \in OrderIds |-> orders[o].items[s]]
Spent == [o \in OrderIds |-> orders[o].spent]

\* No oversell and no leak: whatever checkouts, cancellations, expiries,
\* rollbacks and crashes interleave, every unit of every SKU is either in
\* stock or held by exactly one order that was not cancelled (the conditional
\* UPDATEs of deduct*Stock against the restock loop of cancelOrderInternal).
StockConserved ==
  \A s \in Skus : stock[s] + Total(LiveOrders, Ordered(s)) = InitStock[s]

\* The promo counter is the number of live orders that used the code, and
\* never exceeds max_uses, although validate() reads it outside the
\* transaction and cancellations decrement it concurrently.
PromoUsesCounted ==
  /\ promo.uses = Cardinality({o \in LiveOrders : orders[o].promo})
  /\ promo.uses <= MaxUses

\* Loyalty points are neither spent twice nor refunded twice: a balance and
\* what the user's live orders spent always add up to what the user had.
PointsConserved ==
  \A u \in Users : points[u] + Total(LiveOrders \cap OrdersOf(u), Spent) = InitPoints[u]

\* A retried or doubled request with the same idempotency key never makes a
\* second order: the order of a key is unique, and it is the order the
\* stored idempotency record replays.
OneOrderPerKey ==
  \A o \in OrderIds :
    Exists(o) /\ orders[o].key # Null =>
      idem[orders[o].user][orders[o].key].order = o

\* Every successful response to one user and key names the same order, the
\* one placed for that payload: a key reused with other parameters is never
\* answered with an order the customer did not ask for.
ReplaysAgree ==
  \A a, b \in served : a.user = b.user /\ a.key = b.key =>
    a.order = b.order /\ a.hash = b.hash

\* A unit put in the cart once is ordered at most once, even by two requests
\* without an idempotency key that check the same cart out at the same time
\* (the advisory lock and the deletion of the cart rows in the transaction).
OrderedAtMostAdded ==
  \A u \in Users, s \in Skus :
    Total(OrdersOf(u), Ordered(s)) + cart[u][s] <= added[u][s]

\* Checkout r1 waits for a row whose lock checkout r2 holds.
WaitsFor(r1, r2) ==
  /\ r1 # r2
  /\ tx[r1].pc = "deduct"
  /\ \/ NextSkus(r1) \cap tx[r2].held # {}
     \/ /\ Needed(tx[r1].items) \subseteq tx[r1].held
        /\ tx[r1].promo /\ tx[r2].promo
        /\ tx[r2].pc = "finish"

\* "Canonical Deadlock-Free Lock Ordering": there is no set of checkouts that
\* all wait for one another.
CheckoutsDeadlockFree ==
  ~ \E D \in SUBSET Reqs : D # {} /\ \A r1 \in D : \E r2 \in D : WaitsFor(r1, r2)

\* A cancelled order stays cancelled, and a paid order is cancelled, or a
\* cancelled one paid, only together with an outbox event that makes the
\* money come back: no payment is kept for goods that were put back on sale.
CancelledMoneyIsOwed ==
  \A o \in OrderIds :
    orders[o].status = "cancelled" /\ orders[o].payment = "paid" =>
      outbox[o]["REFUND_REQUIRED"] + outbox[o]["RECONCILIATION_REQUIRED"] = 1

\* "Delete checked-out cart items ... (preserving any newly added items)":
\* placing an order takes from the cart at most the units it orders.
CartAdditionsPreserved ==
  [][\A o \in OrderIds : ~Exists(o) /\ orders'[o].status # "none" =>
       \A s \in Skus : LET u == orders'[o].user IN
         cart[u][s] - cart'[u][s] <= orders'[o].items[s]]_vars
-----------------------------------------------------------------------------
(* What the locks guarantee to the transaction that holds them *)

\* No two open transactions hold the lock of the same SKU.
LocksExclusive ==
  /\ \A r1, r2 \in Reqs : r1 # r2 => tx[r1].held \cap tx[r2].held = {}
  /\ \A c1, c2 \in Cancels : c1 # c2 => cx[c1].held \cap cx[c2].held = {}
  /\ \A r \in Reqs, c \in Cancels : tx[r].held \cap cx[c].held = {}

\* A checkout that has deducted a row can still take its units when it
\* commits, and commits only with every row it needs.
DeductionsCovered ==
  \A r \in Reqs :
    /\ tx[r].pc # "idle" => tx[r].user \in Users /\ tx[r].hash \in Hashes
    /\ tx[r].pc \in {"idle", "quote"} => tx[r].held = {}
    /\ tx[r].pc = "finish" => Needed(tx[r].items) \subseteq tx[r].held
    /\ \A s \in tx[r].held : 0 < tx[r].items[s] /\ tx[r].items[s] <= stock[s]

\* A cancellation that passed its checks restocks an order that can still be
\* cancelled, and no other transaction is cancelling it.
CancellationsValid ==
  /\ \A c \in Cancels :
       /\ cx[c].pc # "idle" => cx[c].order \in OrderIds /\ Exists(cx[c].order)
       /\ cx[c].pc = "restock" =>
            /\ orders[cx[c].order].status \in CancellableStatuses
            /\ cx[c].held \subseteq Needed(orders[cx[c].order].items)
       /\ cx[c].pc # "restock" => cx[c].held = {}
  /\ \A c1, c2 \in Cancels :
       c1 # c2 /\ cx[c1].pc = "restock" /\ cx[c2].pc = "restock" =>
         cx[c1].order # cx[c2].order

\* Row locks do what the code relies on: a WHERE clause or a check that held
\* when the lock was taken holds when the transaction commits, whatever other
\* checkouts, cancellations and status changes do in between.
LocksProtect ==
  /\ LocksExclusive
  /\ DeductionsCovered
  /\ CancellationsValid
  /\ \A o \in OrderIds : Exists(o) => orders[o].user \in Users
=============================================================================
