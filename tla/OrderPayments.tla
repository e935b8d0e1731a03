--------------------------- MODULE OrderPayments ----------------------------
(***************************************************************************)
(* The payment life of one order: PaymentsService (initiation, cash on      *)
(* delivery, gateway callbacks) against cancellation, the expiry worker,    *)
(* the admin's status changes and the settlement of refunds.                *)
(*                                                                          *)
(* Orders do not share payment rows, so one order is modelled.  A short     *)
(* transaction whose guards are evaluated under the row locks it takes is   *)
(* one action; what the code reads before it locks is a step of its own,    *)
(* kept in `starts' (initiations) and `expiring' (the expiry worker).       *)
(* The gateway's view of a payment session is `gateway'.                    *)
(***************************************************************************)
EXTENDS Integers, FiniteSets, OrderStatus

CONSTANTS
  Starters,      \* payment initiations that may be in progress together
  MaxPayments,   \* bound: payment rows of the order
  AdminStatuses, \* bound: the statuses an admin sets
  Methods        \* the payment methods customers choose

ASSUME OrderPaymentsAssumption ==
  /\ MaxPayments \in Nat
  /\ AdminStatuses \subseteq OrderStatuses
  /\ Methods \subseteq {"online", "cod"}

VARIABLES
  order,     \* the orders row: status and paymentStatus
  pay,       \* pay[p]: the payments rows, numbered in creation order
  gateway,   \* gateway[p]: the gateway's session of payment p
  outbox,    \* outbox_events rows: [type, payment]; equal rows count once
  refund,    \* the refunds row of the order and the payment it names
  starts,    \* starts[i]: initiation i between its database steps
  fallback,  \* the payment a callback without tran_id has read as pending
  expiring   \* the expiry worker has selected the order as a candidate

vars == <<order, pay, gateway, outbox, refund, starts, fallback, expiring>>

-----------------------------------------------------------------------------
(* Rows *)

Payments == 1..MaxPayments

\* order_payment_status; 'failed' is in the enumeration but never written.
OrderPaymentStatuses == {"unpaid", "initiated", "paid", "refunded"}

PaymentStatuses == {"pending", "completed", "failed", "refunded"}

\* The age of a pending payment: under STALE_PAYMENT_THRESHOLD_MS (2 min),
\* under the expiry worker's in-flight buffer (15 min), or over both.
Ages == {"recent", "stale", "old"}
NextAge == [recent |-> "stale", stale |-> "old", old |-> "old"]

NoPayment == [status |-> "none", method |-> "online", age |-> "recent"]
PaymentRows == [status : PaymentStatuses \cup {"none"},
                method : {"online", "cod"}, age : Ages]

EventTypes == {"REFUND_REQUIRED", "RECONCILIATION_REQUIRED", "CREATE_CONSIGNMENT"}

\* No payment: an outbox payload or a refund without a paymentId.
None == 0

RefundRows == [status : {"none", "requested", "processed"}, payment : Payments \cup {None}]

Idle == [pc |-> "idle", method |-> "online", payment |-> None]

Created == {p \in Payments : pay[p].status # "none"}
Pending == {p \in Payments : pay[p].status = "pending"}
Completed == {p \in Payments : pay[p].status = "completed"}

\* ORDER BY created_at DESC LIMIT 1.
Latest(S) == CHOOSE p \in S : \A q \in S : q <= p

\* The slot of the next row that createPayment inserts.
Fresh == Cardinality(Created) + 1

Event(type, p) == [type |-> type, payment |-> p]

\* createOutboxEvent, when the condition holds.
EmitIf(condition, type, p) ==
  outbox' = IF condition THEN outbox \cup {Event(type, p)} ELSE outbox

Init ==
  /\ order = [status |-> "pending", payment |-> "unpaid"]
  /\ pay = [p \in Payments |-> NoPayment]
  /\ gateway = [p \in Payments |-> "none"]
  /\ outbox = {}
  /\ refund = [status |-> "none", payment |-> None]
  /\ starts = [i \in Starters |-> Idle]
  /\ fallback = None
  /\ expiring = FALSE

-----------------------------------------------------------------------------
(* initiatePayment and initiateCod *)

Goto(i, pc, method, p) ==
  starts' = [starts EXCEPT ![i] = [pc |-> pc, method |-> method, payment |-> p]]

\* The database steps of the chosen method.
FirstStep(method) == IF method = "cod" THEN "codRead" ELSE "create"

\* initiatePayment's reads before any lock.  An order whose payment is in
\* progress is refused unless its latest payment is pending and stale.
StartRead(i, method) ==
  /\ starts[i].pc = "idle"
  /\ order.status # "cancelled"
  /\ \/ /\ order.payment = "unpaid"
        /\ Goto(i, FirstStep(method), method, None)
     \/ /\ order.payment = "initiated"
        /\ LET p == Latest(Created) IN
             /\ pay[p].status = "pending" /\ pay[p].age # "recent"
             /\ Goto(i, "clean", method, p)
  /\ UNCHANGED <<order, pay, gateway, outbox, refund, fallback, expiring>>

\* The clean-up of the stale payment: both rows are overwritten with nothing
\* locked and nothing read again.
StartClean(i) ==
  /\ starts[i].pc = "clean"
  /\ pay' = [pay EXCEPT ![starts[i].payment].status = "failed"]
  /\ order' = [order EXCEPT !.payment = "unpaid"]
  /\ Goto(i, FirstStep(starts[i].method), starts[i].method, None)
  /\ UNCHANGED <<gateway, outbox, refund, fallback, expiring>>

\* initiateCod's reads before its transaction; POST /payments/cod starts here.
CodRead(i) ==
  /\ starts[i].pc \in {"idle", "codRead"} /\ "cod" \in Methods
  /\ order.status # "cancelled"
  /\ order.payment = "unpaid"
  /\ Goto(i, "codCreate", "cod", None)
  /\ UNCHANGED <<order, pay, gateway, outbox, refund, fallback, expiring>>

\* initiateCod's transaction: under the order lock only paymentStatus is
\* looked at again.
CodCreate(i) ==
  /\ starts[i].pc = "codCreate"
  /\ order.payment \notin {"initiated", "paid", "refunded"}
  /\ Fresh \in Payments
  /\ pay' = [pay EXCEPT ![Fresh] =
               [status |-> "pending", method |-> "cod", age |-> "recent"]]
  /\ order' = [order EXCEPT !.payment = "initiated"]
  /\ starts' = [starts EXCEPT ![i] = Idle]
  /\ UNCHANGED <<gateway, outbox, refund, fallback, expiring>>

\* What initiatePayment's transaction requires of the locked order: not paid,
\* not cancelled, and no recent pending payment while one is initiated.
MayCreate ==
  /\ order.payment \notin {"paid", "refunded"}
  /\ order.status # "cancelled"
  /\ order.payment = "initiated" /\ Pending # {} =>
       pay[Latest(Pending)].age # "recent"

\* The stale pending payments that the same transaction marks failed.
Superseded ==
  IF order.payment = "initiated" /\ Pending # {} THEN {Latest(Pending)} ELSE {}

\* initiatePayment's transaction: a new pending payment, its predecessor failed.
StartCreate(i) ==
  /\ starts[i].pc = "create"
  /\ MayCreate
  /\ Fresh \in Payments
  /\ pay' = [p \in Payments |->
       IF p = Fresh THEN [status |-> "pending", method |-> "online", age |-> "recent"]
       ELSE IF p \in Superseded THEN [pay[p] EXCEPT !.status = "failed"]
       ELSE pay[p]]
  /\ order' = [order EXCEPT !.payment = "initiated"]
  /\ Goto(i, "gateway", "online", Fresh)
  /\ UNCHANGED <<gateway, outbox, refund, fallback, expiring>>

\* The gateway answers SUCCESS: the customer gets the page of the session.
GatewayOpens(i) ==
  /\ starts[i].pc = "gateway"
  /\ gateway' = [gateway EXCEPT ![starts[i].payment] = "open"]
  /\ starts' = [starts EXCEPT ![i] = Idle]
  /\ UNCHANGED <<order, pay, outbox, refund, fallback, expiring>>

\* The gateway refuses or does not answer within 10 s: the initiation undoes
\* its own payment, whatever the order has become.
GatewayRefuses(i) ==
  /\ starts[i].pc = "gateway"
  /\ pay' = [pay EXCEPT ![starts[i].payment].status = "failed"]
  /\ order' = [order EXCEPT !.payment = "unpaid"]
  /\ starts' = [starts EXCEPT ![i] = Idle]
  /\ UNCHANGED <<gateway, outbox, refund, fallback, expiring>>

\* An initiation ends between two steps: a check fails, or the process dies.
StartEnds(i) ==
  /\ starts[i].pc # "idle"
  /\ starts' = [starts EXCEPT ![i] = Idle]
  /\ UNCHANGED <<order, pay, gateway, outbox, refund, fallback, expiring>>

-----------------------------------------------------------------------------
(* The customer at the gateway, and the callbacks *)

\* The customer pays in an open session or gives it up; a session stays open
\* at the gateway whatever the shop has decided about its payment.
CustomerActs(p, outcome) ==
  /\ gateway[p] = "open"
  /\ gateway' = [gateway EXCEPT ![p] = outcome]
  /\ UNCHANGED <<order, pay, outbox, refund, starts, fallback, expiring>>

\* A successful payment moves every order but a cancelled one to processing.
StatusAfterSuccess == IF order.status = "cancelled" THEN "cancelled" ELSE "processing"

\* A payment of a cancelled order is reported to the back office.
NeedsReconciliation_PendingOnly(p) ==
  order.status = "cancelled" /\ pay[p].status = "pending"
NeedsReconciliation(p) == order.status = "cancelled"

\* A validated success notification (IPN or the customer's return), possibly
\* late and repeated: handleSuccessfulPayment, which only a completed payment
\* makes it skip.
PaymentSucceeds(p) ==
  /\ gateway[p] = "paid"
  /\ pay[p].status # "completed"
  /\ pay' = [pay EXCEPT ![p].status = "completed"]
  /\ order' = [status |-> StatusAfterSuccess, payment |-> "paid"]
  /\ EmitIf(NeedsReconciliation(p), "RECONCILIATION_REQUIRED", p)
  /\ UNCHANGED <<gateway, refund, starts, fallback, expiring>>

\* The order's payment status after a failure: neither a paid nor a cancelled
\* order is taken back to 'unpaid'.
PaymentAfterFailure_PendingOrders ==
  IF order.payment # "paid" /\ order.status = "pending" THEN "unpaid" ELSE order.payment
PaymentAfterFailure ==
  IF order.payment # "paid" /\ order.status # "cancelled" THEN "unpaid" ELSE order.payment

\* What every failing callback writes for the payment it is about.
MarkFailed(p) ==
  /\ pay' = [pay EXCEPT ![p].status = "failed"]
  /\ order' = [order EXCEPT !.payment = PaymentAfterFailure]
  /\ UNCHANGED <<gateway, outbox, refund, starts, expiring>>

\* A failure or cancel notification that names its transaction:
\* handleFailedPayment.
PaymentFails(p) ==
  /\ gateway[p] = "declined"
  /\ pay[p].status \notin {"completed", "failed"}
  /\ MarkFailed(p)
  /\ UNCHANGED fallback

\* A fail or cancel callback without tran_id takes the latest pending payment
\* of its order to be the one that failed.
FallbackRead ==
  /\ fallback = None
  /\ \E p \in Payments : gateway[p] = "declined"
  /\ Pending # {}
  /\ fallback' = Latest(Pending)
  /\ UNCHANGED <<order, pay, gateway, outbox, refund, starts, expiring>>

\* Its transaction reads that payment again under the lock, unless it has no
\* transaction id (cash on delivery): then the row read before stands.
FallbackFails ==
  /\ fallback # None
  /\ \/ pay[fallback].method = "cod"
     \/ pay[fallback].status \notin {"completed", "failed"}
  /\ MarkFailed(fallback)
  /\ fallback' = None

\* The payment is found in a terminal state, or the process dies.
FallbackIgnored ==
  /\ fallback # None
  /\ fallback' = None
  /\ UNCHANGED <<order, pay, gateway, outbox, refund, starts, expiring>>

\* Time passes for a pending payment.  An initiation waits at most 10 s for
\* the gateway, so its payment is still recent when the wait ends.
PaymentAges(p) ==
  /\ pay[p].status = "pending" /\ pay[p].age # "old"
  /\ \A i \in Starters : ~(starts[i].pc = "gateway" /\ starts[i].payment = p)
  /\ pay' = [pay EXCEPT ![p].age = NextAge[@]]
  /\ UNCHANGED <<order, gateway, outbox, refund, starts, fallback, expiring>>

-----------------------------------------------------------------------------
(* Cancellation, expiry, fulfilment, refund settlement *)

\* failPendingPaymentsForOrder: the payments a cancellation marks failed.
FailedByCancel_All == Created
FailedByCancel == Pending

\* cancelOrderInternal, as far as the order and its payments go.
CancelOrder ==
  /\ order.status \in CancellableStatuses
  /\ order' = [order EXCEPT !.status = "cancelled"]
  /\ pay' = [p \in Payments |->
               IF p \in FailedByCancel THEN [pay[p] EXCEPT !.status = "failed"] ELSE pay[p]]
  /\ EmitIf(order.payment = "paid", "REFUND_REQUIRED", None)
  /\ UNCHANGED <<gateway, refund, starts, fallback>>

\* The customer or an admin cancels.
Cancel == CancelOrder /\ UNCHANGED expiring

\* findStaleUnpaidOrdersForExpiry.  The order is older than the expiry time;
\* the row locks of the query end with it, as it runs in no transaction.
ExpirySelect ==
  /\ ~expiring
  /\ order.status = "pending" /\ order.payment # "paid"
  /\ \A p \in Created : pay[p].method # "cod"
  /\ \A p \in Pending : pay[p].age = "old"
  /\ expiring' = TRUE
  /\ UNCHANGED <<order, pay, gateway, outbox, refund, starts, fallback>>

\* The recheck of cancelOrderInternal for an expiry.
MayExpire_Cancellable == order.status \in CancellableStatuses
MayExpire == order.status = "pending" /\ order.payment # "paid"

\* expireOrder on the selected candidate.
ExpireOrder ==
  /\ expiring /\ MayExpire
  /\ CancelOrder
  /\ expiring' = FALSE

\* The candidate is refused, or the worker dies: the error is swallowed.
ExpireRefused ==
  /\ expiring
  /\ expiring' = FALSE
  /\ UNCHANGED <<order, pay, gateway, outbox, refund, starts, fallback>>

\* updateOrderStatus by an admin, for every status but 'cancelled'.
UpdateOrderStatus(status) ==
  /\ status # "cancelled"
  /\ status \in ORDER_STATE_TRANSITIONS[order.status]
  /\ order' = [order EXCEPT !.status = status]
  /\ EmitIf(status = "shipped", "CREATE_CONSIGNMENT", None)
  /\ UNCHANGED <<pay, gateway, refund, starts, fallback, expiring>>

\* requestRefund: a delivered order, no refund yet, and the completed payment
\* of the order if there is one.
RequestRefund(p) ==
  /\ order.status = "delivered"
  /\ refund.status = "none"
  /\ IF Completed = {} THEN p = None ELSE p \in Completed
  /\ refund' = [status |-> "requested", payment |-> p]
  /\ UNCHANGED <<order, pay, gateway, outbox, starts, fallback, expiring>>

\* handleRefundRequired and handleReconciliationRequired: the first of their
\* events makes the refund, for the payment of the payload or, when it names
\* none, the order's latest payment; the others find a refund and skip.
RefundFromEvent(type, p) ==
  /\ type \in {"REFUND_REQUIRED", "RECONCILIATION_REQUIRED"}
  /\ Event(type, p) \in outbox
  /\ refund.status = "none"
  /\ refund' = [status |-> "requested",
                payment |-> IF p = None THEN Latest(Created) ELSE p]
  /\ UNCHANGED <<order, pay, gateway, outbox, starts, fallback, expiring>>

\* The settlement transaction of processRefund, for an open refund: it checks
\* the refund row, and neither the order's status nor the payment's.
RefundSettles ==
  /\ refund.status = "requested"
  /\ refund' = [refund EXCEPT !.status = "processed"]
  /\ pay' = [p \in Payments |-> IF p = refund.payment
                                THEN [pay[p] EXCEPT !.status = "refunded"]
                                ELSE pay[p]]
  /\ order' = [status |-> "refunded", payment |-> "refunded"]
  /\ UNCHANGED <<gateway, outbox, starts, fallback, expiring>>

Next ==
  \/ \E i \in Starters :
       \/ \E m \in Methods : StartRead(i, m)
       \/ StartClean(i) \/ CodRead(i) \/ CodCreate(i) \/ StartCreate(i)
       \/ GatewayOpens(i) \/ GatewayRefuses(i) \/ StartEnds(i)
  \/ \E p \in Payments :
       \/ CustomerActs(p, "paid") \/ CustomerActs(p, "declined")
       \/ PaymentSucceeds(p) \/ PaymentFails(p) \/ PaymentAges(p)
  \/ FallbackRead \/ FallbackFails \/ FallbackIgnored
  \/ Cancel \/ ExpirySelect \/ ExpireOrder \/ ExpireRefused
  \/ \E s \in AdminStatuses : UpdateOrderStatus(s)
  \/ \E p \in Payments \cup {None} :
       \/ RequestRefund(p)
       \/ \E type \in EventTypes : RefundFromEvent(type, p)
  \/ RefundSettles

Spec == Init /\ [][Next]_vars
-----------------------------------------------------------------------------
(* Properties *)

\* The order, its payments, its events and the steps in progress hold values
\* of their types.
TypeOK ==
  /\ order \in [status : OrderStatuses, payment : OrderPaymentStatuses]
  /\ pay \in [Payments -> PaymentRows]
  /\ gateway \in [Payments -> {"none", "open", "paid", "declined"}]
  /\ outbox \subseteq [type : EventTypes, payment : Payments \cup {None}]
  /\ refund \in RefundRows
  /\ starts \in [Starters -> [pc : {"idle", "clean", "create", "gateway", "codRead", "codCreate"},
                             method : {"online", "cod"}, payment : Payments \cup {None}]]
  /\ fallback \in Payments \cup {None}
  /\ expiring \in BOOLEAN

\* An order says "paid" only while a payment of it is completed: the two rows
\* that callbacks, cleanups, cancellations and refunds each update agree.
PaidHasCompletedPayment == order.payment = "paid" => Completed # {}

\* Money taken for an order that is cancelled is flagged: whichever of the
\* payment and the cancellation (or expiry) comes first, an event for the
\* back office exists or the refund row does.
CancelledPaidIsFlagged ==
  order.status = "cancelled" /\ order.payment = "paid" =>
    \E e \in outbox : e.type \in {"REFUND_REQUIRED", "RECONCILIATION_REQUIRED"}

\* A customer is not locked out: while the order says a payment is in
\* progress, its latest payment is pending, so that initiatePayment can
\* supersede it once it is stale.
InitiatedIsRetryable ==
  order.payment = "initiated" /\ order.status # "cancelled" =>
    Pending # {} /\ Latest(Pending) = Latest(Created)

\* The expiry worker never cancels an order that is paid.
ExpiryNeverCancelsPaid ==
  [][expiring /\ ~expiring' /\ order'.status = "cancelled" =>
       order.payment # "paid" \/ order.status = "cancelled"]_vars

\* "paid (Terminal for payment ...)": an order's payment leaves "paid" only to
\* be refunded.
PaidIsNotDemoted ==
  [][order.payment = "paid" => order'.payment \in {"paid", "refunded"}]_order

\* "EXCLUDES Cash On Delivery (COD) orders": no expiry cancels an order that
\* has a cash-on-delivery payment.
ExpiryExcludesCod ==
  [][expiring /\ ~expiring' /\ order.status # "cancelled" /\ order'.status = "cancelled" =>
       \A p \in Created : pay[p].method # "cod"]_vars

\* "Duplicate active payment records must be strictly prevented": at most one
\* payment of the order is pending.
OneActivePayment == Cardinality(Pending) <= 1

\* "refunded (Terminal)": no callback takes an order whose money has been
\* given back out of 'refunded'.
RefundedIsTerminal ==
  [][order.payment = "refunded" => order'.payment = "refunded"]_order

\* "Cannot initiate payment for a cancelled order": no payment row is created
\* for an order that is cancelled.
NoPaymentForCancelled ==
  [][order.status = "cancelled" => \A p \in Payments \ Created : pay'[p].status = "none"]_pay

\* "looks up the associated paymentId": a refund raised for a cancelled paid
\* order names a payment that the customer made.
RefundNamesAPaidPayment ==
  refund.status = "requested" /\ refund.payment # None => gateway[refund.payment] = "paid"
=============================================================================
