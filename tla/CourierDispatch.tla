--------------------------- MODULE CourierDispatch --------------------------
(***************************************************************************)
(* The dispatch of one order to the courier: handleCreateConsignment of the *)
(* outbox worker, the courier's API (CourierService), and the manual        *)
(* reconciliation by admins (reconcileCourierDispatch).                     *)
(*                                                                          *)
(* The order has a CREATE_CONSIGNMENT event for every time it was set to    *)
(* 'shipped' (a late payment takes a shipped order back to 'processing').   *)
(* A worker here is one tick with one claimed event; claim and renewal of   *)
(* the lease are one step, since Outbox shows what lies between them.       *)
(***************************************************************************)
EXTENDS Integers, FiniteSets

CONSTANTS
  Events,        \* CREATE_CONSIGNMENT events of the order, in creation order
  Workers,       \* ticks in progress
  Admins,        \* admins who reconcile
  MaxParcels,    \* bound: shipments the courier ever accepts
  MAX_ATTEMPTS   \* claims of an event (3)

ASSUME CourierAssumption ==
  /\ Events \subseteq Nat /\ IsFiniteSet(Events)
  /\ MaxParcels \in Nat /\ MAX_ATTEMPTS \in Nat \ {0}

VARIABLES
  order,     \* the orders row: status, paid (paymentStatus = 'paid'), consignment
  event,     \* event[e]: status and attempts of the outbox_events row
  worker,    \* worker[w]: a call of handleCreateConsignment
  parcels,   \* the courier's shipments of the order
  rejected,  \* the courier has rejected a request: the evidence of a rejection
  sms,       \* a SEND_SMS event of type 'shipped' has been inserted
  desk,      \* desk[a]: the event admin a has open in the reconciliation page
  reconciled,\* history: events an admin has resolved
  overrun    \* history: a handler has outlived the lease renewed before it

vars == <<order, event, worker, parcels, rejected, sms, desk, reconciled, overrun>>

ParcelIds == 1..MaxParcels
Null == 0
PENDING_DISPATCH == -1
NoEvent == 0

OrderRows == [status : {"processing", "shipped", "cancelled"}, paid : BOOLEAN,
              consignment : ParcelIds \cup {Null, PENDING_DISPATCH}]

\* A shipment: what the courier collects, the order when it was accepted, and
\* whether the courier answered the request with a rejection all the same.
ParcelRows == [id : ParcelIds, collect : BOOLEAN, order : OrderRows, refused : BOOLEAN]

NoOrder == [status |-> "processing", paid |-> FALSE, consignment |-> Null]
Idle == [pc |-> "idle", event |-> NoEvent, attempts |-> 0, seen |-> NoOrder, found |-> Null]

Init ==
  /\ order \in [status : {"processing"}, paid : BOOLEAN, consignment : {Null}]
  /\ event = [e \in Events |-> [status |-> "absent", attempts |-> 0]]
  /\ worker = [w \in Workers |-> Idle]
  /\ parcels = {}
  /\ rejected = FALSE
  /\ sms = FALSE
  /\ desk = [a \in Admins |-> NoEvent]
  /\ reconciled = {} /\ overrun = FALSE

Goto(w, pc) == worker' = [worker EXCEPT ![w].pc = pc]
HasParcel == order.consignment \in ParcelIds

-----------------------------------------------------------------------------
(* The order *)

\* updateOrderStatus to 'shipped', which inserts the event.
Ship(e) ==
  /\ order.status = "processing"
  /\ event[e].status = "absent"
  /\ \A f \in Events : f < e => event[f].status # "absent"
  /\ order' = [order EXCEPT !.status = "shipped"]
  /\ event' = [event EXCEPT ![e].status = "pending"]
  /\ UNCHANGED <<worker, parcels, rejected, sms, desk, reconciled, overrun>>

\* handleSuccessfulPayment.
PaymentArrives ==
  /\ ~order.paid
  /\ order' = [order EXCEPT !.paid = TRUE,
                 !.status = IF @ = "cancelled" THEN @ ELSE "processing"]
  /\ UNCHANGED <<event, worker, parcels, rejected, sms, desk, reconciled, overrun>>

\* cancelOrderInternal.
CancelOrder ==
  /\ order.status = "processing"
  /\ order' = [order EXCEPT !.status = "cancelled"]
  /\ UNCHANGED <<event, worker, parcels, rejected, sms, desk, reconciled, overrun>>

-----------------------------------------------------------------------------
(* The worker *)

\* The claim of a pending event and the renewal of its lease.
Begin(w, e) ==
  /\ worker[w].pc = "idle"
  /\ event[e].status = "pending" /\ event[e].attempts < MAX_ATTEMPTS
  /\ event' = [event EXCEPT ![e] = [status |-> "processing", attempts |-> @.attempts + 1]]
  /\ worker' = [worker EXCEPT ![w] =
       [Idle EXCEPT !.pc = "read", !.event = e, !.attempts = event[e].attempts + 1]]
  /\ UNCHANGED <<order, parcels, rejected, sms, desk, reconciled, overrun>>

\* A worker is at work on the event under its current claim.
AtWork(e) ==
  \E w \in Workers : worker[w].event = e /\ worker[w].attempts = event[e].attempts

\* recoverStrandedEvents, five minutes after the lease was renewed.
Stranded(e) == event[e].status = "processing"
Recover(e) ==
  /\ Stranded(e)
  /\ event' = [event EXCEPT ![e].status =
                 IF event[e].attempts < MAX_ATTEMPTS THEN "pending" ELSE "failed"]
  /\ overrun' = (overrun \/ AtWork(e))
  /\ UNCHANGED <<order, worker, parcels, rejected, sms, desk, reconciled>>

\* The handler reads the order; everything that follows relies on this copy.
ReadOrder(w) ==
  /\ worker[w].pc = "read"
  /\ worker' = [worker EXCEPT ![w].seen = order, ![w].pc =
       IF order.status = "cancelled" \/ HasParcel THEN "done"
       ELSE IF worker[w].attempts > 1 THEN "inquire" ELSE "claim"]
  /\ UNCHANGED <<order, event, parcels, rejected, sms, desk, reconciled, overrun>>

\* A shipment that may have been requested before cannot be ruled out by a
\* 404: the event is left to an admin.
AfterNotFound_Skip(w) == IF worker[w].seen.consignment = PENDING_DISPATCH THEN "done" ELSE "claim"
AfterNotFound(w) ==
  IF worker[w].seen.consignment = PENDING_DISPATCH THEN "fatal" ELSE "claim"

\* getConsignmentByInvoice before a retry: no answer, not found (which an
\* eventually consistent courier also says of a shipment it has), a shipment
\* without a usable code, or a shipment to adopt.
Inquire(w) ==
  /\ worker[w].pc = "inquire"
  /\ \/ Goto(w, "error")
     \/ Goto(w, AfterNotFound(w))
     \/ parcels # {} /\ Goto(w, "fatal")
     \/ \E p \in parcels : worker' = [worker EXCEPT ![w].found = p.id, ![w].pc = "claim"]
  /\ UNCHANGED <<order, event, parcels, rejected, sms, desk, reconciled, overrun>>

\* The conditional UPDATE of consignment_id from NULL to the sentinel.
SentinelFree_Any == TRUE
SentinelFree == order.consignment = Null

\* The atomic claim of the order.  Who finds it claimed leaves it to the
\* other worker, except on a retry of an order seen with the sentinel.
ClaimOrder(w) ==
  LET seen == worker[w].seen.consignment
      onward == IF worker[w].found = Null THEN "create" ELSE "write"
  IN
  /\ worker[w].pc = "claim"
  /\ IF seen = Null
     THEN IF SentinelFree
          THEN order' = [order EXCEPT !.consignment = PENDING_DISPATCH] /\ Goto(w, onward)
          ELSE UNCHANGED order /\ Goto(w, "done")
     ELSE /\ UNCHANGED order
          /\ Goto(w, IF worker[w].attempts = 1 THEN "done" ELSE onward)
  /\ UNCHANGED <<event, parcels, rejected, sms, desk, reconciled, overrun>>

\* The courier accepts a request; what it collects comes from the order as
\* the handler read it.
Accept(w, id, refused) ==
  parcels' = parcels \cup {[id |-> id, collect |-> ~worker[w].seen.paid, order |-> order,
                            refused |-> refused]}

NextParcel == Cardinality(parcels) + 1

\* createConsignment: accepted; an ambiguous outcome (timeout, 5xx or 408, an
\* answer without a code), after which the shipment may exist; or a definitive
\* rejection.  A 429 is one, although "the request may have been processed
\* before the failure": it too may leave a shipment.
Create(w) ==
  /\ worker[w].pc = "create"
  /\ \/ /\ NextParcel \in ParcelIds /\ Accept(w, NextParcel, FALSE)
        /\ \/ worker' = [worker EXCEPT ![w].found = NextParcel, ![w].pc = "write"]
           \/ Goto(w, "error")
        /\ UNCHANGED rejected
     \/ UNCHANGED <<parcels, rejected>> /\ Goto(w, "error")
     \/ /\ \/ UNCHANGED parcels
           \/ NextParcel \in ParcelIds /\ Accept(w, NextParcel, TRUE)
        /\ rejected' = TRUE
        /\ Goto(w, "release")
  /\ UNCHANGED <<order, event, sms, desk, reconciled, overrun>>

\* After a definitive rejection the sentinel, if still there, is removed.
Releases == order.consignment = PENDING_DISPATCH
Release(w) ==
  /\ worker[w].pc = "release"
  /\ order' = IF Releases THEN [order EXCEPT !.consignment = Null] ELSE order
  /\ Goto(w, "error")
  /\ UNCHANGED <<event, parcels, rejected, sms, desk, reconciled, overrun>>

\* The shipment is written to the order, whatever the row holds by now.
WriteTracking(w) ==
  /\ worker[w].pc = "write"
  /\ order' = [order EXCEPT !.consignment = worker[w].found]
  /\ Goto(w, "notify")
  /\ UNCHANGED <<event, parcels, rejected, sms, desk, reconciled, overrun>>

\* The SMS to the customer is queued by a statement of its own.
QueueSms(w) ==
  /\ worker[w].pc = "notify"
  /\ sms' = TRUE
  /\ Goto(w, "done")
  /\ UNCHANGED <<order, event, parcels, rejected, desk, reconciled, overrun>>

\* What a handler's outcome makes of the event: completed, retried, or failed.
FinalStatus(outcome, n) ==
  IF outcome = "done" THEN "completed"
  ELSE IF outcome = "fatal" \/ n >= MAX_ATTEMPTS THEN "failed" ELSE "pending"

\* The fence of that write, by the number of attempts.
FinalWrite(w) ==
  LET e == worker[w].event
      n == worker[w].attempts
      status == FinalStatus(worker[w].pc, n)
      current == CASE status = "failed" -> event[e].attempts <= n
                   [] status = "pending" -> event[e] = [status |-> "processing", attempts |-> n]
                   [] OTHER -> event[e].attempts = n
  IN  IF current THEN status ELSE event[e].status

Settle(w) ==
  /\ worker[w].pc \in {"done", "error", "fatal"}
  /\ event' = [event EXCEPT ![worker[w].event].status = FinalWrite(w)]
  /\ worker' = [worker EXCEPT ![w] = Idle]
  /\ UNCHANGED <<order, parcels, rejected, sms, desk, reconciled, overrun>>

\* The process dies between two statements or calls.
Crash(w) ==
  /\ worker[w].pc # "idle"
  /\ worker' = [worker EXCEPT ![w] = Idle]
  /\ UNCHANGED <<order, event, parcels, rejected, sms, desk, reconciled, overrun>>

-----------------------------------------------------------------------------
(* reconcileCourierDispatch *)

\* An admin opens an event that getUnresolvedReconciliations lists: failed, or
\* in processing for more than five minutes.
OpenCase(a, e) ==
  /\ desk[a] = NoEvent
  /\ event[e].status = "failed" \/ Stranded(e)
  /\ desk' = [desk EXCEPT ![a] = e]
  /\ UNCHANGED <<order, event, worker, parcels, rejected, sms, reconciled, overrun>>

\* What the transaction requires of the event it has locked.
Resolvable(e) == event[e].status # "completed"

\* Each resolution is one transaction with both rows locked.
Resolve(a, eventRow, orderRow) ==
  LET e == desk[a] IN
  /\ e # NoEvent
  /\ Resolvable(e)
  /\ event' = [event EXCEPT ![e] = eventRow]
  /\ order' = orderRow
  /\ desk' = [desk EXCEPT ![a] = NoEvent]
  /\ reconciled' = reconciled \cup {e}
  /\ UNCHANGED <<worker, parcels, rejected, sms, overrun>>

\* ADOPT_CONSIGNMENT of a shipment the admin has verified.
Adopt(a, p) ==
  /\ p \in parcels /\ desk[a] # NoEvent
  /\ Resolve(a, [event[desk[a]] EXCEPT !.status = "completed"],
             [order EXCEPT !.consignment = p.id,
                !.status = IF @ = "processing" THEN "shipped" ELSE @])

\* The check of CLEAR_AND_RETRY on the locked order.
MayClear_Any == TRUE
MayClear == ~HasParcel

\* CLEAR_AND_RETRY, with evidence that the courier has rejected a request: an
\* honest admin claims it only while the order misses no shipment there is, but
\* for those the courier said it had rejected.
ClearAndRetry(a) ==
  /\ desk[a] # NoEvent
  /\ MayClear
  /\ rejected /\ (HasParcel \/ \A p \in parcels : p.refused)
  /\ Resolve(a, [status |-> "pending", attempts |-> 0], [order EXCEPT !.consignment = Null])

\* CANCEL_DISPATCH.
CancelDispatch(a) ==
  /\ desk[a] # NoEvent
  /\ Resolve(a, [event[desk[a]] EXCEPT !.status = "completed"],
             IF HasParcel THEN order ELSE [order EXCEPT !.consignment = Null])

\* The resolution is refused, or the admin leaves the page.
CloseCase(a) ==
  /\ desk[a] # NoEvent
  /\ desk' = [desk EXCEPT ![a] = NoEvent]
  /\ UNCHANGED <<order, event, worker, parcels, rejected, sms, reconciled, overrun>>

Next ==
  \/ PaymentArrives \/ CancelOrder
  \/ \E e \in Events : Ship(e) \/ Recover(e)
  \/ \E w \in Workers :
       \/ \E e \in Events : Begin(w, e)
       \/ ReadOrder(w) \/ Inquire(w) \/ ClaimOrder(w) \/ Create(w) \/ Release(w)
       \/ WriteTracking(w) \/ QueueSms(w) \/ Settle(w) \/ Crash(w)
  \/ \E a \in Admins :
       \/ \E e \in Events : OpenCase(a, e)
       \/ \E p \in parcels : Adopt(a, p)
       \/ ClearAndRetry(a) \/ CancelDispatch(a) \/ CloseCase(a)

Spec == Init /\ [][Next]_vars
-----------------------------------------------------------------------------
(* Properties *)

\* Rows and handlers in progress have their types.
TypeOK ==
  /\ order \in OrderRows
  /\ event \in [Events -> [status : {"absent", "pending", "processing", "completed", "failed"},
                           attempts : 0..MAX_ATTEMPTS]]
  /\ worker \in [Workers -> [pc : {"idle", "read", "inquire", "claim", "create", "release",
                                   "write", "notify", "done", "error", "fatal"},
                             event : Events \cup {NoEvent}, attempts : 0..MAX_ATTEMPTS,
                             seen : OrderRows, found : ParcelIds \cup {Null}]]
  /\ parcels \subseteq ParcelRows
  /\ rejected \in BOOLEAN /\ sms \in BOOLEAN
  /\ desk \in [Admins -> Events \cup {NoEvent}] /\ reconciled \subseteq Events /\ overrun \in BOOLEAN

\* "At most 1 external call to the courier" that is accepted: crashes,
\* retries, ambiguous answers, expired leases and a second event never make
\* the courier ship an order twice.
AtMostOneParcel == Cardinality(parcels) <= 1

\* As long as no admin has resolved an event, nothing the workers, the courier
\* and the leases do makes two shipments of an order, but for shipments the
\* courier said it had rejected.
NotRefused == {p \in parcels : ~p.refused}
WorkersShipOnce == reconciled = {} => Cardinality(NotRefused) <= 1

\* "5xx / 408 / 429: the request may have been processed before the failure": no
\* answer of the courier makes the workers ship an order twice.
WorkersShipOnceWhateverAnswered == reconciled = {} => AtMostOneParcel

\* An order that is neither cancelled nor in the hands of an admin is not
\* forgotten in the middle of a dispatch: while it carries the sentinel, some
\* event of it is still open or failed, where a worker or an admin finds it,
\* or a handler is at work.
SentinelIsWatched ==
  order.consignment = PENDING_DISPATCH /\ order.status # "cancelled" /\ reconciled = {} /\ ~overrun =>
    \/ \E e \in Events : event[e].status \in {"pending", "processing", "failed"}
    \/ \E w \in Workers : worker[w].pc # "idle"

\* An order that is linked to a shipment stays linked to one: no rejection
\* noticed late and no reconciliation takes the tracking away.
LinkIsKept == [][HasParcel => HasParcel']_order

\* "If customer already paid online, COD amountToCollect must be 0".
PaidIsNotCollected == \A p \in parcels : p.order.paid => ~p.collect

\* "Prevent dispatch if order was cancelled or refunded".
NoDispatchOfCancelled == \A p \in parcels : p.order.status # "cancelled"

\* "Side effects are never lost": when a worker has completed the dispatch of
\* an order, the SMS to the customer is queued.
ShippedSmsIsQueued ==
  \A e \in Events \ reconciled :
    event[e].status = "completed" /\ HasParcel /\ order.status = "shipped" => sms
=============================================================================
