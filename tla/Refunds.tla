------------------------------- MODULE Refunds -------------------------------
(***************************************************************************)
(* The refunds of one order: RefundsService (request, processRefund,        *)
(* reconcileRefund) against the payment gateway's refund API                *)
(* (PaymentsService.initiateRefund and queryRefundStatus).                  *)
(*                                                                          *)
(* An admin's request is a sequence of steps: what it reads without a lock, *)
(* its transactions, and its call of the gateway, which holds no lock.      *)
(* Amounts are abstracted: a refund is for the whole of the order.          *)
(***************************************************************************)
EXTENDS Integers, FiniteSets, Sequences

CONSTANTS
  MaxRefunds,    \* bound: refunds rows of the order
  MaxTransfers,  \* bound: refunds the gateway ever accepts
  Admins,        \* requests of admins in progress together
  Statuses       \* the statuses admins ask for (ProcessRefundDto)

VARIABLES
  order,     \* the status of the orders row
  payment,   \* the payment the refunds name: is it online, is it refunded
  refund,    \* refund[r]: the refunds row, in creation order
  asking,    \* a customer's request has passed its checks, not yet inserted
  admin,     \* admin[a]: the request of an admin
  transfers, \* the gateway's refunds: the row they were asked for, their state
  restocks,  \* the references under which the goods were put back, in turn
  restored,  \* how many times the points spent on the order were given back
  vouched    \* history: a reference an admin typed has settled a refund

vars == <<order, payment, refund, asking, admin, transfers, restocks, restored, vouched>>

Ids == 1..MaxRefunds
Transfers == 1..MaxTransfers

NoRef == 0
ManualRef == -1  \* `COD-MANUAL-${refundId}`, or any other the gateway never gave
Refs == Transfers \cup {NoRef, ManualRef}

\* inventory_transactions.reference_id: the order (a cancellation), or a refund.
TheOrder == 0

Closed == {"processed", "rejected"}
NoRefund == [status |-> "none", ref |-> NoRef]
Active(r) == refund[r].status \notin {"none", "rejected"}

NoTransfer == [refund |-> 0, state |-> "none"]
Idle == [pc |-> "idle", refund |-> 0, status |-> "processed", ref |-> NoRef, source |-> "none"]

\* A delivered order, or a paid one that was cancelled: then the cancellation
\* has put the goods back and given the points back.
Init ==
  /\ order \in {"delivered", "cancelled"}
  /\ payment \in [online : BOOLEAN, refunded : {FALSE}]
  /\ refund = [r \in Ids |-> NoRefund]
  /\ asking = FALSE
  /\ admin = [a \in Admins |-> Idle]
  /\ transfers = [t \in Transfers |-> NoTransfer]
  /\ restocks = IF order = "cancelled" THEN <<TheOrder>> ELSE <<>>
  /\ restored = IF order = "cancelled" THEN 1 ELSE 0
  /\ vouched = FALSE

Goto(a, pc) == admin' = [admin EXCEPT ![a].pc = pc]
Leave(a) == admin' = [admin EXCEPT ![a] = Idle]

\* uq_refunds_order_id: a row may take an active status while no other has one.
Admits(r) == \A q \in Ids \ {r} : ~Active(q)

\* An UPDATE by primary key that no lock and no check protects.
Overwrite(r, row) ==
  refund' = IF row.status = "rejected" \/ Admits(r) THEN [refund EXCEPT ![r] = row] ELSE refund

-----------------------------------------------------------------------------
(* How refunds begin *)

\* The next row to be inserted, if the bound leaves one.
IsFresh(r) ==
  /\ refund[r].status = "none"
  /\ \A q \in Ids : q < r => refund[q].status # "none"

Insert(r) == refund' = [refund EXCEPT ![r].status = "requested"]

\* requestRefund reads the order and looks for an active refund ...
RequestRead ==
  /\ ~asking
  /\ order = "delivered" /\ \A r \in Ids : ~Active(r)
  /\ asking' = TRUE
  /\ UNCHANGED <<order, payment, refund, admin, transfers, restocks, restored, vouched>>

\* ... and inserts the row, unless the unique index refuses it.
RequestCreate(r) ==
  /\ asking /\ IsFresh(r)
  /\ IF Admits(r) THEN Insert(r) ELSE UNCHANGED refund
  /\ asking' = FALSE
  /\ UNCHANGED <<order, payment, admin, transfers, restocks, restored, vouched>>

\* handleRefundRequired, handleReconciliationRequired: the first refund of a
\* cancelled order.
EventCreates(r) ==
  /\ order = "cancelled" /\ \A q \in Ids : refund[q].status = "none"
  /\ IsFresh(r) /\ Insert(r)
  /\ UNCHANGED <<order, payment, asking, admin, transfers, restocks, restored, vouched>>

\* updateOrderStatus from 'delivered' to 'refunded' by an admin.
AdminMarksRefunded ==
  /\ order = "delivered"
  /\ order' = "refunded"
  /\ UNCHANGED <<payment, refund, asking, admin, transfers, restocks, restored, vouched>>

-----------------------------------------------------------------------------
(* processRefund *)

Accepted == {t \in Transfers : transfers[t].state # "none"}
NextTransfer == Cardinality(Accepted) + 1

IsOnline == payment.online /\ ~payment.refunded

\* The reference processRefund goes on with.
LocalRef(r, status, given) ==
  IF given # NoRef THEN given
  ELSE IF refund[r].ref = NoRef /\ ~IsOnline /\ status = "processed" THEN ManualRef
  ELSE refund[r].ref

\* What the request does after its reads, by the status asked for.
FirstStep(status, ref) ==
  IF status \in {"approved", "rejected"} THEN "decide"
  ELSE IF IsOnline /\ status = "processed" /\ ref = NoRef THEN "claim"
  ELSE "settle"

\* The reads before any lock, of the refund and of its payment.  A reference
\* given with the request comes from its admin, or from a confirmed inquiry.
Start(a, r, status, given, source) ==
  /\ refund[r].status \notin Closed \cup {"none"}
  /\ refund[r].status = "processing" => given # NoRef
  /\ LET ref == LocalRef(r, status, given) IN
       admin' = [admin EXCEPT ![a] = [pc |-> FirstStep(status, ref), refund |-> r,
                   status |-> status, ref |-> ref, source |-> source]]
  /\ UNCHANGED <<order, payment, refund, asking, transfers, restocks, restored, vouched>>

\* An admin types any reference, or none: nothing compares it with what the
\* gateway gave for this refund, or whether that was paid.
AdminStarts(a, r, status) ==
  /\ admin[a].pc = "idle"
  /\ \E typed \in {NoRef, ManualRef} \cup Accepted :
       Start(a, r, status, typed, IF typed = NoRef THEN "none" ELSE "admin")

\* Approval or rejection, with all three rows locked.
Decide(a) ==
  LET r == admin[a].refund IN
  /\ admin[a].pc = "decide"
  /\ refund' = IF refund[r].status \in Closed THEN refund
               ELSE [refund EXCEPT ![r] = [status |-> admin[a].status,
                       ref |-> IF admin[a].source = "none" THEN @.ref ELSE admin[a].ref]]
  /\ Leave(a)
  /\ UNCHANGED <<order, payment, asking, transfers, restocks, restored, vouched>>

\* The check of the claim on the locked refund.
MayClaim_InFlight(r) == refund[r].status \notin Closed
MayClaim(r) == refund[r].status \notin Closed \cup {"processing"}

\* The atomic claim before the gateway is called.
Claim(a) ==
  LET r == admin[a].refund IN
  /\ admin[a].pc = "claim"
  /\ IF MayClaim(r)
     THEN refund' = [refund EXCEPT ![r].status = "processing"] /\ Goto(a, "call")
     ELSE UNCHANGED refund /\ Leave(a)
  /\ UNCHANGED <<order, payment, asking, transfers, restocks, restored, vouched>>

\* initiateRefund calls the gateway.  An accepted refund is answered with its
\* reference, with none ("failed"), or not in time ("unknown").
CallAccepted(a) ==
  /\ admin[a].pc = "call" /\ ~payment.refunded
  /\ NextTransfer \in Transfers
  /\ transfers' = [transfers EXCEPT ![NextTransfer] =
                     [refund |-> admin[a].refund, state |-> "processing"]]
  /\ \/ admin' = [admin EXCEPT ![a].pc = "initiated", ![a].ref = NextTransfer]
     \/ Goto(a, "failed")
     \/ Goto(a, "unknown")
  /\ UNCHANGED <<order, payment, refund, asking, restocks, restored, vouched>>

\* The gateway refuses, or the call throws or times out with no refund made.
CallFails(a) ==
  /\ admin[a].pc = "call"
  /\ Goto(a, "unknown") \/ (~payment.refunded /\ Goto(a, "failed"))
  /\ UNCHANGED <<order, payment, refund, asking, transfers, restocks, restored, vouched>>

\* The status that an answer of the gateway gives the refund.
Outcome(answer) == IF answer = "failed" THEN "rejected" ELSE "processing"

\* The outcome of a call or of an inquiry is written to the row, whatever it
\* holds by now.
WriteOutcome(a) ==
  LET r == admin[a].refund
      ref == IF admin[a].pc = "initiated" THEN admin[a].ref ELSE refund[r].ref
  IN
  /\ admin[a].pc \in {"initiated", "unknown", "failed", "unresolved"}
  /\ Overwrite(r, [status |-> Outcome(admin[a].pc), ref |-> ref])
  /\ Leave(a)
  /\ UNCHANGED <<order, payment, asking, transfers, restocks, restored, vouched>>

\* May the settlement go on, with the three rows locked?
MaySettle(a) ==
  LET r == admin[a].refund IN
  /\ refund[r].status \notin Closed
  /\ refund[r].status = "processing" => admin[a].source # "none"

\* hasOrderBeenRestocked, hasRefundBeenRestocked.
RestockedFor(x) == \E i \in 1..Len(restocks) : restocks[i] = x

\* The goods were not put back by a cancellation or for this refund.
Restocks_Order(r) == order # "cancelled" /\ ~RestockedFor(TheOrder)
Restocks(r) == order # "cancelled" /\ ~RestockedFor(TheOrder) /\ ~RestockedFor(r)

\* refundPoints, unless the order has its points back.
PointsDue == restored = 0

\* The settlement: one transaction.
Settle(a) ==
  LET r == admin[a].refund IN
  /\ admin[a].pc = "settle"
  /\ IF MaySettle(a)
     THEN /\ payment' = [payment EXCEPT !.refunded = TRUE]
          /\ order' = "refunded"
          /\ restocks' = IF Restocks(r) THEN Append(restocks, r) ELSE restocks
          /\ restored' = IF PointsDue THEN restored + 1 ELSE restored
          /\ vouched' = (vouched \/ admin[a].source = "admin")
          /\ refund' = [refund EXCEPT ![r] = [status |-> "processed",
                          ref |-> IF admin[a].ref # NoRef THEN admin[a].ref ELSE @.ref]]
     ELSE UNCHANGED <<order, payment, refund, restocks, restored, vouched>>
  /\ Leave(a)
  /\ UNCHANGED <<asking, transfers>>

-----------------------------------------------------------------------------
(* reconcileRefund and the gateway *)

\* The refund is read without a lock; it must have a reference.
ReconcileRead(a, r) ==
  /\ admin[a].pc = "idle"
  /\ refund[r].status \notin {"none", "processed"} /\ refund[r].ref # NoRef
  /\ admin' = [admin EXCEPT ![a] = [Idle EXCEPT !.pc = "inquire", !.refund = r, !.ref = refund[r].ref]]
  /\ UNCHANGED <<order, payment, refund, asking, transfers, restocks, restored, vouched>>

\* Only 'refunded' is final for an inquiry.
Confirms_Accepted(t) == transfers[t].state \in {"processing", "refunded"}
Confirms(t) == transfers[t].state = "refunded"

\* queryRefundStatus: settled, cancelled, or anything else.
Inquire(a) ==
  LET t == admin[a].ref IN
  /\ admin[a].pc = "inquire"
  /\ \/ Goto(a, "unresolved")
     \/ t \in Transfers /\ Confirms(t) /\ Goto(a, "confirmed")
     \/ t \in Transfers /\ transfers[t].state = "cancelled" /\ Goto(a, "failed")
  /\ UNCHANGED <<order, payment, refund, asking, transfers, restocks, restored, vouched>>

\* A confirmed refund goes through processRefund with its reference, or is
\* closed by now.
SettleConfirmed(a) ==
  LET r == admin[a].refund IN
  /\ admin[a].pc = "confirmed"
  /\ IF refund[r].status \in Closed
     THEN /\ Leave(a)
          /\ UNCHANGED <<order, payment, refund, asking, transfers, restocks, restored, vouched>>
     ELSE Start(a, r, "processed", admin[a].ref, "gateway")

\* The gateway settles or cancels a refund it has accepted.
GatewayDecides(t, state) ==
  /\ transfers[t].state = "processing"
  /\ transfers' = [transfers EXCEPT ![t].state = state]
  /\ UNCHANGED <<order, payment, refund, asking, admin, restocks, restored, vouched>>

\* The process dies, or a statement of the request fails.
Crash(a) ==
  /\ admin[a].pc # "idle"
  /\ Leave(a)
  /\ UNCHANGED <<order, payment, refund, asking, transfers, restocks, restored, vouched>>

Next ==
  \/ RequestRead \/ AdminMarksRefunded
  \/ \E r \in Ids : RequestCreate(r) \/ EventCreates(r)
  \/ \E a \in Admins :
       \/ \E r \in Ids : ReconcileRead(a, r) \/ \E s \in Statuses : AdminStarts(a, r, s)
       \/ Decide(a) \/ Claim(a) \/ CallAccepted(a) \/ CallFails(a) \/ WriteOutcome(a)
       \/ Settle(a) \/ Inquire(a) \/ SettleConfirmed(a) \/ Crash(a)
  \/ \E t \in Transfers, state \in {"refunded", "cancelled"} : GatewayDecides(t, state)

Spec == Init /\ [][Next]_vars
-----------------------------------------------------------------------------
(* Properties *)

\* Rows, requests and the gateway's refunds have their types.
TypeOK ==
  /\ order \in {"delivered", "cancelled", "refunded"}
  /\ payment \in [online : BOOLEAN, refunded : BOOLEAN]
  /\ refund \in [Ids -> [status : {"none", "requested", "approved", "processing",
                                   "processed", "rejected"}, ref : Refs]]
  /\ asking \in BOOLEAN
  /\ admin \in [Admins -> [pc : {"idle", "decide", "claim", "call", "initiated", "failed", "unknown",
                                 "settle", "inquire", "confirmed", "unresolved"},
                           refund : Ids \cup {0}, ref : Refs,
                           source : {"none", "admin", "gateway"},
                           status : {"approved", "rejected", "processing", "processed"}]]
  /\ transfers \in [Transfers -> [refund : Ids \cup {0},
                                  state : {"none", "processing", "refunded", "cancelled"}]]
  /\ restocks \in Seq(Ids \cup {TheOrder}) /\ restored \in Nat /\ vouched \in BOOLEAN

\* "Exactly one external provider initiation": while a call for a refund is in
\* progress no other is, and none follows one that the gateway has accepted.
OneInitiation ==
  \A r \in Ids :
    Cardinality({a \in Admins : admin[a].pc = "call" /\ admin[a].refund = r})
      + Cardinality({t \in Transfers : transfers[t].refund = r}) <= 1

\* "Stock restored exactly once": the goods of an order come back for its
\* cancellation or for one refund, whatever is settled, overwritten and
\* settled again.
RestockedAtMostOnce == Len(restocks) <= 1

\* Goods that came back for a cancellation are not put back again for a
\* refund, and no refund puts them back twice, although a reconciliation may
\* open a settled refund again and the order is then 'refunded', no longer
\* 'cancelled'.
RestockedOncePerRefund ==
  \A i, j \in 1..Len(restocks) : i # j => restocks[i] # restocks[j] /\ restocks[i] # TheOrder

\* The online payment of an order is refunded only if a transfer to the
\* customer was, or on the word of an admin who typed a reference: no answer
\* that is lost, late or not final settles a refund.
PaidBack == \E t \in Transfers : transfers[t].state = "refunded"
SettledOnConfirmation == payment.online /\ payment.refunded /\ ~vouched => PaidBack

\* "Final settlement occurs exclusively" when the gateway has settled.
SettledByGatewayOnly == payment.online /\ payment.refunded => PaidBack

\* A processed refund stays processed: "duplicate reconciliation returns
\* processed state idempotently".
ProcessedIsFinal ==
  [][\A r \in Ids : refund[r].status = "processed" => refund'[r].status = "processed"]_refund

\* "Cumulative refund amount cannot exceed captured funds": the gateway never
\* pays the whole order back twice.
PaidBackAtMostOnce ==
  Cardinality({t \in Transfers : transfers[t].state \in {"processing", "refunded"}}) <= 1
=============================================================================
