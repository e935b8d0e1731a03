---------------------------- MODULE OrderStatus ----------------------------
(***************************************************************************)
(* The order state machine that orders.service.ts, payments.service.ts and *)
(* refunds.service.ts share: the status enumeration, the transitions the   *)
(* admin endpoint allows, and which statuses a cancellation accepts.       *)
(***************************************************************************)

\* The values of orders.status.
OrderStatuses ==
  {"pending", "processing", "shipped", "out_for_delivery", "delivered",
   "cancelled", "refunded"}

\* ORDER_STATE_TRANSITIONS: the statuses an admin may move an order to.
ORDER_STATE_TRANSITIONS ==
  [s \in OrderStatuses |->
     CASE s = "pending"          -> {"processing", "cancelled"}
       [] s = "processing"       -> {"shipped", "cancelled"}
       [] s = "shipped"          -> {"out_for_delivery", "delivered"}
       [] s = "out_for_delivery" -> {"delivered"}
       [] s = "delivered"        -> {"refunded"}
       [] OTHER                  -> {}]

\* cancellableStatuses: what cancelOrderInternal and the conditional UPDATE
\* of transitionOrderStatusForCancellation accept.
CancellableStatuses == {"pending", "processing"}
=============================================================================
