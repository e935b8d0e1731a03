---------------------------- MODULE CartReminders ----------------------------
(***************************************************************************)
(* The reminder of an abandoned cart: AbandonedCartProcessor, run by every  *)
(* server instance each hour, against the customer's changes of the cart    *)
(* (CartService and CartStore) and a checkout.  One customer; a row of      *)
(* cart_items carries what the processor looks at.                          *)
(***************************************************************************)
EXTENDS Integers, FiniteSets

CONSTANTS
  Items,       \* products the customer may have in the cart
  Instances,   \* server instances, each with its hourly job
  MaxChanges   \* bound: changes the customer makes

VARIABLES
  rows,     \* rows[i]: the cart_items row of product i
  active,   \* products with status active, not deleted
  stocked,  \* products in stock
  job,      \* job[j]: the scan of instance j
  events,   \* SEND_ABANDONED_CART_EMAIL rows of the outbox
  changes,  \* history: changes of the cart by the customer
  early     \* history: an event was queued for a cart that was not idle

vars == <<rows, active, stocked, job, events, changes, early>>

\* sent: abandoned_email_sent; idle: updated_at is older than the idle hours.
NoRow == [there |-> FALSE, sent |-> FALSE, idle |-> FALSE]
Fresh == [there |-> TRUE, sent |-> FALSE, idle |-> FALSE]

NoJob == [pc |-> "idle", claimed |-> {}, idleCart |-> FALSE]

InCart == {i \in Items : rows[i].there}

Init ==
  /\ rows = [i \in Items |-> NoRow]
  /\ active = Items /\ stocked = Items
  /\ job = [j \in Instances |-> NoJob]
  /\ events = 0 /\ changes = 0 /\ early = FALSE

\* No claim in progress holds the lock of the row.
Unlocked(i) == \A j \in Instances : i \notin job[j].claimed

-----------------------------------------------------------------------------
(* The customer *)

Change(new) ==
  /\ changes < MaxChanges
  /\ changes' = changes + 1
  /\ rows' = new
  /\ UNCHANGED <<active, stocked, job, events, early>>

\* addItem: an upsert of the row of a product that can be bought; a conflict
\* adds to the quantity and makes the row fresh again.
AddItem(i) ==
  /\ i \in active \cap stocked /\ Unlocked(i)
  /\ Change([rows EXCEPT ![i] = Fresh])

\* updateItem: the quantity of a row, found first, is overwritten.
UpdateItem(i) ==
  /\ i \in InCart /\ Unlocked(i)
  /\ Change([rows EXCEPT ![i] = Fresh])

\* removeItem.
RemoveItem(i) ==
  /\ i \in InCart /\ Unlocked(i)
  /\ Change([rows EXCEPT ![i] = NoRow])

\* clearCart, or a checkout of the whole cart.
ClearCart ==
  /\ InCart # {} /\ \A i \in InCart : Unlocked(i)
  /\ Change([i \in Items |-> NoRow])

\* The idle hours pass without a change.
HoursPass ==
  /\ \E i \in InCart : ~rows[i].idle
  /\ rows' = [i \in Items |-> [rows[i] EXCEPT !.idle = rows[i].there]]
  /\ UNCHANGED <<active, stocked, job, events, changes, early>>

\* Stock and status of a product change.
Toggle(set, i) == IF i \in set THEN set \ {i} ELSE set \cup {i}
ProductChanges(i) ==
  /\ \/ active' = Toggle(active, i) /\ UNCHANGED stocked
     \/ stocked' = Toggle(stocked, i) /\ UNCHANGED active
  /\ UNCHANGED <<rows, job, events, changes, early>>

-----------------------------------------------------------------------------
(* The job *)

\* The candidate query joins the active products of the cart: all of those
\* rows are idle and none has been notified.
Candidate ==
  LET listed == InCart \cap active IN
  /\ listed # {}
  /\ \A i \in listed : rows[i].idle /\ ~rows[i].sent

Scan(j) ==
  /\ job[j].pc = "idle"
  /\ Candidate
  /\ job' = [job EXCEPT ![j].pc = "claim"]
  /\ UNCHANGED <<rows, active, stocked, events, changes, early>>

\* The rows the UPDATE of the claim matches.
Claimable_Any == InCart
Claimable == {i \in InCart : ~rows[i].sent}

\* The atomic claim, in a transaction: it waits for the locks of its rows.
Claim(j) ==
  /\ job[j].pc = "claim"
  /\ \A i \in Claimable : Unlocked(i)
  /\ job' = [job EXCEPT ![j] =
       IF Claimable = {} THEN NoJob
       ELSE [pc |-> "compose", claimed |-> Claimable,
             idleCart |-> \A i \in InCart : rows[i].idle]]
  /\ UNCHANGED <<rows, active, stocked, events, changes, early>>

\* The details of what can still be bought, the event, and COMMIT.  Without
\* anything to offer the claim is committed and no event is queued.
Notify(j) ==
  LET claimed == job[j].claimed IN
  /\ job[j].pc = "compose"
  /\ rows' = [i \in Items |->
       IF i \in claimed THEN [rows[i] EXCEPT !.sent = TRUE, !.idle = FALSE] ELSE rows[i]]
  /\ IF claimed \cap active \cap stocked # {}
     THEN events' = events + 1 /\ early' = (early \/ ~job[j].idleCart)
     ELSE UNCHANGED <<events, early>>
  /\ job' = [job EXCEPT ![j] = NoJob]
  /\ UNCHANGED <<active, stocked, changes>>

\* An error or a crash: the claim is rolled back, until the next hour.
Abort(j) ==
  /\ job[j].pc # "idle"
  /\ job' = [job EXCEPT ![j] = NoJob]
  /\ UNCHANGED <<rows, active, stocked, events, changes, early>>

Next ==
  \/ \E i \in Items : AddItem(i) \/ UpdateItem(i) \/ RemoveItem(i) \/ ProductChanges(i)
  \/ ClearCart \/ HoursPass
  \/ \E j \in Instances : Scan(j) \/ Claim(j) \/ Notify(j) \/ Abort(j)

Spec == Init /\ [][Next]_vars
-----------------------------------------------------------------------------
(* Properties *)

\* A customer who does nothing is reminded once: whatever instances scan
\* together, crash or repeat, there are never more events than the changes
\* that could have made the cart worth another one.
RemindedOncePerChange == events <= changes

\* "If the user interacted with any cart item recently, the entire cart is
\* active": the claim does not look at the idleness the scan has seen.
OnlyIdleReminded == ~early
=============================================================================
