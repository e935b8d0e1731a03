------------------------------ MODULE Storefront ------------------------------
(***************************************************************************)
(* The tabs of one signed-in customer: the cart store of every tab, the     *)
(* messages that synchronise them (cartSync over BroadcastChannel and       *)
(* localStorage), and the checkout page.  The server is one cart row and    *)
(* the orders made from it; Checkout has its detail.  What a handler does   *)
(* between two awaits is one step of a thread of its tab.                   *)
(***************************************************************************)
EXTENDS Integers, Sequences, FiniteSets

CONSTANTS
  Tabs,
  Threads,     \* handlers a tab may have in progress at the same time
  MaxUnits,    \* bound: units in the cart (the subtotal counts them)
  MaxRequests, \* bound: things the customer does
  MaxMessages, \* bound: messages broadcast
  MaxKeys      \* bound: idempotency keys made

ASSUME StorefrontAssumption ==
  /\ MaxUnits \in Nat \ {0} /\ MaxRequests \in Nat /\ MaxMessages \in Nat /\ MaxKeys \in Nat

VARIABLES
  cart,     \* units in the customer's cart on the server
  orders,   \* orders[k]: the order made under key k, or NoOrder
  tab,      \* tab[t]: store and page of the tab
  thread,   \* thread[t][k]: a handler in progress
  sent,     \* messages broadcast so far: their places are the timestamps
  last,     \* last[t]: lastProcessedTimestamp
  asked,    \* things done so far
  keys,     \* keys made so far
  misled    \* history: misled[t]: t missed a change for a reason the store cannot see

vars == <<cart, orders, tab, thread, sent, last, asked, keys, misled>>
server == <<cart, orders>>
channel == <<sent, last>>

Changes == {"add", "set", "remove", "clear"}
Methods == {"cod", "gateway"}  \* of payment
NoOrder == [units |-> 0, by |-> 0, form |-> 0]
Idle == [pc |-> "idle", kind |-> "none", value |-> 0, current |-> FALSE, mount |-> 0, form |-> 0]
\* The store: what it shows, the promo code with the subtotal its discount is of,
\* and isLoading.  The page: its name and number, isProcessing and the form.
NewTab == [shown |-> 1, promo |-> FALSE, discountOf |-> 0, loading |-> FALSE,
           page |-> "shop", mount |-> 0, processing |-> FALSE, form |-> 0]

\* One unit has been put in the cart, and every tab shows it.
Init ==
  /\ cart = 1 /\ orders = [k \in 1..MaxKeys |-> NoOrder]
  /\ tab = [t \in Tabs |-> NewTab]
  /\ thread = [t \in Tabs |-> [k \in Threads |-> Idle]]
  /\ sent = <<>> /\ last = [t \in Tabs |-> 0] /\ asked = 0 /\ keys = 0
  /\ misled = [t \in Tabs |-> FALSE]

-----------------------------------------------------------------------------
(* cartSync *)

\* broadcast, through the channel and once more through localStorage: a message
\* may come again at any time after it has come.
Broadcast(t, kind) ==
  /\ Len(sent) < MaxMessages
  /\ sent' = Append(sent, [kind |-> kind, by |-> t])
  /\ UNCHANGED last
Pending(t) == {at \in (last[t] + 1)..Len(sent) : sent[at].by # t}

-----------------------------------------------------------------------------
(* The cart store *)

\* The customer does something that tab t handles in its thread k.
Doing(t, k) == thread[t][k].pc = "idle" /\ asked < MaxRequests /\ asked' = asked + 1

\* resetCart: the fetches in progress are outdated.
Outdated(t) == [k \in Threads |-> [thread[t][k] EXCEPT !.current = FALSE]]
EmptyCart(t) == [tab[t] EXCEPT !.shown = 0, !.promo = FALSE, !.discountOf = 0, !.loading = FALSE]

\* fetchCart, up to its request: it outdates the fetches before it.
Fetch(kind) == [Idle EXCEPT !.pc = "get", !.kind = kind, !.current = TRUE]
Announced == {"add", "set", "remove"}
StartFetch(t, k, kind) == thread' = [thread EXCEPT ![t] = [Outdated(t) EXCEPT ![k] = Fetch(kind)]]

\* A handler of a page calls the store: a product is added from its page, the
\* rest is done on the cart page.  The buttons are disabled while it loads.
Units(t, kind) ==
  IF kind = "set" THEN {tab[t].shown - 1, tab[t].shown + 1} \cap 1..MaxUnits ELSE {0}
Ask(t, k, kind, units) ==
  /\ Doing(t, k) /\ ~tab[t].loading /\ tab[t].page = "shop"
  /\ kind # "add" => tab[t].shown > 0
  /\ units \in Units(t, kind)
  /\ thread' = [thread EXCEPT ![t][k] = [Idle EXCEPT !.pc = "send", !.kind = kind, !.value = units]]
  /\ tab' = [tab EXCEPT ![t].loading = TRUE]
  /\ UNCHANGED <<server, channel, keys, misled>>

\* The server carries it out.
Changed(kind, units) ==
  CASE kind = "add" -> cart + 1 [] kind = "set" -> units [] OTHER -> 0
Carry(t, k) ==
  LET r == thread[t][k] IN
  /\ r.pc = "send" /\ r.kind \in Changes
  /\ r.kind \in {"set", "remove"} => cart > 0
  /\ Changed(r.kind, r.value) \in 0..MaxUnits
  /\ cart' = Changed(r.kind, r.value)
  /\ thread' = [thread EXCEPT ![t][k].pc = "done"]
  /\ UNCHANGED <<orders, tab, channel, asked, keys, misled>>

\* addItem, removeItem, updateQuantity: fetch, then tell the other tabs.
Succeed(t, k) ==
  /\ thread[t][k].pc = "done" /\ thread[t][k].kind \in Announced
  /\ StartFetch(t, k, "change")
  /\ tab' = [tab EXCEPT ![t].loading = TRUE]
  /\ misled' = [misled EXCEPT ![t] = FALSE]
  /\ UNCHANGED <<server, channel, asked, keys>>

\* clearCart resets the store without a fetch.
Cleared(t, k) ==
  /\ thread[t][k].pc = "done" /\ thread[t][k].kind = "clear"
  /\ tab' = [tab EXCEPT ![t] = EmptyCart(t)]
  /\ thread' = [thread EXCEPT ![t] = [Outdated(t) EXCEPT ![k] = Idle]]
  /\ Broadcast(t, "CART_CLEARED")
  /\ misled' = [misled EXCEPT ![t] = cart # 0]
  /\ UNCHANGED <<server, asked, keys>>

\* The server refuses (an item no longer in the cart, stock), or the request or
\* the answer is lost: updateQuantity fetches the cart of the
\* server, the others only show an error.
Fail(t, k) ==
  LET r == thread[t][k] IN
  /\ r.pc \in {"send", "done"} /\ r.kind \in Changes
  /\ LET m == [u \in Tabs |-> misled[u] \/ r.pc = "done"] IN
     IF r.kind = "set"
     THEN /\ StartFetch(t, k, "load") /\ tab' = [tab EXCEPT ![t].loading = TRUE]
          /\ misled' = [m EXCEPT ![t] = FALSE]
     ELSE /\ thread' = [thread EXCEPT ![t][k] = Idle] /\ tab' = [tab EXCEPT ![t].loading = FALSE]
          /\ misled' = m
  /\ UNCHANGED <<server, channel, asked, keys>>

\* A fetch: initializeSync and CartSyncProvider (silent), the cart page, the
\* success page.  A focus fetches when the last synchronisation is 15 seconds old.
Load(t, k, silent) ==
  /\ thread[t][k].pc = "idle"
  /\ StartFetch(t, k, "load")
  /\ tab' = [tab EXCEPT ![t].loading = ~silent]
  /\ misled' = [misled EXCEPT ![t] = FALSE]

\* By then what the tab was doing is over.
Focus(t, k) ==
  /\ \A j \in Threads : thread[t][j].pc = "idle"
  /\ Doing(t, k) /\ Load(t, k, TRUE)
  /\ UNCHANGED <<server, channel, keys>>

GetCart(t, k) ==
  /\ thread[t][k].pc = "get"
  /\ thread' = [thread EXCEPT ![t][k].pc = "got", ![t][k].value = cart]
  /\ UNCHANGED <<server, tab, channel, asked, keys, misled>>

\* The rest of fetchCart: an answer that a later fetch or a reset overtook is
\* dropped.  A promo code is validated again for the new subtotal.
Accepted_Any(r) == TRUE
Accepted(r) == r.current
Show(t, units) ==
  IF units > 0 THEN [tab[t] EXCEPT !.shown = units]
  ELSE [tab[t] EXCEPT !.shown = 0, !.promo = FALSE, !.discountOf = 0]
Announce(t, kind) ==
  IF kind = "change" THEN Broadcast(t, "CART_UPDATED") ELSE UNCHANGED channel
GotCart(t, k) ==
  LET r == thread[t][k] IN
  /\ r.pc = "got"
  /\ IF Accepted(r)
     THEN /\ tab' = [tab EXCEPT ![t] = [Show(t, r.value) EXCEPT !.loading = FALSE]]
          /\ thread' = [thread EXCEPT ![t][k] =
               IF r.value > 0 /\ tab[t].promo
               THEN [Idle EXCEPT !.pc = "validate", !.kind = "again", !.value = r.value]
               ELSE Idle]
     ELSE /\ tab' = [tab EXCEPT ![t].loading = IF r.kind = "change" THEN FALSE ELSE @]
          /\ thread' = [thread EXCEPT ![t][k] = Idle]
  /\ Announce(t, r.kind)
  /\ UNCHANGED <<server, asked, keys, misled>>

\* The fetch failed; fetchCart does not throw, and the change is still announced.
LoseCart(t, k) ==
  LET r == thread[t][k] IN
  /\ r.pc = "get"
  /\ tab' = [tab EXCEPT ![t].loading = IF r.current \/ r.kind = "change" THEN FALSE ELSE @]
  /\ thread' = [thread EXCEPT ![t][k] = Idle]
  /\ Announce(t, r.kind)
  /\ misled' = [misled EXCEPT ![t] = @ \/ r.current]
  /\ UNCHANGED <<server, asked, keys>>

\* applyPromo validates the code for the subtotal shown.
ApplyPromo(t, k) ==
  /\ Doing(t, k)
  /\ tab[t].page = "shop" /\ ~tab[t].loading /\ ~tab[t].promo /\ tab[t].shown > 0
  /\ thread' = [thread EXCEPT ![t][k] =
       [Idle EXCEPT !.pc = "validate", !.kind = "promo", !.value = tab[t].shown]]
  /\ tab' = [tab EXCEPT ![t].loading = TRUE]
  /\ UNCHANGED <<server, channel, keys, misled>>

\* Whatever happened meanwhile, the answer is what the store shows.
Validated(t, k) ==
  LET r == thread[t][k] IN
  /\ r.pc = "validate"
  /\ \/ /\ tab' = [tab EXCEPT ![t].promo = TRUE, ![t].discountOf = r.value, ![t].loading = FALSE]
        /\ IF r.kind = "promo" THEN Broadcast(t, "CART_UPDATED") ELSE UNCHANGED channel
     \/ /\ tab' = [tab EXCEPT ![t].promo = FALSE, ![t].discountOf = 0, ![t].loading = FALSE]
        /\ UNCHANGED channel
  /\ thread' = [thread EXCEPT ![t][k] = Idle]
  /\ UNCHANGED <<server, asked, keys, misled>>

RemovePromo(t) ==
  /\ tab[t].promo /\ tab[t].page = "shop" /\ ~tab[t].loading
  /\ tab' = [tab EXCEPT ![t].promo = FALSE, ![t].discountOf = 0]
  /\ Broadcast(t, "CART_UPDATED")
  /\ UNCHANGED <<server, thread, asked, keys, misled>>

\* handleIncomingAction drops the tab's own messages and what is not newer than
\* the last; a newer one makes the store fetch or reset (initializeSync).
Stale(t, at) == at <= last[t]
Receive(t, at, k) ==
  /\ at \in DOMAIN sent /\ sent[at].by # t
  /\ \A n \in Pending(t) : n >= at
  /\ ~Stale(t, at)
  /\ last' = [last EXCEPT ![t] = at]
  /\ IF sent[at].kind = "CART_UPDATED" THEN Load(t, k, TRUE)
     ELSE /\ tab' = [tab EXCEPT ![t] = EmptyCart(t)]
          /\ thread' = [thread EXCEPT ![t] = Outdated(t)]
          /\ misled' = [misled EXCEPT ![t] = cart # 0 /\ at > last[t]]
  /\ UNCHANGED <<server, sent, asked, keys>>

-----------------------------------------------------------------------------
(* Pages *)

Leave(t) == [tab[t] EXCEPT !.page = "shop", !.mount = 0, !.processing = FALSE, !.form = 0]

\* An empty cart also sends the checkout page there, while an order is in progress.
OpenCart(t, k) ==
  /\ Doing(t, k)
  /\ StartFetch(t, k, "load")
  /\ tab' = [tab EXCEPT ![t] = [Leave(t) EXCEPT !.loading = TRUE]]
  /\ misled' = [misled EXCEPT ![t] = FALSE]
  /\ UNCHANGED <<server, channel, keys>>

\* The checkout page makes its idempotency key, here its number, when it mounts.
OpenCheckout(t) ==
  /\ tab[t].page = "shop" /\ tab[t].shown > 0 /\ ~tab[t].loading
  /\ keys < MaxKeys /\ keys' = keys + 1
  /\ tab' = [tab EXCEPT ![t] = [tab[t] EXCEPT !.page = "checkout", !.mount = keys + 1]]
  /\ UNCHANGED <<server, thread, channel, asked, misled>>

\* The customer chooses another address, zone, delivery method or the points:
\* what is sent differs from what an order with the key was made of, if any was.
EditForm(t) ==
  /\ tab[t].page = "checkout" /\ ~tab[t].processing /\ tab[t].form = 0
  /\ orders[tab[t].mount] # NoOrder
  /\ tab' = [tab EXCEPT ![t].form = 1]
  /\ UNCHANGED <<server, thread, channel, asked, keys, misled>>

\* handleSubmit.
KeyOf_Fresh(t) == CHOOSE key \in 1..MaxKeys : orders[key] = NoOrder
KeyOf(t) == tab[t].mount
Submit(t, k) ==
  /\ Doing(t, k) /\ tab[t].page = "checkout" /\ ~tab[t].processing
  /\ tab' = [tab EXCEPT ![t].processing = TRUE]
  /\ thread' = [thread EXCEPT ![t][k] =
       [Idle EXCEPT !.pc = "send", !.kind = "order", !.value = KeyOf(t),
          !.mount = tab[t].mount, !.form = tab[t].form]]
  /\ UNCHANGED <<server, channel, keys, misled>>

\* The server repeats its answer for a key, unless the request is another one, or
\* makes the order of the cart, which is then empty.
PlaceOrder(t, k) ==
  LET r == thread[t][k] IN
  /\ r.pc = "send" /\ r.kind = "order"
  /\ \/ /\ orders[r.value] # NoOrder /\ orders[r.value].form = r.form
        /\ UNCHANGED server
     \/ /\ orders[r.value] = NoOrder /\ cart > 0
        /\ orders' = [orders EXCEPT ![r.value] =
             [units |-> cart, by |-> r.mount, form |-> r.form]]
        /\ cart' = 0
  /\ thread' = [thread EXCEPT ![t][k].pc = "done"]
  /\ UNCHANGED <<tab, channel, asked, keys, misled>>

\* The order is made: the tabs are told, and its payment initiated.
Ordered(t, k) ==
  /\ thread[t][k].pc = "done" /\ thread[t][k].kind = "order"
  /\ tab' = [tab EXCEPT ![t] = EmptyCart(t)]
  /\ thread' = [thread EXCEPT ![t] = [Outdated(t) EXCEPT ![k] = [@ EXCEPT !.pc = "pay", !.kind = "pay"]]]
  /\ Broadcast(t, "CART_CLEARED")
  /\ misled' = [misled EXCEPT ![t] = cart # 0]
  /\ UNCHANGED <<server, asked, keys>>

\* Is the page that submitted still open?
SamePage(t, k) == tab[t].mount = thread[t][k].mount

\* A refusal (an unverified phone, an empty cart, another request with the key),
\* or an answer that is lost: the page may submit again, with its key.
OrderFails(t, k) ==
  LET r == thread[t][k] IN
  /\ r.pc \in {"send", "done"} /\ r.kind = "order"
  /\ thread' = [thread EXCEPT ![t][k] = Idle]
  /\ tab' = [tab EXCEPT ![t].processing = @ /\ ~SamePage(t, k)]
  /\ misled' = [u \in Tabs |-> misled[u] \/ r.pc = "done"]
  /\ UNCHANGED <<server, channel, asked, keys>>

\* Cash on delivery ends on the success page, which fetches the cart; a gateway
\* leaves the site, which is loaded anew on return; a failure is shown.
Pay(t, k, method) ==
  /\ thread[t][k].pc = "pay"
  /\ \/ /\ method = "cod"
        /\ StartFetch(t, k, "load") /\ misled' = [misled EXCEPT ![t] = FALSE]
        /\ tab' = [tab EXCEPT ![t] = [Leave(t) EXCEPT !.loading = TRUE]]
     \/ /\ method = "gateway" /\ \A j \in Threads \ {k} : thread[t][j].pc = "idle"
        /\ StartFetch(t, k, "load") /\ misled' = [misled EXCEPT ![t] = FALSE]
        /\ tab' = [tab EXCEPT ![t] = [NewTab EXCEPT !.shown = 0]]
     \/ /\ tab' = [tab EXCEPT ![t].processing = @ /\ ~SamePage(t, k)]
        /\ thread' = [thread EXCEPT ![t][k] = Idle] /\ UNCHANGED misled
  /\ UNCHANGED <<server, channel, asked, keys>>

Next ==
  \E t \in Tabs :
    \/ OpenCheckout(t) \/ EditForm(t) \/ RemovePromo(t)
    \/ \E k \in Threads :
         \/ \E kind \in Changes, n \in 0..MaxUnits : Ask(t, k, kind, n)
         \/ Carry(t, k) \/ Succeed(t, k) \/ Cleared(t, k) \/ Fail(t, k)
         \/ Focus(t, k) \/ GetCart(t, k) \/ GotCart(t, k) \/ LoseCart(t, k)
         \/ ApplyPromo(t, k) \/ Validated(t, k)
         \/ OpenCart(t, k) \/ Submit(t, k) \/ PlaceOrder(t, k) \/ Ordered(t, k)
         \/ OrderFails(t, k) \/ \E method \in Methods : Pay(t, k, method)
         \/ \E at \in DOMAIN sent : Receive(t, at, k)

Spec == Init /\ [][Next]_vars
-----------------------------------------------------------------------------
(* Properties *)

\* Nothing is on its way to any tab, and no tab has a handler in progress.
Quiet == \A t \in Tabs : Pending(t) = {} /\ \A k \in Threads : thread[t][k].pc = "idle"

\* When all is quiet, every tab shows the cart of the server, however requests,
\* their answers and the messages overtook each other (cart-store.ts:70, "Guard
\* against out-of-order API responses", and cart-sync.ts:92, "Discard
\* duplicates"): except a tab whose own fetch failed, a change whose answer was
\* lost, and a clearing that was overtaken by an addition.
QuietTabsAgree == Quiet => \A t \in Tabs : misled[t] \/ tab[t].shown = cart

\* Whatever is retried, and whatever another tab adds meanwhile, one checkout
\* page makes one order (checkout/page.tsx:36, idempotencyKey).
OneOrderPerPage ==
  \A j, k \in 1..MaxKeys : orders[j] # NoOrder /\ orders[k] # NoOrder /\ orders[j].by = orders[k].by => j = k

\* "without trusting copied cart state from another tab: tabs always fetch
\* authoritative state directly from PostgreSQL": what a message makes a tab show
\* is the cart.
MessagesBringTheCart ==
  [][\A t \in Tabs : last'[t] # last[t] => tab'[t].shown \in {tab[t].shown, cart}]_vars

\* The discount shown is the one of the subtotal shown.
DiscountIsCurrent == Quiet => \A t \in Tabs : tab[t].promo => tab[t].discountOf = tab[t].shown
=============================================================================
