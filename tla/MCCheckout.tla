----------------------------- MODULE MCCheckout ------------------------------
(* Instances of Checkout for TLC. *)
EXTENDS Checkout, TLC

\* Stocks, carts and balances for the configurations.
OneOfEach == [s \in Skus |-> 1]
TwoOfEach == [s \in Skus |-> 2]
CartsWithOneOfEach == [u \in Users |-> OneOfEach]
CartsWithTheFirst == [u \in Users |-> [s \in Skus |-> IF s = 1 THEN 1 ELSE 0]]
NoPoints == [u \in Users |-> 0]

\* Two cancellations are explored together while no checkout is in progress, and
\* one of them together with the checkouts.
Explored == (\E c \in Cancels : cx[c].pc = "idle") \/ (\A r \in Reqs : tx[r].pc = "idle")

\* What the competition for goods depends on: no guard reads the outbox, and none of
\* the properties checked with this view.
Goods == <<stock, cart, promo, points, orders, idem, tx, cx, added, served>>

\* Users, orders, requests and cancellations are interchangeable.
Symmetry == Permutations(Users) \cup Permutations(OrderIds)
              \cup Permutations(Reqs) \cup Permutations(Cancels)
=============================================================================
