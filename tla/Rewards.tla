------------------------------- MODULE Rewards -------------------------------
(***************************************************************************)
(* The reviews and the loyalty points of one customer (ReviewsService,      *)
(* LoyaltyService).  A review of a delivered item is rewarded with points   *)
(* that expire; checkouts spend points, cancellations and refunds give them *)
(* back for ever.  The ledger only grows and the balance is computed from   *)
(* it with two queries.                                                     *)
(*                                                                          *)
(* A transaction that inserts a review or a ledger row holds a key-share    *)
(* lock on the customer's row (its foreign key) and so waits for a spend,   *)
(* which holds the row FOR UPDATE: apart from the spends, transactions are  *)
(* one action.  That spends of one customer are also serialised by the      *)
(* checkout's advisory lock is in Checkout; LoyaltyService does not rely on *)
(* it.  How a purchase is checked, and texts and ratings, are left out.     *)
(***************************************************************************)
EXTENDS Units

CONSTANTS
  Items,      \* purchases: the canonical order item of an order and a product
  Requests,   \* submissions of reviews in progress
  Orders,     \* orders that spend points
  Admins,
  Rewarded,   \* points of a review: 0, those for a text and those for media
  MaxSpend,   \* bound: points of one order
  MaxSerial   \* bound: reviews and revisions ever written

\* What is assumed of them.
RewardsAssumption ==
  /\ IsFiniteSet(Orders)
  /\ "none" \notin Items \cup Orders   \* None, below
  /\ Rewarded \subseteq Nat /\ 0 \in Rewarded
  /\ MaxSpend \in Nat \ {0} /\ MaxSerial \in Nat \ {0}

VARIABLES
  review,   \* review[i]: the reviews row of the purchase
  serial,   \* the last id or revision written
  request,  \* request[q]: a submission that has passed its checks
  desk,     \* desk[a]: the review an admin has read
  rewards,  \* ledger rows earned_review_*
  spent,    \* spent[o]: ledger row spent_checkout, 0 when there is none
  given,    \* given[o]: ledger row admin_adjustment: the points were given back
  spend,    \* spend[o]: a spendPoints in progress
  lock      \* the spend that holds the customer's row FOR UPDATE

vars == <<review, serial, request, desk, rewards, spent, given, spend, lock>>
reviews == <<review, serial, request, desk>>
points == <<spent, given, spend, lock>>

None == "none"
NoReview == [id |-> 0, revision |-> 0, status |-> "absent", judged |-> 0]
NoRequest == [pc |-> "idle", item |-> None, points |-> 0]
NotRead == [item |-> None, id |-> 0, revision |-> 0]
NoSpend == [pc |-> "idle", points |-> 0, net |-> 0, balance |-> 0]

Init ==
  /\ review = [i \in Items |-> NoReview] /\ serial = 0
  /\ request = [q \in Requests |-> NoRequest]
  /\ desk = [a \in Admins |-> NotRead]
  /\ rewards = {}
  /\ spent = [o \in Orders |-> 0] /\ given = [o \in Orders |-> FALSE]
  /\ spend = [o \in Orders |-> NoSpend] /\ lock = None

-----------------------------------------------------------------------------
(* Reviews *)

\* submitReview: the order is delivered, has the item, and no review is found.
SubmitCheck(q, i, p) ==
  /\ request[q].pc = "idle" /\ review[i].status = "absent"
  /\ request' = [request EXCEPT ![q] = [pc |-> "insert", item |-> i, points |-> p]]
  /\ UNCHANGED <<review, serial, desk, rewards, points>>

\* awardPoints: the purchase has not been rewarded, by a review since deleted
\* or by a concurrent one (the partial unique index on reference_id).
Unrewarded_Review(i, id) == \A r \in rewards : r.id # id
Unrewarded(i, id) == \A r \in rewards : r.item # i

\* submitReview: the transaction, with the reward.
SubmitInsert(q) ==
  LET i == request[q].item
      id == serial + 1
      earned == request[q].points > 0 /\ Unrewarded(i, id)
  IN /\ request[q].pc = "insert" /\ lock = None
     /\ review[i].status = "absent" /\ serial < MaxSerial
     /\ serial' = id
     /\ review' = [review EXCEPT ![i] =
                     [id |-> id, revision |-> id, status |-> "pending", judged |-> 0]]
     /\ rewards' = IF earned
                   THEN rewards \cup {[item |-> i, id |-> id, points |-> request[q].points,
                                       expired |-> FALSE]}
                   ELSE rewards
     /\ request' = [request EXCEPT ![q] = NoRequest]
     /\ UNCHANGED <<desk, points>>

\* idx_unique_review_per_purchase, or a failure: the transaction rolls back.
SubmitFails(q) ==
  /\ request[q].pc = "insert"
  /\ request' = [request EXCEPT ![q] = NoRequest]
  /\ UNCHANGED <<review, serial, desk, rewards, points>>

\* updateCustomerReview.
Edit(i) ==
  /\ review[i].status # "absent" /\ serial < MaxSerial
  /\ serial' = serial + 1
  /\ review' = [review EXCEPT ![i].revision = serial + 1, ![i].status = "pending"]
  /\ UNCHANGED <<request, desk, rewards, points>>

Removed(r) == NoReview

\* deleteCustomerReview, deleteReview: the ledger is left alone.
Delete(i) ==
  /\ review[i].status # "absent"
  /\ review' = [review EXCEPT ![i] = Removed(review[i])]
  /\ UNCHANGED <<serial, request, desk, rewards, points>>

\* getAllForAdmin.
AdminReads(a, i) ==
  /\ review[i].status # "absent"
  /\ desk' = [desk EXCEPT ![a] =
                [item |-> i, id |-> review[i].id, revision |-> review[i].revision]]
  /\ UNCHANGED <<review, serial, request, rewards, points>>

\* updateReviewStatus, by the id of the review.
Judge(a, status) ==
  LET i == desk[a].item
  IN /\ i \in Items /\ review[i].id = desk[a].id
     /\ review' = [review EXCEPT ![i].status = status, ![i].judged = desk[a].revision]
     /\ desk' = [desk EXCEPT ![a] = NotRead]
     /\ UNCHANGED <<serial, request, rewards, points>>

-----------------------------------------------------------------------------
(* Points *)

Earned(rows) == Total(rows, [r \in rows |-> r.points])
TotalSpent == Total(Orders, spent)
GivenBack == {o \in Orders : given[o]}
TotalGiven == Total(GivenBack, spent)

\* getAvailableBalance: the sum of all rows, that of the positive ones still
\* valid, and what it makes of them.
Net == Earned(rewards) + TotalGiven - TotalSpent
Valid == Earned({r \in rewards : ~r.expired}) + TotalGiven
Available(net, valid) ==
  IF net <= 0 THEN 0 ELSE IF valid < net THEN valid ELSE net
Balance == Available(Net, Valid)

\* spendPoints within a transaction: lockUserForLoyalty.
RowFree_Any == TRUE
RowFree == lock = None
SpendLock(o, n) ==
  /\ spend[o].pc = "idle" /\ spent[o] = 0 /\ RowFree
  /\ lock' = o
  /\ spend' = [spend EXCEPT ![o] = [pc |-> "net", points |-> n, net |-> 0, balance |-> 0]]
  /\ UNCHANGED <<reviews, rewards, spent, given>>

\* The first query of the balance.
SpendReadNet(o) ==
  /\ spend[o].pc = "net"
  /\ spend' = [spend EXCEPT ![o].pc = "valid", ![o].net = Net]
  /\ UNCHANGED <<reviews, rewards, spent, given, lock>>

\* The second one, and the check of the balance.
SpendReadValid(o) ==
  LET balance == Available(spend[o].net, Valid)
  IN /\ spend[o].pc = "valid" /\ balance >= spend[o].points
     /\ spend' = [spend EXCEPT ![o].pc = "commit", ![o].balance = balance]
     /\ UNCHANGED <<reviews, rewards, spent, given, lock>>

SpendCommit(o) ==
  /\ spend[o].pc = "commit"
  /\ spent' = [spent EXCEPT ![o] = spend[o].points]
  /\ spend' = [spend EXCEPT ![o] = NoSpend] /\ lock' = None
  /\ UNCHANGED <<reviews, rewards, given>>

\* Insufficient points, or the checkout fails at any step.
SpendRollback(o) ==
  /\ spend[o].pc # "idle"
  /\ spend' = [spend EXCEPT ![o] = NoSpend] /\ lock' = None
  /\ UNCHANGED <<reviews, rewards, spent, given>>

\* refundPoints: not refunded yet; its callers hold the lock of the order.
Unrefunded(o) == ~given[o]
GiveBack(o) ==
  /\ spent[o] > 0 /\ Unrefunded(o) /\ lock = None
  /\ given' = [given EXCEPT ![o] = TRUE]
  /\ UNCHANGED <<reviews, rewards, spent, spend, lock>>

\* valid_until passes.
Expire(r) ==
  /\ r \in rewards /\ ~r.expired
  /\ rewards' = (rewards \ {r}) \cup {[r EXCEPT !.expired = TRUE]}
  /\ UNCHANGED <<reviews, points>>

Next ==
  \/ \E q \in Requests : \/ \E i \in Items, p \in Rewarded : SubmitCheck(q, i, p)
                         \/ SubmitInsert(q) \/ SubmitFails(q)
  \/ \E i \in Items : Edit(i) \/ Delete(i) \/ \E a \in Admins : AdminReads(a, i)
  \/ \E a \in Admins, status \in {"pending", "approved", "rejected"} : Judge(a, status)
  \/ \E o \in Orders : \/ \E n \in 1..MaxSpend : SpendLock(o, n)
                       \/ SpendReadNet(o) \/ SpendReadValid(o)
                       \/ SpendCommit(o) \/ SpendRollback(o) \/ GiveBack(o)
  \/ \E r \in rewards : Expire(r)

Spec == Init /\ [][Next]_vars

-----------------------------------------------------------------------------
(* Properties *)

Serials == 0..MaxSerial

\* Every variable has its type (schema/reviews.ts, schema/loyalty.ts).
TypeOK ==
  /\ review \in [Items -> [id : Serials, revision : Serials, judged : Serials,
                           status : {"absent", "pending", "approved", "rejected"}]]
  /\ serial \in Serials
  /\ request \in [Requests -> [pc : {"idle", "insert"}, item : Items \cup {None},
                               points : Rewarded]]
  /\ desk \in [Admins -> [item : Items \cup {None}, id : Serials, revision : Serials]]
  /\ rewards \subseteq [item : Items, id : Serials, points : Rewarded, expired : BOOLEAN]
  /\ spent \in [Orders -> 0..MaxSpend] /\ given \in [Orders -> BOOLEAN]
  /\ spend \in [Orders -> [pc : {"idle", "net", "valid", "commit"}, points : 0..MaxSpend,
                           net : Int, balance : Nat]]
  /\ lock \in Orders \cup {None}

\* A purchase is rewarded once, however often its review is deleted and written
\* again or submitted twice at once (submitReview, awardPoints).
RewardedOnce == \A r, s \in rewards : r.item = s.item => r = s

\* No more points are spent than were given, whatever expires between the two
\* queries of a balance (spendPoints).
NotOverspent == Net >= 0

\* A spend is deducted from the balance it was checked against: no more is left
\* than the rest (loyalty.service.ts:97, "they are an immediate deduction").
SpendIsADeduction ==
  [][\A o \in Orders :
       SpendCommit(o) => Balance' <= spend[o].balance - spend[o].points]_vars

\* What is published has been read by the admin who approved it
\* (reviews.service.ts:105, "Requires admin approval").
ApprovedWasRead ==
  \A i \in Items : review[i].status = "approved" => review[i].judged = review[i].revision
=============================================================================
