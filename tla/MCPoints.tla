------------------------------ MODULE MCPoints -------------------------------
(***************************************************************************)
(* Where points are earned and where they are spent: two components that    *)
(* are modelled apart and share no state here, checked by one run.  A       *)
(* behaviour is one of Rewards, or of Checkout with one customer, one SKU   *)
(* and one idempotency key, chosen by the initial state.                    *)
(***************************************************************************)
EXTENDS Checkout, TLC

CONSTANTS Items, Admins, Rewarded, MaxSpend, MaxSerial

VARIABLES part, review, serial, request, desk, rewards, spent, given, spend, lock

Reward == INSTANCE Rewards WITH Requests <- Reqs, Orders <- OrderIds

ASSUME PointsAssumption == Reward!RewardsAssumption

rewarding == <<review, serial, request, desk, rewards, spent, given, spend, lock>>

MCInit == part \in {"rewards", "checkout"} /\ Init /\ Reward!Init

MCNext ==
  \/ part = "rewards" /\ Reward!Next /\ UNCHANGED <<part, vars>>
  \/ part = "checkout" /\ Next /\ UNCHANGED <<part, rewarding>>

MCSpec == MCInit /\ [][MCNext]_<<part, vars, rewarding>>

\* What the one customer has at the start.
TwoOfEach == [s \in Skus |-> 2]
OneOfEach == [u \in Users |-> [s \in Skus |-> 1]]
TwoPoints == [u \in Users |-> 2]

\* The revision an admin has read and the balance a spend was checked against are
\* read by no guard and no checked property: states that differ in them are one.
ReviewsSeen == [i \in Items |-> <<review[i].id, review[i].status>>]
DesksSeen == [a \in Admins |-> <<desk[a].item, desk[a].id>>]
SpendsSeen == [o \in OrderIds |-> [spend[o] EXCEPT !.balance = 0]]
Visible ==
  <<part, vars, ReviewsSeen, serial, request, DesksSeen, rewards, spent, given, SpendsSeen, lock>>

\* One set of two values stands for the orders of both components.
Symmetry ==
  Permutations(Reqs) \cup Permutations(OrderIds) \cup Permutations(Items)

-----------------------------------------------------------------------------

\* A purchase is rewarded once (Rewards).
RewardedOnce == Reward!RewardedOnce

\* No more points are spent than were given (Rewards).
NotOverspent == Reward!NotOverspent

\* What the documentation promises and the code does not keep (README).
SpendIsADeduction == Reward!SpendIsADeduction
ApprovedWasRead == Reward!ApprovedWasRead
=============================================================================
