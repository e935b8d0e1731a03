----------------------------- MODULE MCPayments ------------------------------
(***************************************************************************)
(* The payments of an order and its refunds: two components that are        *)
(* modelled apart and share no state here, checked by one run.  A behaviour *)
(* is one of OrderPayments or Refunds, chosen by the initial state.         *)
(***************************************************************************)
EXTENDS OrderPayments, TLC

CONSTANTS MaxRefunds, MaxTransfers, Statuses

ASSUME RefundsAssumption ==
  /\ MaxRefunds \in Nat /\ MaxTransfers \in Nat
  /\ Statuses \subseteq {"approved", "rejected", "processing", "processed"}

VARIABLES part, sold, payment, refunds, asking, admin, transfers, restocks, restored, vouched

Refund == INSTANCE Refunds WITH order <- sold, refund <- refunds, Admins <- Starters

refunding == <<sold, payment, refunds, asking, admin, transfers, restocks, restored, vouched>>

MCInit ==
  /\ Init /\ Refund!Init
  /\ \/ part = "payments" /\ sold = "delivered" /\ payment.online
     \/ part = "refunds"

MCNext ==
  \/ part = "payments" /\ Next /\ UNCHANGED <<part, refunding>>
  \/ part = "refunds" /\ Refund!Next /\ UNCHANGED <<part, vars>>

MCSpec == MCInit /\ [][MCNext]_<<part, vars, refunding>>

\* One set of two values stands for the initiations and for the admins.
Symmetry == Permutations(Starters)

\* Once a refund is settled on the word of an admin, the two admins work on a
\* resubmission in turn.
InTurn == vouched /\ refunds[2].status # "none" => \E a \in Starters : admin[a].pc = "idle"

-----------------------------------------------------------------------------

\* A refund is sent to the gateway once (Refunds).
OneInitiation == Refund!OneInitiation

\* An online payment is refunded only if the gateway has settled, or an admin
\* has typed a reference (Refunds).
SettledOnConfirmation == Refund!SettledOnConfirmation

\* Goods come back once per refund, and not after a cancellation (Refunds).
RestockedOncePerRefund == Refund!RestockedOncePerRefund

\* What the documentation promises and the code does not keep (README).
SettledByGatewayOnly == Refund!SettledByGatewayOnly
ProcessedIsFinal == Refund!ProcessedIsFinal
PaidBackAtMostOnce == Refund!PaidBackAtMostOnce
RestockedAtMostOnce == Refund!RestockedAtMostOnce
=============================================================================
