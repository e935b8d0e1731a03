------------------------- MODULE MCCourierDispatch --------------------------
(* A finite instance of CourierDispatch. *)
EXTENDS CourierDispatch, TLC

CONSTANTS w1, w2, a1, a2

TwoWorkers == {w1, w2}
TwoAdmins == {a1, a2}
TwoEvents == 1..2

ActorSymmetry == Permutations(TwoWorkers) \cup Permutations(TwoAdmins)

\* States that differ in what the courier was told of a shipment, or in whether the
\* customer was written to, are one: no guard and no checked property reads that.
Dispatch == <<order, event, worker, {<<p.id, p.refused>> : p \in parcels}, rejected, desk,
              reconciled, overrun>>

\* Reconciliation is explored with one event, two events without it.
OneCase == event[2].status # "absent" => reconciled = {} /\ \A a \in Admins : desk[a] = NoEvent
=============================================================================
