------------------------------ MODULE MCOutbox ------------------------------
(* Finite instances of Outbox. *)
EXTENDS Outbox

CONSTANTS w1, w2

MCEvents == 1..2
MCWorkers == {w1, w2}
=============================================================================
