------------------------------- MODULE Units --------------------------------
(***************************************************************************)
(* Sums of quantities over the rows of a table, as sets: a row that holds  *)
(* n units is represented by the n pairs (row, 1), ..., (row, n), and the  *)
(* sum of the quantities of some rows is the cardinality of their units.   *)
(***************************************************************************)
EXTENDS Integers, FiniteSets

\* The units of the rows in I, where row i holds n[i] of them.
UnitsOf(I, n) == UNION {{i} \X (1..n[i]) : i \in I}

\* SUM(n) over the rows in I.
Total(I, n) == Cardinality(UnitsOf(I, n))
=============================================================================
