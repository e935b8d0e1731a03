---------------------------- MODULE MCStorefront -----------------------------
(***************************************************************************)
(* Instances of Storefront.                                                 *)
(***************************************************************************)
EXTENDS Storefront, TLC

\* The units of an order, of a discount and of a change that is done are read by no
\* guard and no checked property: states that differ in them are one.
Orders == [k \in 1..MaxKeys |-> [orders[k] EXCEPT !.units = 0]]
Stores == [t \in Tabs |-> [tab[t] EXCEPT !.discountOf = 0]]
Handlers == [t \in Tabs |-> [k \in Threads |->
  IF thread[t][k].pc \in {"validate", "done", "pay"}
  THEN [thread[t][k] EXCEPT !.value = 0] ELSE thread[t][k]]]

\* So are states that differ in messages that have come.
Coming == [t \in Tabs |-> {<<at, sent[at].kind>> : at \in Pending(t)}]
Visible == <<cart, Orders, Stores, Handlers, Len(sent), Coming, asked, keys, misled>>

Symmetry == Permutations(Tabs) \cup Permutations(Threads)
=============================================================================
