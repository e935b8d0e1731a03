---------------------------- MODULE MCWebSession -----------------------------
(***************************************************************************)
(* Instances of WebSession.                                                 *)
(***************************************************************************)
EXTENDS WebSession, TLC

CONSTANTS t1, t2, h1, h2, c1, c2, c3

ASSUME WebSessionAssumption

\* One instance with two calls in one tab, another in the other.
TwoInOne == (h1 :> t1) @@ (h2 :> t2)
ThreeCalls == (c1 :> h1) @@ (c2 :> h1) @@ (c3 :> h2)
=============================================================================
