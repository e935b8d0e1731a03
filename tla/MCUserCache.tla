----------------------------- MODULE MCUserCache -----------------------------
(***************************************************************************)
(* Instances of UserCache.                                                  *)
(***************************************************************************)
EXTENDS UserCache

ASSUME UserCacheAssumption
=============================================================================
