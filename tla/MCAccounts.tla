----------------------------- MODULE MCAccounts ------------------------------
(***************************************************************************)
(* An account, the browser session that is signed in to it and the cached   *)
(* copy of its row: three components that are modelled apart and share no   *)
(* state here, checked by one run.  A behaviour is one of Accounts, of      *)
(* WebSession or of UserCache, chosen by the initial state.                 *)
(***************************************************************************)
EXTENDS Accounts, TLC

CONSTANTS
  Windows, Http, TabOf, Calls, HttpOf, Uploads, Staff, MaxTokens, MaxExpired,
  Readers, Null, MaxVersion, MaxClock, MaxGen

VARIABLES
  part,
  web, tokens, access, refresh, stored, pages, call, busy, expired, rotatedBy, ended, lost,
  db, clock, gen, tombstone, cache, reader, writer, invalidated, mishaps

Web == INSTANCE WebSession WITH Tabs <- Windows, session <- web, issued <- tokens, tab <- pages
Cache == INSTANCE UserCache WITH Writers <- Requests, settled <- invalidated

ASSUME WebAndCacheAssumption == Web!WebSessionAssumption /\ Cache!UserCacheAssumption

browsing == <<web, tokens, access, refresh, stored, pages, call, busy, expired,
              rotatedBy, ended, lost>>
caching == <<db, clock, gen, tombstone, cache, reader, writer, invalidated, mishaps>>

MCInit ==
  /\ part \in {"account", "session", "cache"}
  /\ Init /\ Web!Init /\ Cache!Init

MCNext ==
  \/ part = "account" /\ Next /\ UNCHANGED <<part, browsing, caching>>
  \/ part = "session" /\ Web!Next /\ UNCHANGED <<part, vars, caching>>
  \/ part = "cache" /\ Cache!Next /\ UNCHANGED <<part, vars, browsing>>

MCSpec == MCInit /\ [][MCNext]_<<part, vars, browsing, caching>>

\* WebSession: one instance with two calls in one tab, another in the other.
TwoInOne == [h \in Http |-> IF h = "h1" THEN "w1" ELSE "w2"]
ThreeCalls == [c \in Calls |-> IF c = "c3" THEN "h2" ELSE "h1"]

\* Accounts: two codes are enough, one that replaces another.
TwoCodes == Len(issued) <= 2

\* Each part by its own variables: the others keep their initial values.
Visible ==
  CASE part = "account" -> <<part, vars>>
    [] part = "session" -> <<part, browsing>>
    [] part = "cache" -> <<part, caching>>

\* Requests are interchangeable, on the account and as changes of its row.
Symmetry == Permutations(Requests)

-----------------------------------------------------------------------------

\* No instance of HttpClient is denied because of a refresh of its own (WebSession).
DeniedForAReason == Web!DeniedForAReason

\* Once a change has been invalidated, no older copy is served, unless something
\* befell the keys (UserCache).
CurrentWithoutMishap == Cache!CurrentWithoutMishap
=============================================================================
