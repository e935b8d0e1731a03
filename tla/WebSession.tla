------------------------------ MODULE WebSession ------------------------------
(***************************************************************************)
(* A browser that is signed in: its two httpOnly cookies, the tabs with     *)
(* their auth stores, and the calls the pages make through instances of     *)
(* HttpClient (every API module has its own).  A call that is answered 401  *)
(* refreshes the session, or waits for the refresh its instance is making,  *)
(* and is then repeated.  The server is seen through Accounts: one session, *)
(* rotated by compare and swap.                                             *)
(***************************************************************************)
EXTENDS Integers, FiniteSets

CONSTANTS
  Tabs,
  Http,        \* instances of HttpClient
  TabOf,       \* TabOf[h]: the tab whose page has h
  Calls,       \* calls in progress
  HttpOf,      \* HttpOf[c]: the instance c goes through
  Uploads,     \* calls with a FormData body, which cannot be repeated
  Staff,       \* does the user have a platform role?
  MaxTokens,   \* bound: sessions begun or rotated
  MaxExpired   \* bound: expiries of the access cookie

None == 0
NoHttp == "none"

WebSessionAssumption ==
  /\ TabOf \in [Http -> Tabs] /\ HttpOf \in [Calls -> Http] /\ Uploads \subseteq Calls
  /\ NoHttp \notin Http /\ Staff \in BOOLEAN
  /\ MaxTokens \in Nat \ {0} /\ MaxExpired \in Nat

VARIABLES
  session,    \* the server's session of the user: a refresh token, or None
  issued,     \* refresh tokens issued so far
  access,     \* does the browser hold a valid access_token?
  refresh,    \* the browser's refresh_token, or None
  stored,     \* auth-storage in localStorage: is there a user?
  tab,        \* tab[t]: the page shown and whether its auth store has a user
  call,       \* call[c]: how far it is, and the token it refreshes with or was given
  busy,       \* busy[h]: isRefreshing
  expired,    \* expiries of the access cookie so far
  rotatedBy,  \* history: rotatedBy[k]: who rotated token k, NoHttp before
  ended,      \* history: tokens that the server ended as a session
  lost        \* history: tokens the server gave in answers that were lost

vars == <<session, issued, access, refresh, stored, tab, call, busy,
          expired, rotatedBy, ended, lost>>
server == <<session, issued, rotatedBy, ended>>
browser == <<access, refresh, stored>>

IdleCall == [pc |-> "idle", token |-> None]
CallsOf(h) == {c \in Calls : HttpOf[c] = h}
TabCalls(t) == {c \in Calls : TabOf[HttpOf[c]] = t}
Granted(C) == {call[c].token : c \in {d \in C : call[d].pc = "granted"}}
Waiting(h) == {c \in CallsOf(h) : call[c].pc = "waiting"}

\* proxy: where a visit of a page ends, by the access cookie the visit carries.
Home == IF Staff THEN "admin" ELSE "dashboard"
Land(page) ==
  IF page = "login" THEN IF access THEN Home ELSE "login"
  ELSE IF page = "shop" THEN "shop"
  ELSE IF ~access THEN "login"
  ELSE IF page = "admin" /\ ~Staff THEN "shop" ELSE page

Init ==
  /\ session = 1 /\ issued = 1 /\ access = TRUE /\ refresh = 1 /\ stored = TRUE
  /\ tab = [t \in Tabs |-> [page |-> "shop", user |-> TRUE]]
  /\ call = [c \in Calls |-> IdleCall] /\ busy = [h \in Http |-> FALSE]
  /\ expired = 0 /\ rotatedBy = [k \in 1..MaxTokens |-> NoHttp]
  /\ ended = {} /\ lost = {}

-----------------------------------------------------------------------------
(* HttpClient.request *)

Call(c) ==
  /\ call[c].pc = "idle" /\ tab[TabOf[HttpOf[c]]].page \in {"shop", "dashboard", "admin"}
  /\ tab[TabOf[HttpOf[c]]].user
  /\ call' = [call EXCEPT ![c].pc = "sent"]
  /\ UNCHANGED <<server, browser, tab, busy, expired, lost>>

\* The server answers: with the access cookie the call succeeds, else it is 401.
Answer(c) ==
  /\ call[c].pc = "sent"
  /\ call' = [call EXCEPT ![c].pc = IF access THEN "idle" ELSE "refused"]
  /\ UNCHANGED <<server, browser, tab, busy, expired, lost>>

\* 401: refresh with the cookie of now, or wait for the refresh under way.
Recover_Unlocked(c) ==
  /\ call[c].pc = "refused"
  /\ call' = [call EXCEPT ![c] = [pc |-> "refreshing", token |-> refresh]]
  /\ busy' = [busy EXCEPT ![HttpOf[c]] = TRUE]
  /\ UNCHANGED <<server, browser, tab, expired, lost>>
Recover(c) ==
  /\ call[c].pc = "refused"
  /\ IF busy[HttpOf[c]]
     THEN call' = [call EXCEPT ![c].pc = "waiting"] /\ UNCHANGED busy
     ELSE /\ call' = [call EXCEPT ![c] = [pc |-> "refreshing", token |-> refresh]]
          /\ busy' = [busy EXCEPT ![HttpOf[c]] = TRUE]
  /\ UNCHANGED <<server, browser, tab, expired, lost>>

\* The server rotates the session, if the token is the session's.
Rotate(c) ==
  /\ call[c].pc = "refreshing"
  /\ IF call[c].token # None /\ call[c].token = session
     THEN /\ issued < MaxTokens
          /\ session' = issued + 1 /\ issued' = issued + 1
          /\ rotatedBy' = [rotatedBy EXCEPT ![session] = HttpOf[c]]
          /\ call' = [call EXCEPT ![c] = [pc |-> "granted", token |-> issued + 1]]
     ELSE /\ call' = [call EXCEPT ![c].pc = "denied"]
          /\ UNCHANGED <<session, issued, rotatedBy>>
  /\ UNCHANGED <<browser, tab, busy, expired, ended, lost>>

\* The refresh succeeded: the cookies are set; this call and those that waited are
\* repeated, except uploads, which fail ("Session refreshed. Please try again.").
Renewed(c) ==
  /\ call[c].pc = "granted"
  /\ access' = TRUE /\ refresh' = call[c].token
  /\ busy' = [busy EXCEPT ![HttpOf[c]] = FALSE]
  /\ call' = [d \in Calls |->
       IF d # c /\ d \notin Waiting(HttpOf[c]) THEN call[d]
       ELSE IF d \in Uploads THEN IdleCall ELSE [IdleCall EXCEPT !.pc = "sent"]]
  /\ UNCHANGED <<server, stored, tab, expired, lost>>

\* clearAuth and the load of /login: the page goes, with its calls and its store,
\* and what is loaded instead reads the store's copy.
SignOut(t) ==
  /\ stored' = FALSE
  /\ tab' = [tab EXCEPT ![t] = [page |-> Land("login"), user |-> FALSE]]
  /\ lost' = lost \cup Granted(TabCalls(t))
  /\ call' = [d \in Calls |-> IF d \in TabCalls(t) THEN IdleCall ELSE call[d]]
  /\ busy' = [h \in Http |-> IF TabOf[h] = t THEN FALSE ELSE busy[h]]

\* The refresh failed: whoever waited is rejected with it.
Reject_Forgets(c) ==
  /\ call' = [call EXCEPT ![c] = IdleCall]
  /\ busy' = [busy EXCEPT ![HttpOf[c]] = FALSE]
  /\ UNCHANGED <<stored, tab>>
Reject(c) ==
  /\ call' = [d \in Calls |-> IF d = c \/ d \in Waiting(HttpOf[c]) THEN IdleCall ELSE call[d]]
  /\ busy' = [busy EXCEPT ![HttpOf[c]] = FALSE]
  /\ UNCHANGED <<stored, tab>>

\* The server refused the refresh.
Denied(c) ==
  /\ call[c].pc = "denied"
  /\ SignOut(TabOf[HttpOf[c]])
  /\ UNCHANGED <<server, access, refresh, expired>>

\* The network fails: a call is just an error; a refresh counts as failed, and
\* unless it was for an upload the user is signed out.
CallFails(c) ==
  /\ call[c].pc = "sent"
  /\ call' = [call EXCEPT ![c] = IdleCall]
  /\ UNCHANGED <<server, browser, tab, busy, expired, lost>>

RefreshFails(c) ==
  /\ call[c].pc \in {"refreshing", "granted", "denied"}
  /\ IF c \in Uploads
     THEN Reject(c) /\ lost' = lost \cup Granted({c})
     ELSE SignOut(TabOf[HttpOf[c]])
  /\ UNCHANGED <<server, access, refresh, expired>>

-----------------------------------------------------------------------------
(* Pages *)

Quiet(t) == \A c \in TabCalls(t) : call[c].pc = "idle"

\* The user opens a page: a load, which reads the store's copy.
Open(t, page) ==
  /\ Quiet(t) /\ tab[t].page # "callback"
  /\ tab' = [tab EXCEPT ![t] = [page |-> Land(page), user |-> stored]]
  /\ UNCHANGED <<server, browser, call, busy, expired, lost>>

\* A new session replaces the server's, whatever browser had it.
Begin ==
  /\ issued < MaxTokens
  /\ session' = issued + 1 /\ issued' = issued + 1
  /\ ended' = ended \cup ({session} \ {None})
  /\ access' = TRUE /\ refresh' = issued + 1
  /\ UNCHANGED rotatedBy

\* LoginForm.handleSubmit and setAuth.
Login(t) ==
  /\ tab[t].page = "login" /\ Quiet(t)
  /\ Begin
  /\ stored' = TRUE
  /\ tab' = [tab EXCEPT ![t] = [page |-> IF Staff THEN "admin" ELSE "shop", user |-> TRUE]]
  /\ UNCHANGED <<call, busy, expired, lost>>

\* The callback of a provider has set the cookies; AuthCallbackPage asks who it is.
ReturnFromProvider(t) ==
  /\ tab[t].page = "login" /\ Quiet(t)
  /\ Begin
  /\ tab' = [tab EXCEPT ![t].page = "callback"]
  /\ UNCHANGED <<stored, call, busy, expired, lost>>

Hydrate(t) ==
  /\ tab[t].page = "callback"
  /\ \/ /\ access /\ stored' = TRUE
        /\ tab' = [tab EXCEPT ![t] = [page |-> IF Staff THEN "admin" ELSE "shop", user |-> TRUE]]
     \/ UNCHANGED stored /\ tab' = [tab EXCEPT ![t].page = Land("login")]
  /\ UNCHANGED <<server, access, refresh, call, busy, expired, lost>>

\* CustomerDashboardLayout: once the store has been read, no user is sent to /login.
GuardDashboard(t) ==
  /\ tab[t].page = "dashboard" /\ ~tab[t].user
  /\ tab' = [tab EXCEPT ![t].page = Land("login")]
  /\ UNCHANGED <<server, browser, call, busy, expired, lost>>

\* The admin layout asks the server who the user is; an error signs out.
VerifyAdmin(t) ==
  /\ tab[t].page = "admin" /\ Quiet(t)
  /\ \/ access /\ tab' = [tab EXCEPT ![t].user = TRUE] /\ stored' = TRUE
     \/ stored' = FALSE /\ tab' = [tab EXCEPT ![t] = [page |-> Land("login"), user |-> FALSE]]
  /\ UNCHANGED <<server, access, refresh, call, busy, expired, lost>>

\* logout of the auth store: POST /auth/logout revokes the token of the cookie, if
\* it is still the session's, and clears the cookies; then the store is cleared,
\* and the layouts go to /login.
Logout(t) ==
  /\ tab[t].user
  /\ session' = IF session = refresh THEN None ELSE session
  /\ ended' = IF session = refresh THEN ended \cup ({session} \ {None}) ELSE ended
  /\ access' = FALSE /\ refresh' = None /\ stored' = FALSE
  /\ tab' = [tab EXCEPT ![t] = [page |-> "login", user |-> FALSE]]
  /\ UNCHANGED <<issued, rotatedBy, call, busy, expired, lost>>

\* The request for it fails: the store is cleared all the same.
LogoutFails(t) ==
  /\ tab[t].user
  /\ stored' = FALSE
  /\ tab' = [tab EXCEPT ![t] = [page |-> Land("login"), user |-> FALSE]]
  /\ UNCHANGED <<server, access, refresh, call, busy, expired, lost>>

-----------------------------------------------------------------------------
(* Time, and other browsers *)

AccessExpires ==
  /\ access /\ expired < MaxExpired
  /\ access' = FALSE /\ expired' = expired + 1
  /\ UNCHANGED <<server, refresh, stored, tab, call, busy, lost>>

\* Another login of the user, a password reset, or seven days without a refresh.
SessionEnds ==
  /\ session # None /\ session' = None /\ ended' = ended \cup {session}
  /\ UNCHANGED <<issued, rotatedBy, browser, tab, call, busy, expired, lost>>

\* A call that was sent goes on.
Proceed(c) ==
  \/ Answer(c) \/ Recover(c) \/ Rotate(c) \/ Renewed(c) \/ Denied(c)
  \/ CallFails(c) \/ RefreshFails(c)

Next ==
  \/ \E c \in Calls : Call(c) \/ Proceed(c)
  \/ \E t \in Tabs :
       \/ \E page \in {"shop", "dashboard", "admin", "login"} : Open(t, page)
       \/ Login(t) \/ ReturnFromProvider(t) \/ Hydrate(t)
       \/ GuardDashboard(t) \/ VerifyAdmin(t) \/ Logout(t) \/ LogoutFails(t)
  \/ AccessExpires \/ SessionEnds

Spec == Init /\ [][Next]_vars

\* A request is answered or fails, and the page handles what comes.
FairSpec ==
  /\ Spec
  /\ \A c \in Calls : WF_vars(Proceed(c))

-----------------------------------------------------------------------------
(* Properties *)

\* Every variable has its type (http-clients.ts:21-22, auth-store.ts:20-25).
TypeOK ==
  /\ session \in 0..MaxTokens /\ issued \in 1..MaxTokens
  /\ access \in BOOLEAN /\ refresh \in 0..MaxTokens /\ stored \in BOOLEAN
  /\ tab \in [Tabs -> [page : {"shop", "dashboard", "admin", "login", "callback"},
                       user : BOOLEAN]]
  /\ call \in [Calls -> [pc : {"idle", "sent", "refused", "refreshing", "waiting",
                               "granted", "denied"}, token : 0..MaxTokens]]
  /\ busy \in [Http -> BOOLEAN] /\ expired \in 0..MaxExpired
  /\ ended \subseteq 1..MaxTokens /\ lost \subseteq 0..MaxTokens
  /\ rotatedBy \in [1..MaxTokens -> Http \cup {NoHttp}]

\* A refresh is never denied because of another refresh of the same instance: the
\* session was ended, another instance rotated it, or an answer was lost
\* (isRefreshing).
DeniedForAReason ==
  \A c \in Calls :
    call[c].pc = "denied" =>
      \/ call[c].token = None \/ call[c].token \in ended
      \/ rotatedBy[call[c].token] # HttpOf[c]
      \/ \E k \in lost : k > call[c].token

\* Every call settles: one that waits for a refresh is repeated or rejected when
\* the refresh ends, however it ends (refreshSubscribers).
CallsSettle == \A c \in Calls : (call[c].pc # "idle") ~> (call[c].pc = "idle")

\* A refresh signs out only when the session of the cookie is over
\* (http-clients.ts:87: "Only redirect on actual auth failure").
SignedOutWhenOver ==
  [][\A c \in Calls : LET t == TabOf[HttpOf[c]] IN
       call[c].pc \in {"refreshing", "granted", "denied"} /\ tab[t].user /\ ~tab'[t].user
         /\ call'[c].pc = "idle" => refresh = None \/ refresh # session]_vars

\* Once logged out, the browser gets its cookies back only by a login
\* (auth-store.ts:66: "tell the server to clear the httpOnly cookies").
LogoutIsFinal == [][refresh = None /\ refresh' # None => issued' # issued]_vars
=============================================================================
