------------------------------- MODULE Accounts -------------------------------
(***************************************************************************)
(* One account and what authenticates it (AuthService, RedisService): the   *)
(* users row, the one session Redis keeps for a user (the refresh token     *)
(* that may be rotated next), and the codes sent to confirm an address, a   *)
(* phone or a new password, each with a counter of attempts.                *)
(*                                                                          *)
(* Each action is one awaited step of a request: an SQL statement, a Redis  *)
(* command or a Lua script.  Whatever the request read before is kept in    *)
(* its record.  A password is its version, a token and a code are numbers   *)
(* in the order they were issued.                                           *)
(***************************************************************************)
EXTENDS Integers, FiniteSets, Sequences

CONSTANTS
  Requests,      \* requests in progress at the same time
  Kinds,         \* what codes are sent for, of {"verify", "phone", "reset"}
  Providers,     \* OAuth providers
  NoProvider,
  MAX_ATTEMPTS,  \* guesses a code allows (5)
  MaxIssued,     \* bound: refresh tokens and codes issued
  MaxPasswords   \* bound: passwords the account ever has

ASSUME AccountsAssumption ==
  /\ IsFiniteSet(Requests)
  /\ Kinds \subseteq {"verify", "phone", "reset"}
  /\ NoProvider \notin Providers
  /\ MAX_ATTEMPTS \in Nat /\ MaxIssued \in Nat /\ MaxPasswords \in Nat \ {0}

VARIABLES
  user,      \* the users row
  session,   \* auth:session:{user}: a refresh token, or None
  code,      \* code[k]: auth:verify, auth:verify-phone or auth:reset, or None
  attempts,  \* attempts[k]: its counter of attempts
  req,       \* req[r]: the request r is serving
  parent,    \* history: parent[t] is the token that t was rotated from; one per token
  since,     \* history: since[t] is the password when the user of t was identified
  issued,    \* history: issued[c] is the kind of code c
  tries,     \* history: tries[c] requests have compared a guess with code c
  revoked,   \* history: sessions that a logout or a new password ended
  settled,   \* history: the last password whose setting has ended the session
  late       \* history: sessions of users identified by a password since replaced

vars == <<user, session, code, attempts, req,
          parent, since, issued, tries, revoked, settled, late>>
row == <<user>>
codes == <<code, attempts, issued, tries>>
sessions == <<session, parent, since, revoked, settled, late>>

None == 0
Tokens == DOMAIN parent
Codes == DOMAIN issued
Fresh == Len(parent) + 1
CanIssue == Len(parent) + Len(issued) < MaxIssued
NoUser == [exists |-> FALSE, password |-> None, active |-> TRUE,
           confirmed |-> {}, provider |-> NoProvider]
Idle == [pc |-> "idle", kind |-> "none", code |-> None, ok |-> FALSE,
         token |-> None, password |-> None]

Init ==
  /\ user = NoUser /\ session = None
  /\ code = [k \in Kinds |-> None] /\ attempts = [k \in Kinds |-> 0]
  /\ req = [r \in Requests |-> Idle]
  /\ parent = <<>> /\ since = <<>> /\ issued = <<>> /\ tries = <<>>
  /\ revoked = {} /\ settled = None /\ late = {}

Start(r, q) == req[r].pc = "idle" /\ req' = [req EXCEPT ![r] = q]
Goto(r, pc) == req' = [req EXCEPT ![r].pc = pc]
End(r) == req' = [req EXCEPT ![r] = Idle]

-----------------------------------------------------------------------------
(* register *)

\* findByEmail finds no account.
Register(r) ==
  /\ ~user.exists
  /\ Start(r, [Idle EXCEPT !.pc = "create"])
  /\ UNCHANGED <<row, sessions, codes>>

\* create; the unique e-mail turns a second account into a conflict.
CreateAccount(r) ==
  /\ req[r].pc = "create"
  /\ IF user.exists
     THEN UNCHANGED user /\ End(r)
     ELSE /\ user' = [NoUser EXCEPT !.exists = TRUE, !.password = 1]
          /\ req' = [req EXCEPT ![r].pc = "send", ![r].kind = "verify"]
  /\ UNCHANGED <<sessions, codes>>

-----------------------------------------------------------------------------
(* Codes *)

\* resendVerification and forgotPassword look the user up by e-mail;
\* sendPhoneOtp has the user of an active account (JwtStrategy.validate).
AskForCode(r, k) ==
  /\ user.exists
  /\ k # "reset" => k \notin user.confirmed
  /\ k = "phone" => user.active
  /\ Start(r, [Idle EXCEPT !.pc = "send", !.kind = k])
  /\ UNCHANGED <<row, sessions, codes>>

\* A new code replaces the old one; the counter stays as it is.
SendCode(r) ==
  /\ req[r].pc = "send" /\ CanIssue
  /\ code' = [code EXCEPT ![req[r].kind] = Len(issued) + 1]
  /\ issued' = Append(issued, req[r].kind) /\ tries' = Append(tries, 0)
  /\ End(r)
  /\ UNCHANGED <<row, sessions, attempts>>

\* verifyEmail, verifyPhoneOtp or resetPassword: the stored code is read; the
\* user submits a code of his (or of an earlier mail), or a wrong one (None).
SubmitCode(r, k) ==
  /\ code[k] # None
  /\ k = "phone" => user.active
  /\ \E guess \in {None} \cup {c \in Codes : issued[c] = k} :
       Start(r, [Idle EXCEPT !.pc = "count", !.kind = k,
                             !.code = code[k], !.ok = (guess = code[k])])
  /\ UNCHANGED <<row, sessions, codes>>

\* incrementAttempts, then the ceiling, then the comparison.
CountAttempt_Uncounted(r) ==
  /\ req[r].pc = "count"
  /\ tries' = [tries EXCEPT ![req[r].code] = @ + 1]
  /\ IF req[r].ok THEN Goto(r, "drop") ELSE End(r)
  /\ UNCHANGED <<row, sessions, code, attempts, issued>>
CountAttempt(r) ==
  /\ req[r].pc = "count"
  /\ LET k == req[r].kind
         count == IF attempts[k] > MAX_ATTEMPTS THEN attempts[k] ELSE attempts[k] + 1
     IN /\ attempts' = [attempts EXCEPT ![k] = count]
        /\ IF count > MAX_ATTEMPTS
           THEN /\ req' = [req EXCEPT ![r].pc = "drop", ![r].ok = FALSE]
                /\ UNCHANGED tries
           ELSE /\ tries' = [tries EXCEPT ![req[r].code] = @ + 1]
                /\ IF req[r].ok THEN Goto(r, "drop") ELSE End(r)
  /\ UNCHANGED <<row, sessions, code, issued>>

\* The code is deleted, whichever it is by now: it is used up or void.
DropCode(r) ==
  /\ req[r].pc = "drop"
  /\ code' = [code EXCEPT ![req[r].kind] = None]
  /\ Goto(r, "clear")
  /\ UNCHANGED <<row, sessions, attempts, issued, tries>>

ClearAttempts(r) ==
  /\ req[r].pc = "clear"
  /\ attempts' = [attempts EXCEPT ![req[r].kind] = 0]
  /\ IF req[r].ok THEN Goto(r, "apply") ELSE End(r)
  /\ UNCHANGED <<row, sessions, code, issued, tries>>

\* verifyEmail and verifyPhoneOtp update the row.
Confirm(r) ==
  /\ req[r].pc = "apply" /\ req[r].kind # "reset"
  /\ user' = [user EXCEPT !.confirmed = @ \cup {req[r].kind}]
  /\ End(r)
  /\ UNCHANGED <<sessions, codes>>

\* resetPassword stores the new password ...
SetPassword(r) ==
  /\ req[r].pc = "apply" /\ req[r].kind = "reset" /\ user.password < MaxPasswords
  /\ user' = [user EXCEPT !.password = @ + 1]
  /\ req' = [req EXCEPT ![r].pc = "expel", ![r].password = user.password + 1]
  /\ UNCHANGED <<sessions, codes>>

\* ... and then deletes the session, to force a new login.
Expel_Kept(r) ==
  /\ req[r].pc = "expel"
  /\ settled' = IF req[r].password > settled THEN req[r].password ELSE settled
  /\ End(r)
  /\ UNCHANGED <<row, codes, session, parent, since, revoked, late>>
Expel(r) ==
  /\ req[r].pc = "expel"
  /\ session' = None /\ revoked' = revoked \cup ({session} \ {None})
  /\ settled' = IF req[r].password > settled THEN req[r].password ELSE settled
  /\ End(r)
  /\ UNCHANGED <<row, codes, parent, since, late>>

-----------------------------------------------------------------------------
(* Sessions *)

\* generateTokens and setSession or rotateSession: a new token, from an old one
\* or from a user who was identified when the password was p.
NewSession(from, p) ==
  /\ CanIssue
  /\ session' = Fresh
  /\ parent' = Append(parent, from) /\ since' = Append(since, p)
  /\ late' = IF from \in late \/ (from = None /\ p # user.password)
             THEN late \cup {Fresh} ELSE late
  /\ UNCHANGED <<revoked, settled>>

\* login: the account is read and the password compared with it.
Login(r) ==
  /\ user.exists /\ user.password # None /\ user.active
  /\ Start(r, [Idle EXCEPT !.pc = "enter", !.password = user.password])
  /\ UNCHANGED <<row, sessions, codes>>

\* setSession replaces whatever session there was (update of lastLoginAt: no matter).
Enter(r) ==
  /\ req[r].pc = "enter"
  /\ NewSession(None, req[r].password)
  /\ End(r)
  /\ UNCHANGED <<row, codes>>

\* refreshToken with any token the user was ever given: the row is read.
Refresh(r) ==
  /\ user.exists /\ user.active
  /\ \E t \in Tokens : Start(r, [Idle EXCEPT !.pc = "rotate", !.token = t])
  /\ UNCHANGED <<row, sessions, codes>>

\* rotateSession, compare and swap; a token that is not the session is refused.
Rotate_Unchecked(r) ==
  /\ req[r].pc = "rotate"
  /\ NewSession(req[r].token, since[req[r].token])
  /\ End(r)
  /\ UNCHANGED <<row, codes>>
Rotate(r) ==
  /\ req[r].pc = "rotate"
  /\ IF session = req[r].token
     THEN NewSession(req[r].token, since[req[r].token])
     ELSE UNCHANGED sessions
  /\ End(r)
  /\ UNCHANGED <<row, codes>>

\* logout with the token of the cookie, compare and delete in one script.
Logout(t) ==
  /\ session = t
  /\ session' = None /\ revoked' = revoked \cup {t}
  /\ UNCHANGED <<row, codes, req, parent, since, settled, late>>

-----------------------------------------------------------------------------
(* OAuth *)

\* validateOAuthUser: the account is looked up by provider, then by e-mail.
OAuthLookup(r, p) ==
  /\ IF user.provider = p
     THEN user.active /\ Start(r, [Idle EXCEPT !.pc = "enter", !.password = user.password])
     ELSE Start(r, [Idle EXCEPT !.pc = IF user.exists THEN "link" ELSE "join", !.kind = p])
  /\ UNCHANGED <<row, sessions, codes>>

\* The callback of a provider whose state agrees with the cookie.
OAuthCallback(r) == \E p \in Providers : OAuthLookup(r, p)

\* The account with the provider's e-mail is linked to it, instead of to another
\* provider; it is read again after.
OAuthLink(r) ==
  /\ req[r].pc = "link"
  /\ user' = [user EXCEPT !.provider = req[r].kind, !.confirmed = @ \cup {"verify"}]
  /\ IF user.active
     THEN req' = [req EXCEPT ![r] = [Idle EXCEPT !.pc = "enter", !.password = user.password]]
     ELSE End(r)
  /\ UNCHANGED <<sessions, codes>>

\* create; the unique e-mail fails the callback when there is an account by now.
OAuthJoin(r) ==
  /\ req[r].pc = "join"
  /\ IF user.exists
     THEN UNCHANGED user /\ End(r)
     ELSE /\ user' = [NoUser EXCEPT !.exists = TRUE, !.provider = req[r].kind,
                                    !.confirmed = {"verify"}]
          /\ req' = [req EXCEPT ![r] = [Idle EXCEPT !.pc = "enter"]]
  /\ UNCHANGED <<sessions, codes>>

-----------------------------------------------------------------------------
(* Others *)

\* UsersAdminService.updateStatus; the session stays.
SetStatus ==
  /\ user.exists
  /\ user' = [user EXCEPT !.active = ~@]
  /\ UNCHANGED <<sessions, codes, req>>

\* Redis or the database fails, or the server stops: the rest is not done.
Abandon(r) ==
  /\ req[r].pc # "idle" /\ End(r)
  /\ UNCHANGED <<row, sessions, codes>>

\* The refresh token expires with the session.
SessionExpires ==
  /\ session # None /\ session' = None
  /\ UNCHANGED <<row, codes, req, parent, since, revoked, settled, late>>

CodeExpires(k) ==
  /\ code[k] # None /\ code' = [code EXCEPT ![k] = None]
  /\ UNCHANGED <<row, sessions, attempts, issued, tries, req>>

\* Four hours after the first attempt: no request takes as long.
CounterExpires(k) ==
  /\ attempts[k] > 0 /\ \A r \in Requests : req[r].kind # k
  /\ attempts' = [attempts EXCEPT ![k] = 0]
  /\ tries' = [c \in Codes |-> IF issued[c] = k THEN 0 ELSE tries[c]]
  /\ UNCHANGED <<row, sessions, code, issued, req>>

Next ==
  \/ \E r \in Requests :
       \/ Register(r) \/ CreateAccount(r) \/ SendCode(r)
       \/ \E k \in Kinds : AskForCode(r, k) \/ SubmitCode(r, k)
       \/ CountAttempt(r) \/ DropCode(r) \/ ClearAttempts(r)
       \/ Confirm(r) \/ SetPassword(r) \/ Expel(r)
       \/ Login(r) \/ Enter(r) \/ Refresh(r) \/ Rotate(r)
       \/ OAuthCallback(r) \/ OAuthLink(r) \/ OAuthJoin(r)
       \/ Abandon(r)
  \/ \E t \in Tokens : Logout(t)
  \/ \E k \in Kinds : CodeExpires(k) \/ CounterExpires(k)
  \/ SetStatus \/ SessionExpires

Spec == Init /\ [][Next]_vars

-----------------------------------------------------------------------------
(* Properties *)

\* Every variable has its type (auth.service.ts, redis.service.ts:80-317).
TypeOK ==
  /\ user \in [exists : BOOLEAN, password : 0..MaxPasswords, active : BOOLEAN,
               confirmed : SUBSET {"verify", "phone"},
               provider : {NoProvider} \cup Providers]
  /\ parent \in Seq(Nat)
  /\ since \in Seq(0..MaxPasswords) /\ Len(since) = Len(parent)
  /\ session \in {None} \cup Tokens
  /\ issued \in Seq({"verify", "phone", "reset"})
  /\ tries \in Seq(Nat) /\ Len(tries) = Len(issued)
  /\ code \in [Kinds -> {None} \cup Codes] /\ attempts \in [Kinds -> Nat]
  /\ req \in [Requests ->
       [pc : {"idle", "create", "send", "count", "drop", "clear", "apply", "expel",
              "enter", "rotate", "link", "join"},
        kind : {"none", "verify", "phone", "reset"} \cup Providers,
        code : {None} \cup Codes,
        ok : BOOLEAN, token : {None} \cup Tokens, password : 0..MaxPasswords]]
  /\ revoked \subseteq Tokens /\ late \subseteq Tokens /\ settled \in 0..MaxPasswords

\* A token is rotated at most once, and what a logout or a new password ended is
\* not continued by a refresh that was under way (rotateSession: "Exactly ONE
\* concurrent request can successfully rotate a given active token").
RotatedOnce ==
  \A t \in Tokens : parent[t] # None =>
    /\ parent[t] \notin revoked
    /\ \A u \in Tokens \ {t} : parent[u] # parent[t]

\* After a new password has ended the session, a session goes back to a user
\* identified by that password, except for a login that was under way
\* (resetPassword).
ResetEndsSessions ==
  session # None => since[session] >= settled \/ session \in late

\* However many requests race, each adds at most one more round of attempts at a
\* code to those the ceiling allows (verifyEmail, verifyPhoneOtp, resetPassword).
AttemptsAreLimited ==
  \A c \in Codes : tries[c] <= Cardinality(Requests) * (MAX_ATTEMPTS + 1)

\* The ceiling holds under concurrent requests (auth.concurrency.spec.ts:556:
\* "atomically enforces 5-attempt ceiling and invalidates OTP under 10 concurrent
\* requests").
CeilingIsStrict == \A c \in Codes : tries[c] <= MAX_ATTEMPTS

\* No login survives a new password (auth.service.ts:372: "Delete session (force
\* re-login)").
ResetForcesLogin == session # None => since[session] >= settled

\* A code asked for after too many wrong guesses is accepted when it is entered
\* correctly (auth.service.ts:178: "please request a new code").
NewCodeIsAccepted ==
  [][\A r \in Requests :
       req[r].pc = "count" /\ req[r].ok /\ tries[req[r].code] = 0
         /\ code[req[r].kind] = req[r].code /\ req'[r].pc # "count"
       => req'[r].ok \/ req'[r].pc = "idle"]_vars
=============================================================================
