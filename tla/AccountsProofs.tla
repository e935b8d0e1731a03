---------------------------- MODULE AccountsProofs ----------------------------
(***************************************************************************)
(* What Accounts promises of the session, proved for any number of          *)
(* requests, tokens and passwords: a refresh token is rotated once, a new   *)
(* password ends the sessions begun with the one before, and the guesses at *)
(* a code are bounded.  Then the two components the same run explores, each *)
(* with its own inductive invariant: UserCache, for any number of reads and *)
(* changes in progress, and WebSession, for any number of tabs, instances   *)
(* of HttpClient and calls.                                                 *)
(***************************************************************************)
EXTENDS MCAccounts, FiniteSetTheorems, TLAPS

\* What codes are sent for and who confirms an address: the kinds of a request.
AllKinds == {"none", "verify"} \cup Kinds \cup Providers \cup {NoProvider}

Steps == {"idle", "create", "send", "count", "drop", "clear", "apply", "expel", "enter",
          "rotate", "link", "join"}

RequestRows == [pc : Steps, kind : AllKinds, code : Nat, ok : BOOLEAN, token : Nat, password : Nat]

UserRows == [exists : BOOLEAN, password : Nat, active : BOOLEAN,
             confirmed : SUBSET AllKinds, provider : AllKinds]

Shape ==
  /\ req \in [Requests -> RequestRows] /\ user \in UserRows
  /\ code \in [Kinds -> Nat] /\ issued \in Seq(AllKinds)

\* A password that has ended the session, or will, is the present or an earlier one.
PasswordsOK ==
  /\ settled \in Nat /\ settled <= user.password
  /\ \A r \in Requests : req[r].pc = "expel" => req[r].password <= user.password

\* Before there is an account nobody can do more than make one.
NobodyYet ==
  ~user.exists =>
    /\ user.password = None /\ user.provider = NoProvider
    /\ \A k \in Kinds : code[k] = None
    /\ \A r \in Requests : req[r].pc \in {"idle", "create", "join"}

\* The histories of tokens have one entry for each and name issued tokens.
HistoryOK ==
  /\ parent \in Seq(Nat) /\ since \in Seq(Nat) /\ Len(since) = Len(parent)
  /\ session \in {None} \cup Tokens
  /\ revoked \subseteq Tokens /\ late \subseteq Tokens
  /\ \A t \in Tokens : parent[t] \in {None} \cup Tokens
  /\ \A r \in Requests : req[r].pc = "rotate" => req[r].token \in Tokens

\* The token that may be rotated next has neither been ended nor rotated.
SessionIsFresh ==
  /\ session \notin revoked
  /\ session # None => \A t \in Tokens : parent[t] # session

Inv == Shape /\ NobodyYet /\ PasswordsOK /\ HistoryOK /\ SessionIsFresh /\ RotatedOnce
       /\ ResetEndsSessions

-----------------------------------------------------------------------------
LEMMA InitInv == Init => Inv
<1> SUFFICES ASSUME Init PROVE Inv
  OBVIOUS
<1> USE AccountsAssumption DEF Init, Idle, NoUser, None
<1>1. parent \in Seq(Nat) /\ since \in Seq(Nat) /\ Len(parent) = 0 /\ Tokens = {}
  BY DEF Tokens
<1>2. Shape
  BY DEF Shape, RequestRows, UserRows, AllKinds, Steps
<1>3. QED
  BY <1>1, <1>2 DEF Inv, NobodyYet, PasswordsOK, HistoryOK, SessionIsFresh, RotatedOnce,
                    ResetEndsSessions

\* A new session follows every earlier one, which keeps its place in the history.
LEMMA Issue ==
  ASSUME HistoryOK, NEW from \in Nat, NEW p \in Nat, NewSession(from, p)
  PROVE  /\ parent' \in Seq(Nat) /\ since' \in Seq(Nat) /\ Len(since') = Len(parent')
         /\ Tokens' = Tokens \cup {Fresh} /\ Fresh \notin Tokens /\ Fresh # None
         /\ parent'[Fresh] = from /\ since'[Fresh] = p
         /\ \A t \in Tokens : parent'[t] = parent[t] /\ since'[t] = since[t]
         /\ session' = Fresh /\ revoked' = revoked /\ settled' = settled
         /\ None \notin Tokens
<1> USE DEF HistoryOK, NewSession, Fresh, Tokens, None
<1>1. /\ parent' = Append(parent, from) /\ since' = Append(since, p)
      /\ parent \in Seq(Nat) /\ since \in Seq(Nat) /\ Len(since) = Len(parent)
  OBVIOUS
<1>2. /\ parent' \in Seq(Nat) /\ since' \in Seq(Nat)
      /\ Len(parent') = Len(parent) + 1 /\ Len(since') = Len(parent) + 1
      /\ parent'[Len(parent) + 1] = from /\ since'[Len(parent) + 1] = p
      /\ \A t \in 1..Len(parent) : parent'[t] = parent[t] /\ since'[t] = since[t]
  BY <1>1
<1>3. /\ DOMAIN parent = 1..Len(parent) /\ DOMAIN parent' = 1..Len(parent')
      /\ Len(parent) \in Nat
  BY <1>1, <1>2
<1>4. QED
  BY <1>2, <1>3

LEMMA NextShape == Shape /\ HistoryOK /\ [Next]_vars => Shape'
<1> SUFFICES ASSUME Shape, HistoryOK, [Next]_vars PROVE Shape'
  OBVIOUS
<1> USE DEF Shape, None, Steps
<1>0. /\ "none" \in AllKinds /\ "verify" \in AllKinds /\ Kinds \subseteq AllKinds
      /\ Providers \subseteq AllKinds /\ NoProvider \in AllKinds
  BY DEF AllKinds
<1>idle. Idle \in RequestRows
  BY <1>0 DEF Idle, RequestRows
<1>1. ASSUME NEW r \in Requests, Register(r) \/ CreateAccount(r)
      PROVE Shape'
  <2>1. NoUser \in UserRows
    BY <1>0 DEF NoUser, UserRows
  <2>2. CASE Register(r)
    BY <1>idle, <2>2 DEF Register, Start, RequestRows, row, codes, sessions
  <2>3. CASE CreateAccount(r)
    <3>1. /\ [NoUser EXCEPT !.exists = TRUE, !.password = 1] \in UserRows
          /\ [req[r] EXCEPT !.pc = "send", !.kind = "verify"] \in RequestRows
      BY <1>0, <2>1 DEF RequestRows, UserRows
    <3>2. CASE user.exists
      BY <1>idle, <2>3, <3>2 DEF CreateAccount, End, codes, sessions
    <3>3. CASE ~user.exists
      <4>1. req' = [req EXCEPT ![r] = [req[r] EXCEPT !.pc = "send", !.kind = "verify"]]
        BY <2>3, <3>3 DEF CreateAccount
      <4>2. QED
        BY <2>3, <3>1, <3>3, <4>1 DEF CreateAccount, codes, sessions
    <3>4. QED
      BY <3>2, <3>3
  <2>4. QED
    BY <1>1, <2>2, <2>3
<1>2. ASSUME NEW r \in Requests, SendCode(r)
      PROVE Shape'
  <2>1. Len(issued) + 1 \in Nat /\ req[r].kind \in AllKinds
    BY DEF RequestRows
  <2>2. Append(issued, req[r].kind) \in Seq(AllKinds)
    BY <2>1
  <2>3. code' \in [Kinds -> Nat]
    BY <1>2, <2>1 DEF SendCode
  <2>4. QED
    BY <1>idle, <1>2, <2>2, <2>3 DEF SendCode, End, row
<1>3. ASSUME NEW r \in Requests, NEW k \in Kinds, AskForCode(r, k) \/ SubmitCode(r, k)
      PROVE Shape'
  <2>1. CASE AskForCode(r, k)
    BY <1>0, <1>idle, <2>1 DEF AskForCode, Start, RequestRows, row, codes, sessions
  <2>2. CASE SubmitCode(r, k)
    <3>1. PICK guess : Start(r, [Idle EXCEPT !.pc = "count", !.kind = k, !.code = code[k],
                                             !.ok = (guess = code[k])])
      BY <2>2 DEF SubmitCode
    <3>2. code[k] \in Nat /\ (guess = code[k]) \in BOOLEAN
      OBVIOUS
    <3>3. [Idle EXCEPT !.pc = "count", !.kind = k, !.code = code[k], !.ok = (guess = code[k])]
            \in RequestRows
      BY <1>0, <3>2 DEF Idle, RequestRows
    <3>4. QED
      BY <2>2, <3>1, <3>3 DEF SubmitCode, Start, row, codes, sessions
  <2>3. QED
    BY <1>3, <2>1, <2>2
<1>4. ASSUME NEW r \in Requests, CountAttempt(r) \/ DropCode(r) \/ ClearAttempts(r)
      PROVE Shape'
  <2>1. /\ [req[r] EXCEPT !.pc = "drop", !.ok = FALSE] \in RequestRows
        /\ \A pc \in Steps : [req[r] EXCEPT !.pc = pc] \in RequestRows
    BY DEF RequestRows
  <2>2. PICK q \in RequestRows : req' = [req EXCEPT ![r] = q]
    <3>1. CASE CountAttempt(r)
      BY <1>idle, <2>1, <3>1 DEF CountAttempt, End, Goto
    <3>2. CASE DropCode(r) \/ ClearAttempts(r)
      BY <1>idle, <2>1, <3>2 DEF DropCode, ClearAttempts, End, Goto
    <3>3. QED
      BY <1>4, <3>1, <3>2
  <2>3. code' \in [Kinds -> Nat] /\ UNCHANGED <<issued, user>>
    BY <1>4 DEF CountAttempt, DropCode, ClearAttempts, row
  <2>4. QED
    BY <2>2, <2>3
<1>5. ASSUME NEW r \in Requests, Confirm(r) \/ SetPassword(r) \/ Expel(r)
      PROVE Shape'
  <2>1. CASE Confirm(r)
    BY <1>idle, <2>1 DEF Confirm, End, RequestRows, UserRows, codes, sessions
  <2>2. CASE SetPassword(r)
    <3>0. user.password + 1 \in Nat
      BY DEF UserRows
    <3>1. /\ [req[r] EXCEPT !.pc = "expel", !.password = user.password + 1] \in RequestRows
          /\ [user EXCEPT !.password = user.password + 1] \in UserRows
      BY <3>0 DEF RequestRows, UserRows
    <3>2. /\ req' = [req EXCEPT ![r] = [req[r] EXCEPT !.pc = "expel",
                                                      !.password = user.password + 1]]
          /\ user' = [user EXCEPT !.password = user.password + 1]
      BY <2>2 DEF SetPassword
    <3>3. QED
      BY <2>2, <3>1, <3>2 DEF SetPassword, codes, sessions
  <2>3. CASE Expel(r)
    BY <1>idle, <2>3 DEF Expel, End, row, codes
  <2>4. QED
    BY <1>5, <2>1, <2>2, <2>3
<1>6. ASSUME NEW r \in Requests, Login(r) \/ Enter(r) \/ Refresh(r) \/ Rotate(r)
      PROVE Shape'
  <2>1. CASE Login(r)
    BY <1>idle, <2>1 DEF Login, Start, RequestRows, UserRows, row, codes, sessions
  <2>2. CASE Refresh(r)
    <3>1. PICK t \in Tokens : Start(r, [Idle EXCEPT !.pc = "rotate", !.token = t])
      BY <2>2 DEF Refresh
    <3>2. t \in Nat
      BY DEF Tokens, HistoryOK
    <3>3. QED
      BY <1>idle, <2>2, <3>1, <3>2 DEF Refresh, Start, RequestRows, row, codes, sessions
  <2>3. CASE Enter(r) \/ Rotate(r)
    BY <1>idle, <2>3 DEF Enter, Rotate, End, row, codes
  <2>4. QED
    BY <1>6, <2>1, <2>2, <2>3
<1>7. ASSUME NEW r \in Requests, OAuthCallback(r)
      PROVE Shape'
  <2>1. PICK p \in Providers : OAuthLookup(r, p)
    BY <1>7 DEF OAuthCallback
  <2>2. QED
    <3>1. /\ [Idle EXCEPT !.pc = "enter", !.password = user.password] \in RequestRows
          /\ \A pc \in Steps : [Idle EXCEPT !.pc = pc, !.kind = p] \in RequestRows
      BY <1>0, <1>idle DEF RequestRows, UserRows
    <3>2. PICK q \in RequestRows : req' = [req EXCEPT ![r] = q]
      BY <2>1, <3>1 DEF OAuthLookup, Start
    <3>3. QED
      BY <2>1, <3>2 DEF OAuthLookup, row, codes, sessions
<1>8. ASSUME NEW r \in Requests, OAuthLink(r) \/ OAuthJoin(r) \/ Abandon(r)
      PROVE Shape'
  <2>1. CASE OAuthLink(r)
    <3>1. [user EXCEPT !.provider = req[r].kind, !.confirmed = @ \cup {"verify"}] \in UserRows
      BY <1>0 DEF RequestRows, UserRows
    <3>2. [Idle EXCEPT !.pc = "enter", !.password = user.password] \in RequestRows
      BY <1>idle DEF RequestRows, UserRows
    <3>3. QED
      BY <1>idle, <2>1, <3>1, <3>2 DEF OAuthLink, End, codes, sessions
  <2>2. CASE OAuthJoin(r)
    <3>1. [NoUser EXCEPT !.exists = TRUE, !.provider = req[r].kind, !.confirmed = {"verify"}]
            \in UserRows
      BY <1>0 DEF NoUser, UserRows, RequestRows
    <3>2. [Idle EXCEPT !.pc = "enter"] \in RequestRows
      BY <1>idle DEF RequestRows
    <3>3. QED
      BY <1>idle, <2>2, <3>1, <3>2 DEF OAuthJoin, End, codes, sessions
  <2>3. CASE Abandon(r)
    BY <1>idle, <2>3 DEF Abandon, End, row, codes, sessions
  <2>4. QED
    BY <1>8, <2>1, <2>2, <2>3
<1>9. ASSUME NEW t \in Tokens, Logout(t)
      PROVE Shape'
  BY <1>9 DEF Logout, row, codes
<1>10. ASSUME NEW k \in Kinds, CodeExpires(k) \/ CounterExpires(k)
       PROVE Shape'
  BY <1>10 DEF CodeExpires, CounterExpires, row, sessions
<1>11. CASE SetStatus \/ SessionExpires \/ UNCHANGED vars
  BY <1>11 DEF SetStatus, SessionExpires, UserRows, row, codes, sessions, vars
<1>12. QED
  BY <1>1, <1>2, <1>3, <1>4, <1>5, <1>6, <1>7, <1>8, <1>9, <1>10, <1>11 DEF Next

\* The request r goes on as q, the others are as they were.
LEMMA Put ==
  ASSUME Shape, NEW r \in Requests, NEW q, req' = [req EXCEPT ![r] = q]
  PROVE  req'[r] = q /\ \A s \in Requests \ {r} : req'[s] = req[s]
BY DEF Shape

LEMMA NextNobody == Shape /\ NobodyYet /\ [Next]_vars => NobodyYet'
<1> SUFFICES ASSUME Shape, NobodyYet, [Next]_vars, ~user'.exists PROVE NobodyYet'
  BY DEF NobodyYet
<1> USE AccountsAssumption DEF None
<1>1. ~user.exists
  BY DEF Shape, UserRows, Next, Register, CreateAccount, SendCode, AskForCode, SubmitCode, CountAttempt,
         DropCode, ClearAttempts, Confirm, SetPassword, Expel, Login, Enter, Refresh, Rotate,
         OAuthCallback, OAuthLookup, OAuthLink, OAuthJoin, Abandon, Logout, CodeExpires,
         CounterExpires, SetStatus, SessionExpires, NoUser, row, vars
<1> USE <1>1 DEF Shape, NobodyYet, Idle
<1>2. ASSUME NEW r \in Requests, Register(r) \/ CreateAccount(r) \/ SendCode(r)
      PROVE  NobodyYet'
  BY <1>2 DEF Register, CreateAccount, SendCode, NoUser, Start, End, row, codes, sessions
<1>3. ASSUME NEW r \in Requests, NEW k \in Kinds, AskForCode(r, k) \/ SubmitCode(r, k)
      PROVE  NobodyYet'
  BY <1>3 DEF AskForCode, SubmitCode
<1>4. ASSUME NEW r \in Requests,
             \/ CountAttempt(r) \/ DropCode(r) \/ ClearAttempts(r) \/ Confirm(r) \/ SetPassword(r)
             \/ Expel(r) \/ Login(r) \/ Enter(r) \/ Refresh(r) \/ Rotate(r) \/ OAuthLink(r)
      PROVE  NobodyYet'
  BY <1>4 DEF CountAttempt, DropCode, ClearAttempts, Confirm, SetPassword, Expel, Login, Enter,
              Refresh, Rotate, OAuthLink
<1>5. ASSUME NEW r \in Requests, OAuthCallback(r)
      PROVE  NobodyYet'
  <2>1. PICK p \in Providers : OAuthLookup(r, p)
    BY <1>5 DEF OAuthCallback
  <2>2. req' = [req EXCEPT ![r] = [Idle EXCEPT !.pc = "join", !.kind = p]] /\ UNCHANGED <<user, code>>
    BY <2>1 DEF OAuthLookup, Start, row, codes
  <2>3. req'[r].pc = "join" /\ \A s \in Requests \ {r} : req'[s] = req[s]
    BY <2>2, Put
  <2>4. QED
    BY <2>2, <2>3
<1>6. ASSUME NEW r \in Requests, OAuthJoin(r) \/ Abandon(r)
      PROVE  NobodyYet'
  <2>1. UNCHANGED code /\ UNCHANGED user
    BY <1>6 DEF OAuthJoin, Abandon, NoUser, row, codes
  <2>2. CASE OAuthJoin(r)
    BY <2>2 DEF OAuthJoin, NoUser
  <2>3. CASE Abandon(r)
    BY <2>1, <2>3 DEF Abandon, End
  <2>4. QED
    BY <1>6, <2>2, <2>3
<1>7. ASSUME NEW k \in Kinds, CodeExpires(k) \/ CounterExpires(k)
      PROVE  NobodyYet'
  BY <1>7 DEF CodeExpires, CounterExpires, row
<1>8. CASE SetStatus \/ SessionExpires \/ UNCHANGED vars \/ \E t \in Tokens : Logout(t)
  BY <1>8 DEF SetStatus, SessionExpires, vars, Logout, row, codes
<1>9. QED
  BY <1>2, <1>3, <1>4, <1>5, <1>6, <1>7, <1>8 DEF Next

\* What no step but those of a session changes.
LEMMA KeepSessions ==
  ASSUME Inv, Shape', NobodyYet', PasswordsOK', UNCHANGED sessions,
         \A r \in Requests : req'[r].pc = "rotate" => req'[r].token \in Tokens
  PROVE  Inv'
BY DEF Inv, sessions, HistoryOK, SessionIsFresh, RotatedOnce, ResetEndsSessions, Tokens

\* Steps that read, and steps about codes.
LEMMA OtherStep ==
  ASSUME Inv, Shape', NobodyYet', NEW r \in Requests,
         \/ Register(r) \/ SendCode(r) \/ CountAttempt(r) \/ DropCode(r) \/ ClearAttempts(r)
         \/ Login(r) \/ Refresh(r) \/ OAuthCallback(r) \/ Abandon(r)
         \/ \E k \in Kinds : AskForCode(r, k) \/ SubmitCode(r, k)
  PROVE  Inv'
<1> USE DEF None
<1>1. UNCHANGED user /\ UNCHANGED sessions
  BY DEF Register, SendCode, CountAttempt, DropCode, ClearAttempts, Login, Refresh, OAuthCallback,
         OAuthLookup, Abandon, AskForCode, SubmitCode, row
<1>2. /\ \A s \in Requests \ {r} : req'[s] = req[s]
      /\ req'[r].pc # "expel"
      /\ req'[r].pc = "rotate" => req'[r].token \in Tokens
  <2> USE DEF Inv, Shape
  <2>0. /\ \A pc \in Steps : [Idle EXCEPT !.pc = pc].pc = pc
        /\ [Idle EXCEPT !.pc = "enter", !.password = user.password].pc = "enter"
        /\ Idle.pc = "idle"
    BY DEF Idle
  <2>1. CASE Register(r) \/ Abandon(r) \/ SendCode(r)
    <3>1. req' = [req EXCEPT ![r] = Idle] \/ req' = [req EXCEPT ![r] = [Idle EXCEPT !.pc = "create"]]
      BY <2>1 DEF Register, Abandon, SendCode, Start, End
    <3>2. QED
      BY <2>0, <3>1, Put DEF Steps
  <2>7. CASE Login(r)
    <3>1. req' = [req EXCEPT ![r] = [Idle EXCEPT !.pc = "enter", !.password = user.password]]
      BY <2>7 DEF Login, Start
    <3>2. QED
      BY <2>0, <3>1, Put
  <2>6. CASE OAuthCallback(r)
    <3>1. PICK p \in Providers : OAuthLookup(r, p)
      BY <2>6 DEF OAuthCallback
    <3>2. \/ req' = [req EXCEPT ![r] = [Idle EXCEPT !.pc = "enter", !.password = user.password]]
          \/ req' = [req EXCEPT ![r] = [Idle EXCEPT !.pc = "link", !.kind = p]]
          \/ req' = [req EXCEPT ![r] = [Idle EXCEPT !.pc = "join", !.kind = p]]
      BY <3>1 DEF OAuthLookup, Start
    <3>3. /\ [Idle EXCEPT !.pc = "link", !.kind = p].pc = "link"
          /\ [Idle EXCEPT !.pc = "join", !.kind = p].pc = "join"
      BY DEF Idle
    <3>4. QED
      BY <2>0, <3>2, <3>3, Put
  <2>2. CASE Refresh(r)
    <3>1. PICK t \in Tokens : Start(r, [Idle EXCEPT !.pc = "rotate", !.token = t])
      BY <2>2 DEF Refresh
    <3>2. req'[r] = [Idle EXCEPT !.pc = "rotate", !.token = t]
      BY <3>1, Put DEF Start
    <3>3. req'[r].pc = "rotate" /\ req'[r].token = t
      BY <3>2 DEF Idle
    <3>4. QED
      BY <3>1, <3>3, Put DEF Start
  <2>3. CASE CountAttempt(r) \/ DropCode(r) \/ ClearAttempts(r)
    BY <2>3 DEF CountAttempt, DropCode, ClearAttempts, Goto, End, Idle, RequestRows
  <2>4. CASE \E k \in Kinds : AskForCode(r, k) \/ SubmitCode(r, k)
    <3>1. PICK k \in Kinds : AskForCode(r, k) \/ SubmitCode(r, k)
      BY <2>4
    <3>2. CASE AskForCode(r, k)
      BY <3>2 DEF AskForCode, Start, Idle
    <3>3. CASE SubmitCode(r, k)
      <4>1. PICK guess : Start(r, [Idle EXCEPT !.pc = "count", !.kind = k, !.code = code[k],
                                               !.ok = (guess = code[k])])
        BY <3>3 DEF SubmitCode
      <4>2. QED
        BY <4>1 DEF Start, Idle
    <3>4. QED
      BY <3>1, <3>2, <3>3
  <2>5. QED
    BY <2>1, <2>2, <2>3, <2>4, <2>6, <2>7
<1>3. PasswordsOK'
  BY <1>1, <1>2 DEF Inv, PasswordsOK, sessions
<1>4. \A s \in Requests : req'[s].pc = "rotate" => req'[s].token \in Tokens
  BY <1>2 DEF Inv, HistoryOK
<1>5. QED
  BY <1>1, <1>3, <1>4, KeepSessions

\* The steps that write the users row: the password stays, or a later one is set.
LEMMA RowStep ==
  ASSUME Inv, Shape', NobodyYet', NEW r \in Requests,
         CreateAccount(r) \/ Confirm(r) \/ SetPassword(r) \/ OAuthLink(r) \/ OAuthJoin(r)
  PROVE  Inv'
<1> USE DEF None
<1>1. UNCHANGED sessions /\ user \in UserRows /\ user' \in UserRows
  BY DEF CreateAccount, Confirm, SetPassword, OAuthLink, OAuthJoin, Inv, Shape
<1>2. user.password <= user'.password
  <2>1. CASE UNCHANGED user
    BY <1>1, <2>1 DEF Inv, PasswordsOK, UserRows
  <2>2. CASE ~user.exists
    BY <1>1, <2>2 DEF Inv, NobodyYet, UserRows
  <2>3. CASE user'.password \in {user.password, user.password + 1}
    BY <1>1, <2>3 DEF UserRows
  <2>5. CASE CreateAccount(r)
    BY <2>1, <2>2, <2>5 DEF CreateAccount
  <2>6. CASE OAuthJoin(r)
    BY <2>1, <2>2, <2>6 DEF OAuthJoin
  <2>7. CASE Confirm(r) \/ OAuthLink(r)
    BY <1>1, <2>3, <2>7 DEF Confirm, OAuthLink, UserRows
  <2>8. CASE SetPassword(r)
    <3>1. user.exists /\ user' = [user EXCEPT !.password = user.password + 1]
      BY <2>8 DEF SetPassword, Inv, NobodyYet
    <3>2. QED
      BY <1>1, <2>3, <3>1 DEF UserRows
  <2>9. QED
    BY <2>5, <2>6, <2>7, <2>8
<1>3. /\ \A s \in Requests \ {r} : req'[s] = req[s]
      /\ req'[r].pc # "rotate"
      /\ req'[r].pc = "expel" => req'[r].password <= user'.password
  <2> USE DEF Inv, Shape
  <2>1. CASE CreateAccount(r) \/ OAuthJoin(r)
    BY <2>1 DEF CreateAccount, OAuthJoin, End, Idle, RequestRows
  <2>2. CASE Confirm(r)
    BY <2>2 DEF Confirm, End, Idle
  <2>5. CASE OAuthLink(r)
    <3>1. \/ req' = [req EXCEPT ![r] = Idle]
          \/ req' = [req EXCEPT ![r] = [Idle EXCEPT !.pc = "enter", !.password = user.password]]
      BY <2>5 DEF OAuthLink, End
    <3>2. /\ [Idle EXCEPT !.pc = "enter", !.password = user.password].pc = "enter"
          /\ Idle.pc = "idle"
      BY DEF Idle
    <3>3. QED
      BY <3>1, <3>2, Put
  <2>3. CASE SetPassword(r)
    <3>1. /\ req' = [req EXCEPT ![r] = [req[r] EXCEPT !.pc = "expel",
                                                      !.password = user.password + 1]]
          /\ user' = [user EXCEPT !.password = user.password + 1]
      BY <2>3 DEF SetPassword
    <3>2. req'[r].pc = "expel" /\ req'[r].password = user.password + 1
      BY <3>1 DEF RequestRows
    <3>3. user'.password = user.password + 1 /\ user.password + 1 \in Nat
      BY <1>1, <3>1 DEF UserRows
    <3>4. QED
      BY <3>1, <3>2, <3>3
  <2>4. QED
    BY <2>1, <2>2, <2>3, <2>5
<1>4. PasswordsOK'
  <2>1. /\ req \in [Requests -> RequestRows] /\ PasswordsOK /\ settled' = settled
        /\ user.password \in Nat /\ user'.password \in Nat
    BY <1>1 DEF Inv, Shape, sessions, UserRows
  <2>2. \A s \in Requests : req[s].password \in Nat
    BY <2>1 DEF RequestRows
  <2>3. QED
    BY <1>2, <1>3, <2>1, <2>2 DEF PasswordsOK
<1>5. \A s \in Requests : req'[s].pc = "rotate" => req'[s].token \in Tokens
  BY <1>3 DEF Inv, HistoryOK
<1>6. QED
  BY <1>1, <1>4, <1>5, KeepSessions

\* A new session: of a user identified by a password, or after the session.
LEMMA IssueStep ==
  ASSUME Inv, Shape', NobodyYet', NEW r \in Requests, Enter(r) \/ (Rotate(r) /\ session = req[r].token)
  PROVE  Inv'
<1> USE DEF None
<1>1. PICK from \in Nat, p \in Nat :
        /\ NewSession(from, p) /\ End(r) /\ UNCHANGED user
        /\ from = None \/ (from = session /\ from \in Tokens /\ p = since[session])
  <2>1. CASE Enter(r)
    BY <2>1 DEF Enter, row, Inv, Shape, RequestRows
  <2>2. CASE Rotate(r) /\ session = req[r].token
    BY <2>2 DEF Rotate, row, Inv, HistoryOK, Tokens
  <2>3. QED
    BY <2>1, <2>2
<1>2. /\ parent' \in Seq(Nat) /\ since' \in Seq(Nat) /\ Len(since') = Len(parent')
      /\ Tokens' = Tokens \cup {Fresh} /\ Fresh \notin Tokens /\ Fresh # None
      /\ parent'[Fresh] = from /\ since'[Fresh] = p
      /\ \A t \in Tokens : parent'[t] = parent[t] /\ since'[t] = since[t]
      /\ session' = Fresh /\ revoked' = revoked /\ settled' = settled
      /\ None \notin Tokens
  BY <1>1, Issue DEF Inv
<1>3. \A s \in Requests : req'[s] = IF s = r THEN Idle ELSE req[s]
  BY <1>1 DEF Inv, Shape, End
<1>4. HistoryOK'
  <2>1. late' \subseteq Tokens'
    BY <1>1, <1>2 DEF NewSession, Inv, HistoryOK
  <2>2. \A t \in Tokens' : parent'[t] \in {None} \cup Tokens'
    BY <1>1, <1>2 DEF Inv, HistoryOK
  <2>3. \A s \in Requests : req'[s].pc = "rotate" => req'[s].token \in Tokens'
    <3>1. Idle.pc # "rotate"
      BY DEF Idle
    <3>2. QED
      BY <1>2, <1>3, <3>1 DEF Inv, HistoryOK
  <2>4. QED
    BY <1>2, <2>1, <2>2, <2>3 DEF Inv, HistoryOK
<1>5. SessionIsFresh' /\ RotatedOnce'
  <2>1. SessionIsFresh'
    <3>1. Fresh \notin revoked
      BY <1>2 DEF Inv, HistoryOK
    <3>2. ASSUME NEW t \in Tokens PROVE parent'[t] # Fresh
      BY <1>2 DEF Inv, HistoryOK
    <3>3. parent'[Fresh] # Fresh
      BY <1>1, <1>2
    <3>4. QED
      BY <1>2, <3>1, <3>2, <3>3 DEF SessionIsFresh
  <2>2. ASSUME NEW t \in Tokens', parent'[t] # None
        PROVE  parent'[t] \notin revoked' /\ \A u \in Tokens' \ {t} : parent'[u] # parent'[t]
    <3>1. CASE t = Fresh
      BY <1>1, <1>2, <2>2, <3>1 DEF Inv, SessionIsFresh
    <3>2. CASE t \in Tokens
      <4>1. parent'[t] = parent[t] /\ parent[t] # None
        BY <1>2, <2>2, <3>2
      <4>2. /\ parent[t] \notin revoked
            /\ \A u \in Tokens \ {t} : parent[u] # parent[t]
        BY <3>2, <4>1 DEF Inv, RotatedOnce
      <4>3. from # parent[t]
        BY <1>1, <3>2, <4>1 DEF Inv, SessionIsFresh
      <4>4. QED
        BY <1>2, <4>1, <4>2, <4>3
    <3>3. QED
      BY <1>2, <3>1, <3>2
  <2>3. QED
    BY <2>1, <2>2 DEF RotatedOnce
<1>6. PasswordsOK'
  BY <1>1, <1>2, <1>3 DEF Inv, PasswordsOK, Idle
<1>7. ResetEndsSessions'
  <2>1. late' = IF from \in late \/ (from = None /\ p # user.password)
                THEN late \cup {Fresh} ELSE late
    BY <1>1 DEF NewSession
  <2>2. CASE from = None
    BY <1>2, <2>1, <2>2 DEF Inv, PasswordsOK, ResetEndsSessions, Shape, UserRows
  <2>3. CASE from = session /\ from \in Tokens /\ p = since[session]
    BY <1>2, <2>1, <2>3 DEF Inv, ResetEndsSessions
  <2>4. QED
    BY <1>1, <2>2, <2>3
<1>8. QED
  BY <1>4, <1>5, <1>6, <1>7 DEF Inv

\* The session ends, with or without a trace in what has been revoked.
LEMMA EndStep ==
  ASSUME Inv, Shape', NobodyYet',
         \/ SessionExpires \/ \E t \in Tokens : Logout(t)
         \/ \E r \in Requests : Expel(r)
  PROVE  Inv'
<1> USE DEF None
<1>1. /\ session' = None /\ revoked' \subseteq revoked \cup ({session} \ {None})
      /\ UNCHANGED <<parent, since, late, user>> /\ Tokens' = Tokens
  BY DEF SessionExpires, Logout, Expel, row, Inv, HistoryOK, Tokens
<1>2. /\ \A s \in Requests : req'[s].pc \in {"rotate", "expel"} => req'[s] = req[s]
      /\ settled' = settled \/ \E s \in Requests : req[s].pc = "expel" /\ settled' = req[s].password
  BY DEF SessionExpires, Logout, Expel, End, Idle, Inv, Shape
<1>3. None \notin Tokens
  BY DEF Inv, HistoryOK, Tokens
<1>4. PasswordsOK'
  BY <1>1, <1>2 DEF Inv, PasswordsOK, Shape, RequestRows
<1>5. HistoryOK' /\ SessionIsFresh' /\ RotatedOnce' /\ ResetEndsSessions'
  BY <1>1, <1>2, <1>3 DEF Inv, HistoryOK, SessionIsFresh, RotatedOnce, ResetEndsSessions
<1>6. QED
  BY <1>4, <1>5 DEF Inv

LEMMA NextInv == Inv /\ [Next]_vars => Inv'
<1> SUFFICES ASSUME Inv, [Next]_vars PROVE Inv'
  OBVIOUS
<1>0. Shape' /\ NobodyYet'
  BY NextShape, NextNobody DEF Inv
<1>1. ASSUME NEW r \in Requests,
             \/ Register(r) \/ SendCode(r) \/ CountAttempt(r) \/ DropCode(r) \/ ClearAttempts(r)
             \/ Login(r) \/ Refresh(r) \/ OAuthCallback(r) \/ Abandon(r)
             \/ \E k \in Kinds : AskForCode(r, k) \/ SubmitCode(r, k)
      PROVE  Inv'
  BY <1>0, <1>1, OtherStep
<1>2. ASSUME NEW r \in Requests,
             CreateAccount(r) \/ Confirm(r) \/ SetPassword(r) \/ OAuthLink(r) \/ OAuthJoin(r)
      PROVE  Inv'
  BY <1>0, <1>2, RowStep
<1>3. ASSUME NEW r \in Requests, Enter(r) \/ (Rotate(r) /\ session = req[r].token)
      PROVE  Inv'
  BY <1>0, <1>3, IssueStep
<1>4. ASSUME NEW r \in Requests, Rotate(r), session # req[r].token
      PROVE  Inv'
  <2>1. /\ \A s \in Requests : req'[s] = IF s = r THEN Idle ELSE req[s]
        /\ UNCHANGED sessions /\ UNCHANGED user
    BY <1>4 DEF Rotate, End, Inv, Shape, row
  <2>2. PasswordsOK' /\ \A s \in Requests : req'[s].pc = "rotate" => req'[s].token \in Tokens
    BY <2>1 DEF Inv, PasswordsOK, HistoryOK, Idle, sessions
  <2>3. QED
    BY <1>0, <2>1, <2>2, KeepSessions
<1>5. CASE \/ SessionExpires \/ \E t \in Tokens : Logout(t)
           \/ \E r \in Requests : Expel(r)
  BY <1>0, <1>5, EndStep
<1>6. CASE SetStatus \/ UNCHANGED vars \/ \E k \in Kinds : CodeExpires(k) \/ CounterExpires(k)
  <2>1. UNCHANGED sessions /\ UNCHANGED req
    BY <1>6 DEF SetStatus, vars, CodeExpires, CounterExpires, sessions
  <2>2. user'.password = user.password /\ user'.exists = user.exists
    BY <1>6 DEF SetStatus, vars, CodeExpires, CounterExpires, row, Inv, Shape, UserRows
  <2>3. PasswordsOK' /\ \A s \in Requests : req'[s].pc = "rotate" => req'[s].token \in Tokens
    BY <2>1, <2>2 DEF Inv, PasswordsOK, HistoryOK, sessions
  <2>4. QED
    BY <1>0, <2>1, <2>3, KeepSessions
<1>7. QED
  BY <1>1, <1>2, <1>3, <1>4, <1>5, <1>6 DEF Next

LEMMA AlwaysInv == Spec => []Inv
BY InitInv, NextInv, PTL DEF Spec

\* Whatever requests race, a refresh token is rotated at most once, and what a
\* logout or a new password ended is never continued (rotateSession, logout).
THEOREM TokensAreRotatedOnce == Spec => []RotatedOnce
<1>1. Inv => RotatedOnce
  BY DEF Inv
<1>2. QED
  BY AlwaysInv, <1>1, PTL

\* After a new password only a login that was under way goes back to a user
\* identified by an earlier one (resetPassword).
THEOREM PasswordsEndSessions == Spec => []ResetEndsSessions
<1>1. Inv => ResetEndsSessions
  BY DEF Inv
<1>2. QED
  BY AlwaysInv, <1>1, PTL

-----------------------------------------------------------------------------
(* Attempts at a code *)

N == Cardinality(Requests)

\* The requests that are about to reset the counter of kind k, and those that
\* have read code c and are about to compare a guess with it.
Clearing(k) == {r \in Requests : req[r].pc = "clear" /\ req[r].kind = k}
Counting(c) == {r \in Requests : req[r].pc = "count" /\ req[r].code = c}

\* Code c is the one Redis keeps.
Current(c) == issued[c] \in Kinds /\ code[issued[c]] = c

\* The attempts that the counter of kind k stands for.
Counted(k) == IF attempts[k] < MAX_ATTEMPTS THEN attempts[k] ELSE MAX_ATTEMPTS

\* Each code has its history, and requests name codes of their kind.
CodesOK ==
  /\ tries \in Seq(Nat) /\ Len(tries) = Len(issued) /\ attempts \in [Kinds -> Nat]
  /\ \A k \in Kinds : code[k] # None => code[k] \in Codes /\ issued[code[k]] = k
  /\ \A r \in Requests :
       /\ req[r].pc = "count" => req[r].code \in Codes /\ issued[req[r].code] = req[r].kind
       /\ req[r].pc \in {"count", "drop", "clear"} => req[r].kind \in Kinds

\* While a code is kept, a new round of attempts at it begins only when one of the
\* requests that dropped an earlier code resets the counter; no request joins
\* these without dropping the code.  Then who has read it may still try once.
RoundsAt(c) ==
  IF Current(c)
  THEN /\ Cardinality(Clearing(issued[c])) < N
       /\ tries[c] <= Counted(issued[c])
                        + MAX_ATTEMPTS * (N - 1 - Cardinality(Clearing(issued[c])))
  ELSE tries[c] + Cardinality(Counting(c)) <= N * (MAX_ATTEMPTS + 1)

Rounds == \A c \in Codes : RoundsAt(c)

\* Sets of requests, one within the other.
LEMMA Fewer ==
  ASSUME NEW T \in SUBSET Requests, NEW S \in SUBSET T
  PROVE  /\ IsFiniteSet(S) /\ IsFiniteSet(T) /\ N \in Nat
         /\ Cardinality(S) \in Nat /\ Cardinality(T) \in Nat
         /\ Cardinality(S) <= Cardinality(T) /\ Cardinality(T) <= N
<1>1. IsFiniteSet(Requests) /\ IsFiniteSet(T)
  BY AccountsAssumption, FS_Subset
<1>2. IsFiniteSet(S)
  BY <1>1, FS_Subset
<1>3. Cardinality(S) <= Cardinality(T) /\ Cardinality(T) <= N
  BY <1>1, FS_Subset DEF N
<1>4. QED
  BY <1>1, <1>2, <1>3, FS_CardinalityType DEF N

\* Products with the number of attempts.
LEMMA Products ==
  ASSUME NEW a \in Int, NEW b \in Int
  PROVE  /\ MAX_ATTEMPTS * a \in Int /\ MAX_ATTEMPTS * (a + 1) = MAX_ATTEMPTS * a + MAX_ATTEMPTS
         /\ a * (MAX_ATTEMPTS + 1) = MAX_ATTEMPTS * a + a
         /\ a <= b => MAX_ATTEMPTS * a <= MAX_ATTEMPTS * b
         /\ 0 <= a => 0 <= MAX_ATTEMPTS * a
<1>1. MAX_ATTEMPTS \in Nat
  BY AccountsAssumption
<1>2. /\ MAX_ATTEMPTS * a \in Int /\ MAX_ATTEMPTS * (a + 1) = MAX_ATTEMPTS * a + MAX_ATTEMPTS
      /\ a * (MAX_ATTEMPTS + 1) = MAX_ATTEMPTS * a + a
  BY <1>1
<1>3. \A m \in Nat, x, y \in Int : x <= y => m * x <= m * y
  OBVIOUS
<1>4. QED
  BY <1>1, <1>2, <1>3

\* The ceiling bounds what the counter stands for.
LEMMA CountedType ==
  ASSUME NEW k, attempts[k] \in Nat
  PROVE  Counted(k) \in Nat /\ Counted(k) <= MAX_ATTEMPTS
BY AccountsAssumption DEF Counted

\* A code that is replaced or deleted leaves as many more attempts as requests.
LEMMA Replaced ==
  ASSUME CodesOK, NEW c \in Codes, RoundsAt(c), Current(c), NEW T \in SUBSET Requests
  PROVE  tries[c] + Cardinality(T) <= N * (MAX_ATTEMPTS + 1)
<1> DEFINE m == Cardinality(Clearing(issued[c]))
<1>1. Clearing(issued[c]) \in SUBSET Requests
  BY DEF Clearing
<1>2. N \in Nat /\ m \in Nat /\ m < N /\ Cardinality(T) \in Nat /\ Cardinality(T) <= N
  BY <1>1, Fewer DEF RoundsAt
<1>3. MAX_ATTEMPTS \in Nat /\ Counted(issued[c]) \in Nat /\ Counted(issued[c]) <= MAX_ATTEMPTS
  BY AccountsAssumption, CountedType DEF CodesOK, Current
<1>4. tries[c] \in Nat
  BY DEF CodesOK, Codes
<1>5. tries[c] <= Counted(issued[c]) + MAX_ATTEMPTS * (N - 1 - m)
  BY DEF RoundsAt
<1>6. /\ MAX_ATTEMPTS * (N - 1 - m) <= MAX_ATTEMPTS * (N - 1)
      /\ MAX_ATTEMPTS * (N - 1 - m) \in Int /\ MAX_ATTEMPTS * (N - 1) \in Int
      /\ MAX_ATTEMPTS * ((N - 1) + 1) = MAX_ATTEMPTS * (N - 1) + MAX_ATTEMPTS
  <2>1. N - 1 - m \in Int /\ N - 1 \in Int /\ N - 1 - m <= N - 1
    BY <1>2
  <2>2. QED
    BY <2>1, Products
<1>7. N * (MAX_ATTEMPTS + 1) = MAX_ATTEMPTS * N + N /\ (N - 1) + 1 = N
  BY <1>2, Products
<1>8. QED
  <2> HIDE DEF m
  <2> QED
    BY <1>2, <1>3, <1>4, <1>5, <1>6, <1>7

\* A code that stays what it is and is not tried: fewer requests do not matter.
LEMMA Untried ==
  ASSUME CodesOK, Shape, NEW c \in Codes, RoundsAt(c),
         Current(c)' <=> Current(c), tries'[c] = tries[c], issued'[c] = issued[c],
         Clearing(issued[c])' \subseteq Clearing(issued[c]),
         ~Current(c) => Counting(c)' \subseteq Counting(c),
         Current(c) => Counted(issued[c]) <= Counted(issued[c])' /\ Counted(issued[c])' \in Nat
  PROVE  RoundsAt(c)'
<1> DEFINE m == Cardinality(Clearing(issued[c]))
           n == Cardinality(Clearing(issued[c])')
<1>1. /\ Clearing(issued[c]) \in SUBSET Requests /\ Counting(c) \in SUBSET Requests
      /\ tries[c] \in Nat
  BY DEF Clearing, Counting, CodesOK, Codes
<1>2. n \in Nat /\ m \in Nat /\ N \in Nat /\ n <= m
  BY <1>1, Fewer
<1>3. CASE ~Current(c)
  <2>1. /\ Cardinality(Counting(c)') <= Cardinality(Counting(c)) /\ Cardinality(Counting(c)) \in Nat
        /\ Cardinality(Counting(c)') \in Nat
    BY <1>1, <1>3, Fewer
  <2>2. tries[c] + Cardinality(Counting(c)) <= N * (MAX_ATTEMPTS + 1)
    BY <1>3 DEF RoundsAt
  <2>3. N * (MAX_ATTEMPTS + 1) \in Int
    BY <1>2, AccountsAssumption
  <2>4. tries[c] + Cardinality(Counting(c)') <= N * (MAX_ATTEMPTS + 1)
    BY <1>1, <2>1, <2>2, <2>3
  <2>5. QED
    BY <1>3, <2>4 DEF RoundsAt, N
<1>4. CASE Current(c)
  <2>1. m < N /\ tries[c] <= Counted(issued[c]) + MAX_ATTEMPTS * (N - 1 - m)
    BY <1>4 DEF RoundsAt
  <2>2. /\ MAX_ATTEMPTS * (N - 1 - m) <= MAX_ATTEMPTS * (N - 1 - n)
        /\ MAX_ATTEMPTS * (N - 1 - m) \in Int /\ MAX_ATTEMPTS * (N - 1 - n) \in Int
    <3>1. N - 1 - m \in Int /\ N - 1 - n \in Int /\ N - 1 - m <= N - 1 - n
      BY <1>2
    <3>2. QED
      BY <3>1, Products
  <2>3. Counted(issued[c]) \in Nat
    BY <1>4, CountedType DEF CodesOK, Current
  <2>4. n < N /\ tries[c] <= Counted(issued[c])' + MAX_ATTEMPTS * (N - 1 - n)
    <3> HIDE DEF m, n
    <3> QED
      BY <1>1, <1>2, <1>4, <2>1, <2>2, <2>3
  <2>5. QED
    BY <1>4, <2>4 DEF RoundsAt, N
<1>5. QED
  BY <1>3, <1>4

\* Request r gets the row q: what becomes of the two sets.
LEMMA Moves ==
  ASSUME Shape, NEW r \in Requests, NEW q, req' = [req EXCEPT ![r] = q]
  PROVE  /\ q.pc # "clear" => \A k : Clearing(k)' = Clearing(k) \ {r}
         /\ q.pc # "count" => \A c : Counting(c)' = Counting(c) \ {r}
         /\ \A k : q.kind # k => Clearing(k)' = Clearing(k) \ {r}
         /\ \A c : q.code # c => Counting(c)' = Counting(c) \ {r}
<1>1. req'[r] = q /\ \A s \in Requests \ {r} : req'[s] = req[s]
  BY Put
<1>2. \A k : q.pc # "clear" \/ q.kind # k => Clearing(k)' = Clearing(k) \ {r}
  BY <1>1 DEF Clearing
<1>3. \A c : q.pc # "count" \/ q.code # c => Counting(c)' = Counting(c) \ {r}
  BY <1>1 DEF Counting
<1>4. QED
  BY <1>2, <1>3

\* Steps that have nothing to do with codes.
LEMMA Elsewhere ==
  ASSUME Shape, CodesOK, Rounds, UNCHANGED codes,
         \/ UNCHANGED req
         \/ \E r \in Requests : \E q : /\ req' = [req EXCEPT ![r] = q]
                                       /\ q.pc \notin {"count", "drop", "clear"}
  PROVE  CodesOK' /\ Rounds'
<1> USE DEF codes
<1>1. /\ \A k : Clearing(k)' \subseteq Clearing(k)
      /\ \A c : Counting(c)' \subseteq Counting(c)
  <2>1. CASE UNCHANGED req
    BY <2>1 DEF Clearing, Counting
  <2>2. ASSUME NEW r \in Requests, NEW q, req' = [req EXCEPT ![r] = q], q.pc \notin {"count", "clear"}
        PROVE  /\ \A k : Clearing(k)' \subseteq Clearing(k)
               /\ \A c : Counting(c)' \subseteq Counting(c)
    <3>1. q.pc # "clear" /\ q.pc # "count"
      BY <2>2
    <3>2. /\ \A k : Clearing(k)' = Clearing(k) \ {r}
          /\ \A c : Counting(c)' = Counting(c) \ {r}
      BY <2>2, <3>1, Moves
    <3>3. QED
      BY <3>2
  <2>3. QED
    BY <2>1, <2>2
<1>2. CodesOK'
  <2>1. \A s \in Requests : req'[s] = req[s] \/ req'[s].pc \notin {"count", "drop", "clear"}
    BY Put
  <2>2. QED
    BY <2>1 DEF CodesOK, Codes
<1>3. ASSUME NEW c \in Codes
      PROVE  RoundsAt(c)'
  <2>1. Current(c)' <=> Current(c)
    BY DEF Current
  <2>2. Current(c) => Counted(issued[c])' = Counted(issued[c]) /\ Counted(issued[c]) \in Nat
    BY CountedType DEF Counted, CodesOK, Current
  <2>3. QED
    BY <1>1, <2>1, <2>2, Untried DEF Rounds
<1>4. QED
  BY <1>2, <1>3 DEF Rounds, Codes

\* A code is sent: it replaces the one before.
LEMMA Sent ==
  ASSUME Shape, CodesOK, Rounds, NEW r \in Requests, SendCode(r)
  PROVE  CodesOK' /\ Rounds'
<1>0. PICK kind, new : kind = req[r].kind /\ new = Len(issued) + 1
  OBVIOUS
<1>1. /\ code' = [code EXCEPT ![kind] = new] /\ req' = [req EXCEPT ![r] = Idle]
      /\ issued' = Append(issued, kind) /\ tries' = Append(tries, 0) /\ attempts' = attempts
      /\ req[r].pc = "send"
  BY <1>0 DEF SendCode, End
<1>2. kind \in AllKinds
  BY <1>0 DEF Shape, RequestRows
<1>3. /\ Codes = 1..Len(issued) /\ Len(issued) \in Nat /\ Codes' = Codes \cup {new}
      /\ new \notin Codes /\ new \in Nat /\ new # None
      /\ issued'[new] = kind /\ tries'[new] = 0 /\ Len(tries') = Len(issued')
      /\ tries' \in Seq(Nat)
      /\ \A c \in Codes : issued'[c] = issued[c] /\ tries'[c] = tries[c]
  BY <1>0, <1>1, <1>2 DEF Codes, Shape, CodesOK, None
<1>4. /\ Idle.pc = "idle" /\ \A k : Clearing(k)' = Clearing(k) \ {r}
      /\ \A c : Counting(c)' = Counting(c) \ {r}
  <2>1. Idle.pc = "idle"
    BY DEF Idle
  <2>2. QED
    BY <1>1, <2>1, Moves
<1>5. CodesOK'
  <2>1. \A s \in Requests : req'[s] = IF s = r THEN Idle ELSE req[s]
    BY <1>1, Put
  <2>2. \A k \in Kinds : code'[k] = IF k = kind THEN new ELSE code[k]
    BY <1>1 DEF Shape
  <2>3. \A k \in Kinds : code'[k] # None => code'[k] \in Codes' /\ issued'[code'[k]] = k
    BY <1>3, <2>2 DEF CodesOK
  <2>4. ASSUME NEW s \in Requests
        PROVE  /\ req'[s].pc = "count" =>
                    req'[s].code \in Codes' /\ issued'[req'[s].code] = req'[s].kind
               /\ req'[s].pc \in {"count", "drop", "clear"} => req'[s].kind \in Kinds
    <3>1. CASE s = r
      BY <1>4, <2>1, <3>1
    <3>2. CASE s # r
      <4>1. req'[s] = req[s]
        BY <2>1, <3>2
      <4>2. req[s].pc = "count" => req[s].code \in Codes /\ issued[req[s].code] = req[s].kind
        BY DEF CodesOK
      <4>3. req[s].pc \in {"count", "drop", "clear"} => req[s].kind \in Kinds
        BY DEF CodesOK
      <4>4. QED
        BY <1>3, <4>1, <4>2, <4>3
    <3>3. QED
      BY <3>1, <3>2
  <2>5. attempts' \in [Kinds -> Nat]
    BY <1>1 DEF CodesOK
  <2>6. QED
    BY <1>3, <2>3, <2>4, <2>5 DEF CodesOK
<1>6. RoundsAt(new)'
  <2>1. Cardinality(Clearing(kind)') < N /\ Cardinality(Clearing(kind)') \in Nat
    <3>1. Clearing(kind)' \in SUBSET (Requests \ {r}) /\ IsFiniteSet(Requests)
      BY <1>4, AccountsAssumption DEF Clearing
    <3>2. Cardinality(Requests \ {r}) = N - 1 /\ IsFiniteSet(Requests \ {r})
      BY <3>1, FS_RemoveElement DEF N
    <3>3. Cardinality(Clearing(kind)') <= N - 1
      BY <3>1, <3>2, FS_Subset
    <3>4. Cardinality(Clearing(kind)') \in Nat /\ N \in Nat
      BY <3>1, FS_CardinalityType, FS_Subset DEF N
    <3>5. QED
      BY <3>3, <3>4
  <2>2. Cardinality(Counting(new)') \in Nat /\ Cardinality(Counting(new)') <= N /\ N \in Nat
    <3>1. Counting(new)' \in SUBSET Requests
      BY DEF Counting
    <3>2. QED
      BY <3>1, Fewer
  <2>3. /\ N - 1 - Cardinality(Clearing(kind)') \in Nat
        /\ 0 <= MAX_ATTEMPTS * (N - 1 - Cardinality(Clearing(kind)'))
        /\ MAX_ATTEMPTS * (N - 1 - Cardinality(Clearing(kind)')) \in Int
    <3>1. N - 1 - Cardinality(Clearing(kind)') \in Nat
      BY <2>1, <2>2
    <3>2. QED
      BY <3>1, Products
  <2>4. N * (MAX_ATTEMPTS + 1) \in Int /\ N <= N * (MAX_ATTEMPTS + 1)
    <3>1. N * (MAX_ATTEMPTS + 1) = MAX_ATTEMPTS * N + N /\ 0 <= MAX_ATTEMPTS * N
          /\ MAX_ATTEMPTS * N \in Int
      BY <2>2, Products
    <3>2. QED
      BY <2>2, <3>1
  <2>5. Current(new)' => Counted(kind)' \in Nat
    <3>1. Current(new)' => kind \in Kinds
      BY <1>3 DEF Current
    <3>2. kind \in Kinds => attempts[kind] \in Nat /\ Counted(kind)' = Counted(kind)
      BY <1>1 DEF CodesOK, Counted
    <3>3. QED
      BY <3>1, <3>2, CountedType
  <2>6. Current(new)' => 0 <= Counted(kind)' + MAX_ATTEMPTS * (N - 1 - Cardinality(Clearing(kind)'))
    BY <2>3, <2>5
  <2>7. 0 + Cardinality(Counting(new)') <= N * (MAX_ATTEMPTS + 1)
    BY <2>2, <2>4
  <2>8. tries'[new] = 0 /\ issued'[new] = kind /\ N' = N
    BY <1>3 DEF N
  <2>9. RoundsAt(new)' <=> IF Current(new)'
          THEN /\ Cardinality(Clearing(kind)') < N
               /\ 0 <= Counted(kind)' + MAX_ATTEMPTS * (N - 1 - Cardinality(Clearing(kind)'))
          ELSE 0 + Cardinality(Counting(new)') <= N * (MAX_ATTEMPTS + 1)
    BY <2>8 DEF RoundsAt
  <2>10. QED
    BY <2>1, <2>6, <2>7, <2>9
<1>7. ASSUME NEW c \in Codes
      PROVE  RoundsAt(c)'
  <2>1. RoundsAt(c) /\ issued'[c] = issued[c] /\ tries'[c] = tries[c] /\ c # new
    BY <1>3 DEF Rounds
  <2>2. Current(c)' => Current(c)
    BY <1>1, <2>1 DEF Current, Shape
  <2>3. CASE Current(c)' <=> Current(c)
    <3>1. Current(c) => Counted(issued[c])' = Counted(issued[c]) /\ Counted(issued[c]) \in Nat
      <4>1. Counted(issued[c])' = Counted(issued[c])
        BY <1>1, <2>1 DEF Counted
      <4>2. QED
        BY <4>1, CountedType DEF CodesOK, Current
    <3>2. QED
      BY <1>4, <2>1, <2>3, <3>1, Untried
  <2>4. CASE Current(c) /\ ~Current(c)'
    <3>1. Counting(c)' \in SUBSET Requests
      BY DEF Counting
    <3>2. tries[c] + Cardinality(Counting(c)') <= N * (MAX_ATTEMPTS + 1)
      BY <2>1, <2>4, <3>1, Replaced
    <3>3. QED
      BY <2>1, <2>4, <3>2 DEF RoundsAt, N
  <2>5. QED
    BY <2>2, <2>3, <2>4
<1>8. Rounds'
  <2>1. \A c \in Codes' : RoundsAt(c)'
    BY <1>3, <1>6, <1>7
  <2>2. QED
    BY <2>1 DEF Rounds
<1>9. QED
  BY <1>5, <1>8

\* A guess is counted and compared, or found to be one too many.
LEMMA Attempted ==
  ASSUME Shape, CodesOK, Rounds, NEW r \in Requests, CountAttempt(r)
  PROVE  CodesOK' /\ Rounds'
<1>0. PICK k, tried, count : /\ k = req[r].kind /\ tried = req[r].code
                             /\ count = IF attempts[k] > MAX_ATTEMPTS THEN attempts[k]
                                        ELSE attempts[k] + 1
  OBVIOUS
<1>1. /\ k \in Kinds /\ tried \in Codes /\ issued[tried] = k /\ req[r].pc = "count"
      /\ attempts[k] \in Nat /\ count \in Nat /\ MAX_ATTEMPTS \in Nat
      /\ \A c \in Codes : tries[c] \in Nat
  <2>1. req[r].pc = "count"
    BY DEF CountAttempt
  <2>2. k \in Kinds /\ tried \in Codes /\ issued[tried] = k
    BY <1>0, <2>1 DEF CodesOK
  <2>3. attempts[k] \in Nat /\ MAX_ATTEMPTS \in Nat
    BY <2>2, AccountsAssumption DEF CodesOK
  <2>4. count \in Nat
    BY <1>0, <2>3
  <2>5. \A c \in Codes : tries[c] \in Nat
    BY DEF CodesOK, Codes
  <2>6. QED
    BY <2>1, <2>2, <2>3, <2>4, <2>5
<1>2. /\ UNCHANGED <<code, issued>> /\ attempts' = [attempts EXCEPT ![k] = count]
      /\ \/ count > MAX_ATTEMPTS /\ UNCHANGED tries
         \/ count <= MAX_ATTEMPTS /\ tries' = [tries EXCEPT ![tried] = @ + 1]
  BY <1>0, <1>1 DEF CountAttempt
<1>3. PICK q : /\ req' = [req EXCEPT ![r] = q]
               /\ q.pc = "idle" \/ (q.pc = "drop" /\ q.kind = k)
  <2>1. [req[r] EXCEPT !.pc = "drop"].pc = "drop" /\ [req[r] EXCEPT !.pc = "drop"].kind = k
    BY <1>0 DEF Shape, RequestRows
  <2>2. [req[r] EXCEPT !.pc = "drop", !.ok = FALSE].pc = "drop"
        /\ [req[r] EXCEPT !.pc = "drop", !.ok = FALSE].kind = k
    BY <1>0 DEF Shape, RequestRows
  <2>3. \/ req' = [req EXCEPT ![r] = [req[r] EXCEPT !.pc = "drop", !.ok = FALSE]]
        \/ req' = [req EXCEPT ![r] = [req[r] EXCEPT !.pc = "drop"]]
        \/ req' = [req EXCEPT ![r] = Idle]
    BY DEF CountAttempt, Goto, End
  <2>4. Idle.pc = "idle"
    BY DEF Idle
  <2>5. QED
    BY <2>1, <2>2, <2>3, <2>4
<1>4. /\ \A j : Clearing(j)' = Clearing(j) \ {r}
      /\ \A c : Counting(c)' = Counting(c) \ {r}
  <2>1. q.pc # "clear" /\ q.pc # "count"
    BY <1>3
  <2>2. QED
    BY <1>3, <2>1, Moves
<1>5. /\ \A j \in Kinds : attempts[j] \in Nat /\ attempts'[j] = IF j = k THEN count ELSE attempts[j]
      /\ \A j \in Kinds : Counted(j)' \in Nat /\ Counted(j) \in Nat /\ Counted(j) <= Counted(j)'
      /\ count <= MAX_ATTEMPTS => Counted(k)' = Counted(k) + 1
  <2>1. \A j \in Kinds : attempts[j] \in Nat /\ attempts'[j] = IF j = k THEN count ELSE attempts[j]
    BY <1>1, <1>2 DEF CodesOK
  <2>2. count = IF attempts[k] > MAX_ATTEMPTS THEN attempts[k] ELSE attempts[k] + 1
    BY <1>0
  <2>3. QED
    BY <1>1, <2>1, <2>2 DEF Counted
<1>6. CodesOK'
  <2>1. /\ tries' \in Seq(Nat) /\ Len(tries') = Len(issued')
        /\ attempts' \in [Kinds -> Nat]
    <3>1. tries' \in Seq(Nat) /\ Len(tries') = Len(tries)
      BY <1>1, <1>2 DEF CodesOK
    <3>2. QED
      BY <1>1, <1>2, <3>1 DEF CodesOK
  <2>2. req'[r] = q /\ \A s \in Requests \ {r} : req'[s] = req[s]
    BY <1>3, Put
  <2>3. ASSUME NEW s \in Requests
        PROVE  /\ req'[s].pc = "count" =>
                    req'[s].code \in Codes' /\ issued'[req'[s].code] = req'[s].kind
               /\ req'[s].pc \in {"count", "drop", "clear"} => req'[s].kind \in Kinds
    <3>1. CASE s = r
      BY <1>1, <1>3, <2>2, <3>1
    <3>2. CASE s # r
      BY <1>2, <2>2, <3>2 DEF CodesOK, Codes
    <3>3. QED
      BY <3>1, <3>2
  <2>4. QED
    BY <1>2, <2>1, <2>3 DEF CodesOK, Codes
<1>7. ASSUME NEW c \in Codes
      PROVE  RoundsAt(c)'
  <2>1. RoundsAt(c) /\ issued'[c] = issued[c] /\ (Current(c)' <=> Current(c))
    BY <1>2 DEF Rounds, Current
  <2>2. CASE tries'[c] = tries[c]
    <3>1. Current(c) => Counted(issued[c]) <= Counted(issued[c])' /\ Counted(issued[c])' \in Nat
      BY <1>5, <2>1 DEF Current
    <3>2. QED
      BY <1>4, <2>1, <2>2, <3>1, Untried
  <2>3. CASE tries'[c] # tries[c]
    <3>1. c = tried /\ tries'[c] = tries[c] + 1 /\ count <= MAX_ATTEMPTS /\ issued[c] = k
      BY <1>1, <1>2, <2>3 DEF CodesOK, Codes
    <3>2. Clearing(k) \in SUBSET Requests /\ Counting(c) \in SUBSET Requests
      BY DEF Clearing, Counting
    <3>3. /\ Cardinality(Clearing(k)') <= Cardinality(Clearing(k)) /\ N \in Nat
          /\ Cardinality(Clearing(k)') \in Nat /\ Cardinality(Clearing(k)) \in Nat
      BY <1>4, <3>2, Fewer
    <3>4. CASE ~Current(c)
      <4>1. r \in Counting(c) /\ Counting(c)' = Counting(c) \ {r} /\ IsFiniteSet(Counting(c))
        BY <1>0, <1>1, <1>4, <3>1, <3>2, Fewer DEF Counting
      <4>2. Cardinality(Counting(c)') = Cardinality(Counting(c)) - 1
            /\ Cardinality(Counting(c)) \in Nat
        BY <4>1, FS_RemoveElement, FS_CardinalityType
      <4>3. tries[c] + Cardinality(Counting(c)) <= N * (MAX_ATTEMPTS + 1)
        BY <2>1, <3>4 DEF RoundsAt
      <4>4. tries'[c] + Cardinality(Counting(c)') = tries[c] + Cardinality(Counting(c))
        BY <1>1, <3>1, <4>2
      <4>5. QED
        BY <2>1, <3>4, <4>3, <4>4 DEF RoundsAt, N
    <3>5. CASE Current(c)
      <4>1. /\ Cardinality(Clearing(k)) < N
            /\ tries[c] <= Counted(k) + MAX_ATTEMPTS * (N - 1 - Cardinality(Clearing(k)))
        BY <2>1, <3>1, <3>5 DEF RoundsAt
      <4>2. PICK m, n : m = Cardinality(Clearing(k)) /\ n = Cardinality(Clearing(k)')
        OBVIOUS
      <4>3. /\ MAX_ATTEMPTS * (N - 1 - m) <= MAX_ATTEMPTS * (N - 1 - n)
            /\ MAX_ATTEMPTS * (N - 1 - m) \in Int /\ MAX_ATTEMPTS * (N - 1 - n) \in Int
        <5>1. N - 1 - m \in Int /\ N - 1 - n \in Int /\ N - 1 - m <= N - 1 - n
          BY <3>3, <4>2
        <5>2. QED
          BY <5>1, Products
      <4>4. Counted(k) \in Nat /\ Counted(k)' = Counted(k) + 1 /\ tries[c] \in Nat
        BY <1>1, <1>5, <3>1
      <4>5. n < N /\ tries'[c] <= Counted(k)' + MAX_ATTEMPTS * (N - 1 - n)
        BY <3>1, <3>3, <4>1, <4>2, <4>3, <4>4
      <4>6. QED
        BY <2>1, <3>1, <3>5, <4>2, <4>5 DEF RoundsAt, N
    <3>6. QED
      BY <3>4, <3>5
  <2>4. QED
    BY <2>2, <2>3
<1>8. QED
  BY <1>2, <1>6, <1>7 DEF Rounds, Codes

\* A code is read with its kind, dropped, or the counter is reset: request r
\* goes on with the same kind, or ends.
LEMMA HandledOK ==
  ASSUME Shape, CodesOK, NEW r \in Requests, NEW q, req' = [req EXCEPT ![r] = q],
         UNCHANGED <<issued, tries>>, attempts' \in [Kinds -> Nat],
         \A k \in Kinds : code'[k] \in {code[k], None},
         q.pc = "count" => q.code \in Codes /\ issued[q.code] = q.kind,
         q.pc \in {"count", "drop", "clear"} => q.kind \in Kinds
  PROVE  CodesOK'
<1>1. \A s \in Requests : req'[s] = IF s = r THEN q ELSE req[s]
  BY Put
<1>2. \A k \in Kinds : code'[k] # None => code'[k] \in Codes' /\ issued'[code'[k]] = k
  BY DEF CodesOK, Codes
<1>3. ASSUME NEW s \in Requests
      PROVE  /\ req'[s].pc = "count" =>
                  req'[s].code \in Codes' /\ issued'[req'[s].code] = req'[s].kind
             /\ req'[s].pc \in {"count", "drop", "clear"} => req'[s].kind \in Kinds
  BY <1>1 DEF CodesOK, Codes
<1>4. QED
  BY <1>2, <1>3 DEF CodesOK

\* A request reads the code.
LEMMA Submitted ==
  ASSUME Shape, CodesOK, Rounds, NEW r \in Requests, NEW k \in Kinds, SubmitCode(r, k)
  PROVE  CodesOK' /\ Rounds'
<1>1. UNCHANGED codes /\ code[k] # None
  BY DEF SubmitCode
<1>2. PICK q : req' = [req EXCEPT ![r] = q] /\ q.pc = "count" /\ q.kind = k /\ q.code = code[k]
  <2>1. PICK guess : Start(r, [Idle EXCEPT !.pc = "count", !.kind = k, !.code = code[k],
                                           !.ok = (guess = code[k])])
    BY DEF SubmitCode
  <2>2. PICK q : q = [Idle EXCEPT !.pc = "count", !.kind = k, !.code = code[k],
                                  !.ok = (guess = code[k])]
    OBVIOUS
  <2>3. q.pc = "count" /\ q.kind = k /\ q.code = code[k]
    BY <2>2 DEF Idle
  <2>4. QED
    BY <2>1, <2>2, <2>3 DEF Start
<1>3. q.code \in Codes /\ issued[q.code] = k
  BY <1>1, <1>2 DEF CodesOK
<1>4. CodesOK'
  <2>1. attempts' \in [Kinds -> Nat] /\ UNCHANGED <<issued, tries, code>>
    BY <1>1 DEF codes, CodesOK
  <2>2. QED
    BY <1>2, <1>3, <2>1, HandledOK
<1>5. \A j : Clearing(j)' \subseteq Clearing(j)
  <2>1. q.pc # "clear"
    BY <1>2
  <2>2. \A j : Clearing(j)' = Clearing(j) \ {r}
    BY <1>2, <2>1, Moves
  <2>3. QED
    BY <2>2
<1>6. ASSUME NEW c \in Codes
      PROVE  RoundsAt(c)'
  <2>1. ~Current(c) => Counting(c)' \subseteq Counting(c)
    <3>1. ~Current(c) => q.code # c
      BY <1>2, <1>3 DEF Current
    <3>2. q.code # c => Counting(c)' = Counting(c) \ {r}
      BY <1>2, Moves
    <3>3. QED
      BY <3>1, <3>2
  <2>2. Current(c)' <=> Current(c)
    BY <1>1 DEF Current, codes
  <2>3. Current(c) => Counted(issued[c])' = Counted(issued[c]) /\ Counted(issued[c]) \in Nat
    BY <1>1, CountedType DEF Counted, CodesOK, Current, codes
  <2>4. tries'[c] = tries[c] /\ issued'[c] = issued[c] /\ RoundsAt(c)
    BY <1>1 DEF codes, Rounds
  <2>5. QED
    BY <1>5, <2>1, <2>2, <2>3, <2>4, Untried
<1>7. QED
  BY <1>1, <1>4, <1>6 DEF Rounds, Codes, codes

\* A code that is no longer kept, whether dropped or expired.
LEMMA Gone ==
  ASSUME Shape, CodesOK, Rounds, NEW k \in Kinds, code' = [code EXCEPT ![k] = None],
         UNCHANGED <<attempts, issued, tries>>, \A c : Counting(c)' \subseteq Counting(c),
         \A j \in Kinds \ {k} : Clearing(j)' \subseteq Clearing(j)
  PROVE  Rounds'
<1>1. ASSUME NEW c \in Codes
      PROVE  RoundsAt(c)'
  <2>1. RoundsAt(c) /\ c # None
    BY DEF Rounds, Codes, Shape, None
  <2>2. Current(c)' <=> Current(c) /\ issued[c] # k
    BY <2>1 DEF Current, Shape
  <2>3. Counting(c)' \in SUBSET Requests /\ Counting(c) \in SUBSET Requests
    BY DEF Counting
  <2>4. CASE issued[c] # k /\ issued[c] \in Kinds
    <3>1. Clearing(issued[c])' \subseteq Clearing(issued[c])
      BY <2>4
    <3>2. Current(c) => Counted(issued[c])' = Counted(issued[c]) /\ Counted(issued[c]) \in Nat
      BY CountedType DEF Counted, CodesOK, Current
    <3>3. QED
      BY <2>1, <2>2, <2>4, <3>1, <3>2, Untried
  <2>5. CASE issued[c] = k \/ issued[c] \notin Kinds
    <3>1. ~Current(c)'
      BY <2>2, <2>5 DEF Current
    <3>2. tries[c] + Cardinality(Counting(c)') <= N * (MAX_ATTEMPTS + 1)
      <4>1. CASE Current(c)
        BY <2>1, <2>3, <4>1, Replaced
      <4>2. CASE ~Current(c)
        <5>1. tries[c] + Cardinality(Counting(c)) <= N * (MAX_ATTEMPTS + 1)
          BY <2>1, <4>2 DEF RoundsAt
        <5>2. /\ Cardinality(Counting(c)') <= Cardinality(Counting(c)) /\ N \in Nat
              /\ Cardinality(Counting(c)') \in Nat /\ Cardinality(Counting(c)) \in Nat
          BY <2>3, Fewer
        <5>3. N * (MAX_ATTEMPTS + 1) \in Int /\ tries[c] \in Nat
          BY <5>2, AccountsAssumption DEF CodesOK, Codes
        <5>4. QED
          BY <5>1, <5>2, <5>3
      <4>3. QED
        BY <4>1, <4>2
    <3>3. QED
      BY <3>1, <3>2 DEF RoundsAt, N
  <2>6. QED
    BY <2>4, <2>5
<1>2. QED
  BY <1>1 DEF Rounds, Codes

LEMMA Dropped ==
  ASSUME Shape, CodesOK, Rounds, NEW r \in Requests, DropCode(r)
  PROVE  CodesOK' /\ Rounds'
<1>0. PICK k, q : k = req[r].kind /\ q = [req[r] EXCEPT !.pc = "clear"]
  OBVIOUS
<1>1. /\ code' = [code EXCEPT ![k] = None] /\ req' = [req EXCEPT ![r] = q]
      /\ UNCHANGED <<attempts, issued, tries>> /\ k \in Kinds
  BY <1>0 DEF DropCode, Goto, CodesOK
<1>2. q.pc = "clear" /\ q.kind = k
  BY <1>0 DEF Shape, RequestRows
<1>3. \A j \in Kinds : code'[j] \in {code[j], None}
  BY <1>1 DEF Shape
<1>4. CodesOK'
  <2>1. attempts' \in [Kinds -> Nat]
    BY <1>1 DEF CodesOK
  <2>2. q.pc # "count"
    BY <1>2
  <2>3. QED
    BY <1>1, <1>2, <1>3, <2>1, <2>2, HandledOK
<1>5. /\ \A c : Counting(c)' \subseteq Counting(c)
      /\ \A j \in Kinds \ {k} : Clearing(j)' \subseteq Clearing(j)
  <2>1. q.pc # "count" /\ \A j \in Kinds \ {k} : q.kind # j
    BY <1>2
  <2>2. \A c : Counting(c)' = Counting(c) \ {r}
    BY <1>1, <2>1, Moves
  <2>3. \A j \in Kinds \ {k} : Clearing(j)' = Clearing(j) \ {r}
    BY <1>1, <2>1, Moves
  <2>4. QED
    BY <2>2, <2>3
<1>6. QED
  BY <1>1, <1>4, <1>5, Gone

\* The counter is reset: one request fewer can do that while the code is kept.
LEMMA Cleared ==
  ASSUME Shape, CodesOK, Rounds, NEW r \in Requests, ClearAttempts(r)
  PROVE  CodesOK' /\ Rounds'
<1>0. PICK k : k = req[r].kind
  OBVIOUS
<1>1. /\ attempts' = [attempts EXCEPT ![k] = 0] /\ k \in Kinds /\ req[r].pc = "clear"
      /\ UNCHANGED <<code, issued, tries>> /\ MAX_ATTEMPTS \in Nat
  BY <1>0, AccountsAssumption DEF ClearAttempts, CodesOK
<1>2. PICK q : req' = [req EXCEPT ![r] = q] /\ q.pc \in {"idle", "apply"}
  <2>1. [req[r] EXCEPT !.pc = "apply"].pc = "apply" /\ Idle.pc = "idle"
    BY DEF Shape, RequestRows, Idle
  <2>2. \/ req' = [req EXCEPT ![r] = [req[r] EXCEPT !.pc = "apply"]]
        \/ req' = [req EXCEPT ![r] = Idle]
    BY DEF ClearAttempts, Goto, End
  <2>3. QED
    BY <2>1, <2>2
<1>3. /\ \A j : Clearing(j)' = Clearing(j) \ {r}
      /\ \A c : Counting(c)' = Counting(c) \ {r}
  <2>1. q.pc # "clear" /\ q.pc # "count"
    BY <1>2
  <2>2. QED
    BY <1>2, <2>1, Moves
<1>4. attempts' \in [Kinds -> Nat] /\ \A j \in Kinds : attempts'[j] = IF j = k THEN 0 ELSE attempts[j]
  BY <1>1 DEF CodesOK
<1>5. CodesOK'
  <2>1. q.pc \notin {"count", "drop", "clear"}
    BY <1>2
  <2>2. QED
    BY <1>1, <1>2, <1>4, <2>1, HandledOK
<1>6. ASSUME NEW c \in Codes
      PROVE  RoundsAt(c)'
  <2>1. /\ RoundsAt(c) /\ issued'[c] = issued[c] /\ tries'[c] = tries[c] /\ tries[c] \in Nat
        /\ Current(c)' <=> Current(c)
    BY <1>1 DEF Rounds, Current, CodesOK, Codes
  <2>2. CASE ~(Current(c) /\ issued[c] = k)
    <3>1. Current(c) => Counted(issued[c])' = Counted(issued[c]) /\ Counted(issued[c]) \in Nat
      <4>1. Current(c) => issued[c] \in Kinds /\ attempts'[issued[c]] = attempts[issued[c]]
        BY <1>4, <2>2 DEF Current
      <4>2. Current(c) => Counted(issued[c])' = Counted(issued[c])
        BY <2>1, <4>1 DEF Counted
      <4>3. QED
        BY <4>1, <4>2, CountedType DEF CodesOK
    <3>2. QED
      BY <1>3, <2>1, <3>1, Untried
  <2>3. CASE Current(c) /\ issued[c] = k
    <3>1. PICK m : m = Cardinality(Clearing(k))
      OBVIOUS
    <3>2. /\ m < N /\ tries[c] <= Counted(k) + MAX_ATTEMPTS * (N - 1 - m)
      BY <2>1, <2>3, <3>1 DEF RoundsAt
    <3>3. /\ Cardinality(Clearing(k)') = m - 1 /\ m \in Nat /\ N \in Nat
      <4>1. Clearing(k) \in SUBSET Requests /\ r \in Clearing(k)
        BY <1>0, <1>1 DEF Clearing
      <4>2. IsFiniteSet(Clearing(k)) /\ m \in Nat /\ N \in Nat
        BY <3>1, <4>1, Fewer
      <4>3. QED
        BY <1>3, <3>1, <4>1, <4>2, FS_RemoveElement
    <3>4. /\ MAX_ATTEMPTS * (N - 1 - (m - 1)) = MAX_ATTEMPTS * (N - 1 - m) + MAX_ATTEMPTS
          /\ MAX_ATTEMPTS * (N - 1 - m) \in Int
      <4>1. N - 1 - m \in Int /\ N - 1 - (m - 1) = (N - 1 - m) + 1
        BY <3>3
      <4>2. QED
        BY <4>1, Products
    <3>5. Counted(k) \in Nat /\ Counted(k) <= MAX_ATTEMPTS /\ Counted(k)' = 0
      <4>1. Counted(k)' = 0
        BY <1>1, <1>4 DEF Counted
      <4>2. QED
        BY <1>1, <4>1, CountedType DEF CodesOK
    <3>6. m - 1 < N /\ tries[c] <= Counted(k)' + MAX_ATTEMPTS * (N - 1 - (m - 1))
      BY <1>1, <2>1, <3>2, <3>3, <3>4, <3>5
    <3>7. QED
      BY <2>1, <2>3, <3>3, <3>6 DEF RoundsAt, N
  <2>4. QED
    BY <2>2, <2>3
<1>7. QED
  BY <1>1, <1>5, <1>6 DEF Rounds, Codes

\* A code or its counter expires.
LEMMA Expired ==
  ASSUME Shape, CodesOK, Rounds, NEW k \in Kinds, CodeExpires(k) \/ CounterExpires(k)
  PROVE  CodesOK' /\ Rounds'
<1>0. UNCHANGED <<issued, req>>
  BY DEF CodeExpires, CounterExpires
<1>1. CASE CodeExpires(k)
  <2>1. code' = [code EXCEPT ![k] = None] /\ UNCHANGED <<attempts, tries>>
    BY <1>1 DEF CodeExpires
  <2>2. CodesOK'
    BY <1>0, <2>1 DEF CodesOK, Codes, Shape
  <2>3. (\A c : Counting(c)' = Counting(c)) /\ \A j : Clearing(j)' = Clearing(j)
    BY <1>0 DEF Counting, Clearing
  <2>4. QED
    BY <1>0, <2>1, <2>2, <2>3, Gone
<1>2. CASE CounterExpires(k)
  <2>1. /\ attempts' = [attempts EXCEPT ![k] = 0] /\ UNCHANGED code
        /\ tries' = [c \in Codes |-> IF issued[c] = k THEN 0 ELSE tries[c]]
        /\ \A r \in Requests : req[r].kind # k
    BY <1>2 DEF CounterExpires
  <2>2. /\ tries' \in Seq(Nat) /\ Len(tries') = Len(issued) /\ \A c \in Codes : tries[c] \in Nat
    BY <2>1 DEF CodesOK, Codes, Shape
  <2>3. attempts' \in [Kinds -> Nat] /\ \A j \in Kinds : attempts'[j] = IF j = k THEN 0 ELSE attempts[j]
    BY <2>1 DEF CodesOK
  <2>4. CodesOK'
    BY <1>0, <2>1, <2>2, <2>3 DEF CodesOK, Codes
  <2>5. ASSUME NEW c \in Codes
        PROVE  RoundsAt(c)'
    <3>1. /\ Clearing(issued[c])' = Clearing(issued[c]) /\ Counting(c)' = Counting(c)
          /\ Current(c)' <=> Current(c)
      BY <1>0, <2>1 DEF Clearing, Counting, Current
    <3>2. RoundsAt(c) /\ issued'[c] = issued[c] /\ tries[c] \in Nat
      BY <1>0, <2>2 DEF Rounds
    <3>3. CASE issued[c] # k
      <4>1. tries'[c] = tries[c]
        BY <2>1, <3>3
      <4>2. Current(c) => Counted(issued[c])' = Counted(issued[c]) /\ Counted(issued[c]) \in Nat
        <5>1. Current(c) => issued[c] \in Kinds /\ attempts'[issued[c]] = attempts[issued[c]]
          BY <2>3, <3>3 DEF Current
        <5>2. Current(c) => Counted(issued[c])' = Counted(issued[c])
          BY <3>2, <5>1 DEF Counted
        <5>3. QED
          BY <5>1, <5>2, CountedType DEF CodesOK
      <4>3. QED
        BY <3>1, <3>2, <4>1, <4>2, Untried
    <3>4. CASE issued[c] = k
      <4>1. tries'[c] = 0 /\ Clearing(k) = {} /\ Cardinality(Clearing(k)) = 0
        BY <2>1, <3>4, FS_EmptySet DEF Clearing
      <4>2. Counting(c) \in SUBSET Requests
        BY DEF Counting
      <4>3. N \in Nat /\ Cardinality(Counting(c)) \in Nat /\ Cardinality(Counting(c)) <= N
        BY <4>2, Fewer
      <4>4. CASE Current(c)
        <5>1. 0 < N
          BY <3>2, <3>4, <4>1, <4>4 DEF RoundsAt
        <5>2. 0 <= MAX_ATTEMPTS * (N - 1 - 0) /\ MAX_ATTEMPTS * (N - 1 - 0) \in Int
          <6>1. N - 1 - 0 \in Nat
            BY <4>3, <5>1
          <6>2. QED
            BY <6>1, Products
        <5>3. Counted(k)' \in Nat
          <6>1. attempts'[k] \in Nat
            BY <2>3
          <6>2. QED
            BY <6>1, AccountsAssumption DEF Counted
        <5>4. 0 <= Counted(k)' + MAX_ATTEMPTS * (N - 1 - 0)
          BY <5>2, <5>3
        <5>5. Cardinality(Clearing(k))' = 0
          <6>1. Clearing(k)' = Clearing(k)
            BY <1>0 DEF Clearing
          <6>2. QED
            BY <4>1, <6>1
        <5>6. QED
          BY <3>1, <3>2, <3>4, <4>1, <4>4, <5>1, <5>4, <5>5 DEF RoundsAt, N
      <4>5. CASE ~Current(c)
        <5>1. tries[c] + Cardinality(Counting(c)) <= N * (MAX_ATTEMPTS + 1)
          BY <3>2, <4>5 DEF RoundsAt
        <5>2. N * (MAX_ATTEMPTS + 1) \in Int
          BY <4>3, AccountsAssumption
        <5>3. 0 + Cardinality(Counting(c)) <= N * (MAX_ATTEMPTS + 1)
          BY <3>2, <4>3, <5>1, <5>2
        <5>4. QED
          BY <3>1, <4>1, <4>5, <5>3 DEF RoundsAt, N
      <4>6. QED
        BY <4>4, <4>5
    <3>5. QED
      BY <3>3, <3>4
  <2>6. QED
    BY <1>0, <2>4, <2>5 DEF Rounds, Codes
<1>3. QED
  BY <1>1, <1>2

\* The steps of a request that have nothing to do with codes.
LEMMA ElsewhereStep ==
  ASSUME Shape, CodesOK, Rounds, NEW r \in Requests,
         \/ Register(r) \/ CreateAccount(r) \/ Confirm(r) \/ SetPassword(r) \/ Expel(r) \/ Login(r)
         \/ Enter(r) \/ Refresh(r) \/ Rotate(r) \/ OAuthCallback(r) \/ OAuthLink(r) \/ OAuthJoin(r)
         \/ Abandon(r) \/ \E k \in Kinds : AskForCode(r, k)
  PROVE  CodesOK' /\ Rounds'
<1>1. UNCHANGED codes
  BY DEF Register, CreateAccount, Confirm, SetPassword, Expel, Login, Enter, Refresh, Rotate,
         OAuthCallback, OAuthLookup, OAuthLink, OAuthJoin, Abandon, AskForCode
<1> DEFINE Elsewhither == {"idle", "create", "send", "expel", "enter", "rotate", "link", "join"}
<1>2. ASSUME NEW q, req' = [req EXCEPT ![r] = q], q.pc \in Elsewhither
      PROVE  CodesOK' /\ Rounds'
  <2>1. q.pc \notin {"count", "drop", "clear"}
    BY <1>2
  <2>2. QED
    BY <1>1, <1>2, <2>1, Elsewhere
<1>3. /\ Idle.pc = "idle" /\ [Idle EXCEPT !.pc = "create"].pc = "create"
      /\ [Idle EXCEPT !.pc = "enter"].pc = "enter"
      /\ [req[r] EXCEPT !.pc = "send", !.kind = "verify"].pc = "send"
      /\ [req[r] EXCEPT !.pc = "expel", !.password = user.password + 1].pc = "expel"
  BY DEF Idle, Shape, RequestRows
<1>4. CASE req' = [req EXCEPT ![r] = Idle]
  BY <1>2, <1>3, <1>4
<1>5. CASE Register(r)
  <2>1. req' = [req EXCEPT ![r] = [Idle EXCEPT !.pc = "create"]]
    BY <1>5 DEF Register, Start
  <2>2. QED
    BY <1>2, <1>3, <2>1
<1>6. CASE CreateAccount(r)
  <2>1. CASE req' = [req EXCEPT ![r] = [req[r] EXCEPT !.pc = "send", !.kind = "verify"]]
    BY <1>2, <1>3, <2>1
  <2>2. QED
    BY <1>4, <1>6, <2>1 DEF CreateAccount, End
<1>7. ASSUME NEW k \in Kinds, AskForCode(r, k)
      PROVE  CodesOK' /\ Rounds'
  <2>1. req' = [req EXCEPT ![r] = [Idle EXCEPT !.pc = "send", !.kind = k]]
    BY <1>7 DEF AskForCode, Start
  <2>2. QED
    <3>1. PICK q : q = [Idle EXCEPT !.pc = "send", !.kind = k]
      OBVIOUS
    <3>2. q.pc = "send"
      BY <3>1 DEF Idle
    <3>3. QED
      BY <1>2, <2>1, <3>1, <3>2
<1>8. CASE Confirm(r) \/ Expel(r) \/ Enter(r) \/ Rotate(r) \/ Abandon(r)
  BY <1>4, <1>8 DEF Confirm, Expel, Enter, Rotate, Abandon, End
<1>9. CASE SetPassword(r)
  <2>1. req' = [req EXCEPT ![r] = [req[r] EXCEPT !.pc = "expel", !.password = user.password + 1]]
    BY <1>9 DEF SetPassword
  <2>2. QED
    BY <1>2, <1>3, <2>1
<1>10. CASE req' = [req EXCEPT ![r] = [Idle EXCEPT !.pc = "enter", !.password = user.password]]
  <2>1. PICK q : q = [Idle EXCEPT !.pc = "enter", !.password = user.password]
    OBVIOUS
  <2>2. q.pc = "enter"
    BY <2>1 DEF Idle
  <2>3. QED
    BY <1>2, <1>10, <2>1, <2>2
<1>11. CASE Login(r)
  BY <1>10, <1>11 DEF Login, Start
<1>12. CASE Refresh(r)
  <2>1. PICK t \in Tokens : Start(r, [Idle EXCEPT !.pc = "rotate", !.token = t])
    BY <1>12 DEF Refresh
  <2>2. req' = [req EXCEPT ![r] = [Idle EXCEPT !.pc = "rotate", !.token = t]]
    BY <2>1 DEF Start
  <2>3. QED
    <3>1. PICK q : q = [Idle EXCEPT !.pc = "rotate", !.token = t]
      OBVIOUS
    <3>2. q.pc = "rotate"
      BY <3>1 DEF Idle
    <3>3. QED
      BY <1>2, <2>2, <3>1, <3>2
<1>13. CASE OAuthCallback(r)
  <2>1. PICK p \in Providers : OAuthLookup(r, p)
    BY <1>13 DEF OAuthCallback
  <2>2. CASE req' = [req EXCEPT ![r] = [Idle EXCEPT !.pc = "link", !.kind = p]]
    <3>1. PICK q : q = [Idle EXCEPT !.pc = "link", !.kind = p]
      OBVIOUS
    <3>2. q.pc = "link"
      BY <3>1 DEF Idle
    <3>3. QED
      BY <1>2, <2>2, <3>1, <3>2
  <2>3. CASE req' = [req EXCEPT ![r] = [Idle EXCEPT !.pc = "join", !.kind = p]]
    <3>1. PICK q : q = [Idle EXCEPT !.pc = "join", !.kind = p]
      OBVIOUS
    <3>2. q.pc = "join"
      BY <3>1 DEF Idle
    <3>3. QED
      BY <1>2, <2>3, <3>1, <3>2
  <2>4. \/ req' = [req EXCEPT ![r] = [Idle EXCEPT !.pc = "enter", !.password = user.password]]
        \/ req' = [req EXCEPT ![r] = [Idle EXCEPT !.pc = "link", !.kind = p]]
        \/ req' = [req EXCEPT ![r] = [Idle EXCEPT !.pc = "join", !.kind = p]]
    BY <2>1 DEF OAuthLookup, Start
  <2>5. QED
    BY <1>10, <2>2, <2>3, <2>4
<1>14. CASE OAuthLink(r)
  BY <1>4, <1>10, <1>14 DEF OAuthLink, End
<1>15. CASE OAuthJoin(r)
  <2>1. CASE req' = [req EXCEPT ![r] = [Idle EXCEPT !.pc = "enter"]]
    BY <1>2, <1>3, <2>1
  <2>2. QED
    BY <1>4, <1>15, <2>1 DEF OAuthJoin, End
<1>16. QED
  BY <1>5, <1>6, <1>7, <1>8, <1>9, <1>11, <1>12, <1>13, <1>14, <1>15

LEMMA NextRounds ==
  ASSUME Shape, CodesOK, Rounds, [Next]_vars
  PROVE  CodesOK' /\ Rounds'
<1>1. ASSUME NEW r \in Requests,
             \/ Register(r) \/ CreateAccount(r) \/ Confirm(r) \/ SetPassword(r) \/ Expel(r) \/ Login(r)
             \/ Enter(r) \/ Refresh(r) \/ Rotate(r) \/ OAuthCallback(r) \/ OAuthLink(r) \/ OAuthJoin(r)
             \/ Abandon(r) \/ \E k \in Kinds : AskForCode(r, k)
      PROVE  CodesOK' /\ Rounds'
  BY <1>1, ElsewhereStep
<1>2. ASSUME NEW r \in Requests, SendCode(r) \/ CountAttempt(r) \/ DropCode(r) \/ ClearAttempts(r)
      PROVE  CodesOK' /\ Rounds'
  BY <1>2, Sent, Attempted, Dropped, Cleared
<1>3. ASSUME NEW r \in Requests, NEW k \in Kinds, SubmitCode(r, k)
      PROVE  CodesOK' /\ Rounds'
  BY <1>3, Submitted
<1>4. ASSUME NEW k \in Kinds, CodeExpires(k) \/ CounterExpires(k)
      PROVE  CodesOK' /\ Rounds'
  BY <1>4, Expired
<1>5. CASE SetStatus \/ SessionExpires \/ UNCHANGED vars \/ \E t \in Tokens : Logout(t)
  <2>1. UNCHANGED codes /\ UNCHANGED req
    BY <1>5 DEF SetStatus, SessionExpires, vars, Logout, codes
  <2>2. QED
    BY <2>1, Elsewhere
<1>6. QED
  BY <1>1, <1>2, <1>3, <1>4, <1>5 DEF Next

\* However many requests race, each adds at most one more round of attempts at a
\* code to those the ceiling allows (verifyEmail, verifyPhoneOtp, resetPassword).
THEOREM AttemptsAreBounded == Spec => []AttemptsAreLimited
<1>1. Init => CodesOK /\ Rounds
  BY DEF Init, CodesOK, Rounds, Codes, Idle, None
<1>2. Inv /\ CodesOK /\ Rounds /\ [Next]_vars => CodesOK' /\ Rounds'
  BY NextRounds DEF Inv
<1>3. Inv /\ CodesOK /\ Rounds => AttemptsAreLimited
  <2> SUFFICES ASSUME Inv, CodesOK, Rounds, NEW c \in Codes
               PROVE  tries[c] <= N * (MAX_ATTEMPTS + 1)
    BY DEF AttemptsAreLimited, N
  <2>1. RoundsAt(c) /\ tries[c] \in Nat
    BY DEF Rounds, CodesOK, Codes
  <2>2. Counting(c) \in SUBSET Requests
    BY DEF Counting
  <2>3. N \in Nat /\ Cardinality(Counting(c)) \in Nat
    BY <2>2, Fewer
  <2>4. tries[c] + Cardinality(Counting(c)) <= N * (MAX_ATTEMPTS + 1)
    <3>1. CASE Current(c)
      BY <2>1, <2>2, <3>1, Replaced
    <3>2. CASE ~Current(c)
      BY <2>1, <3>2 DEF RoundsAt
    <3>3. QED
      BY <3>1, <3>2
  <2>5. N * (MAX_ATTEMPTS + 1) \in Int
    BY <2>3, AccountsAssumption
  <2>6. QED
    BY <2>1, <2>3, <2>4, <2>5
<1>4. QED
  BY AlwaysInv, <1>1, <1>2, <1>3, PTL DEF Spec

-----------------------------------------------------------------------------
(* Types                                                                    *)

CodeKinds == {"verify", "phone", "reset"}

RequestTypes ==
  [pc : {"idle", "create", "send", "count", "drop", "clear", "apply", "expel",
         "enter", "rotate", "link", "join"},
   kind : {"none", "verify", "phone", "reset"} \cup Providers,
   code : {None} \cup Codes,
   ok : BOOLEAN, token : {None} \cup Tokens, password : 0..MaxPasswords]

UserTypes ==
  user \in [exists : BOOLEAN, password : 0..MaxPasswords, active : BOOLEAN,
            confirmed : SUBSET {"verify", "phone"}, provider : {NoProvider} \cup Providers]

SessionTypes ==
  /\ parent \in Seq(Nat) /\ since \in Seq(0..MaxPasswords) /\ Len(since) = Len(parent)
  /\ session \in {None} \cup Tokens
  /\ revoked \subseteq Tokens /\ late \subseteq Tokens /\ settled \in 0..MaxPasswords

CodeTypes ==
  /\ issued \in Seq(CodeKinds) /\ tries \in Seq(Nat) /\ Len(tries) = Len(issued)
  /\ code \in [Kinds -> {None} \cup Codes] /\ attempts \in [Kinds -> Nat]

\* A request has what its next step will use: a code's kind, a provider, a code, a token.
Apt(q) ==
  /\ q \in RequestTypes
  /\ q.pc = "send" => q.kind \in CodeKinds
  /\ q.pc \in {"count", "drop", "clear", "apply"} => q.kind \in Kinds
  /\ q.pc \in {"link", "join"} => q.kind \in Providers
  /\ q.pc = "count" => q.code \in Codes
  /\ q.pc = "rotate" => q.token \in Tokens

Requesting == req \in [Requests -> RequestTypes] /\ \A r \in Requests : Apt(req[r])

Typed == UserTypes /\ SessionTypes /\ CodeTypes /\ Requesting

\* A request goes on that has what it needs; the others keep what they have.
LEMMA Requested ==
  ASSUME Requesting, NEW r \in Requests, NEW q, Apt(q)', req' = [req EXCEPT ![r] = q],
         Codes \subseteq Codes', Tokens \subseteq Tokens'
  PROVE  Requesting'
<1>1. RequestTypes \subseteq RequestTypes'
  BY DEF RequestTypes
<1>2. req' \in [Requests -> RequestTypes']
  BY <1>1 DEF Requesting, Apt
<1>3. ASSUME NEW s \in Requests PROVE Apt(req[s])'
  <2>1. CASE s = r
    BY <2>1 DEF Requesting
  <2>2. CASE s # r
    <3>1. req'[s] = req[s] /\ Apt(req[s])
      BY <2>2 DEF Requesting
    <3>2. QED
      BY <1>1, <3>1 DEF Apt
  <2>3. QED
    BY <2>1, <2>2
<1>4. QED
  BY <1>2, <1>3 DEF Requesting

LEMMA IdleIsApt == Apt(Idle) /\ Apt(Idle)'
<1>1. Idle \in RequestTypes
  BY AccountsAssumption DEF RequestTypes, Idle, None
<1>2. (Idle \in RequestTypes)'
  BY AccountsAssumption DEF RequestTypes, Idle, None
<1>3. Idle.pc = "idle"
  BY DEF Idle
<1>4. QED
  BY <1>1, <1>2, <1>3 DEF Apt

LEMMA TypedInit == Init => Typed
<1> SUFFICES ASSUME Init PROVE Typed
  OBVIOUS
<1>1. UserTypes /\ SessionTypes /\ CodeTypes
  BY AccountsAssumption
     DEF Init, UserTypes, SessionTypes, CodeTypes, NoUser, None, Tokens, Codes
<1>2. Requesting
  BY IdleIsApt DEF Init, Requesting, Apt
<1>3. QED
  BY <1>1, <1>2 DEF Typed

\* The steps that change neither the session nor the codes.
LEMMA UserStep ==
  ASSUME Typed, NEW r \in Requests,
         \/ Register(r) \/ CreateAccount(r) \/ Confirm(r) \/ SetPassword(r) \/ Login(r)
         \/ Refresh(r) \/ OAuthCallback(r) \/ OAuthLink(r) \/ OAuthJoin(r) \/ Abandon(r)
         \/ \E k \in Kinds : AskForCode(r, k) \/ SubmitCode(r, k)
  PROVE  Typed'
<1>1. UNCHANGED <<sessions, codes>>
  BY DEF Register, CreateAccount, Confirm, SetPassword, Login, Refresh, OAuthCallback,
         OAuthLookup, OAuthLink, OAuthJoin, Abandon, AskForCode, SubmitCode
<1>2. /\ Codes' = Codes /\ Tokens' = Tokens /\ SessionTypes' /\ CodeTypes'
      /\ \A q : Apt(q)' <=> Apt(q)
  BY <1>1 DEF Typed, SessionTypes, CodeTypes, sessions, codes, Codes, Tokens, Apt, RequestTypes
<1>0. NoUser \in [exists : BOOLEAN, password : 0..MaxPasswords, active : BOOLEAN,
                  confirmed : SUBSET {"verify", "phone"}, provider : {NoProvider} \cup Providers]
  BY AccountsAssumption DEF NoUser, None
<1>3. /\ Apt(req[r]) /\ Apt(Idle) /\ Kinds \subseteq CodeKinds
      /\ user.password \in 0..MaxPasswords /\ user.exists \in BOOLEAN /\ 1 \in 0..MaxPasswords
  BY AccountsAssumption, IdleIsApt DEF Typed, Requesting, UserTypes, CodeKinds
<1>4. ASSUME NEW q, Apt(q), req' = [req EXCEPT ![r] = q], UserTypes'
      PROVE  Typed'
  <2>1. Requesting'
    BY <1>2, <1>4, Requested DEF Typed
  <2>2. QED
    BY <1>2, <1>4, <2>1 DEF Typed
<1>5. UserTypes
  BY DEF Typed
<1>6. CASE Register(r)
  <2>1. Apt([Idle EXCEPT !.pc = "create"])
    BY <1>3 DEF Apt, RequestTypes, Idle
  <2>2. QED
    BY <1>4, <1>5, <1>6, <2>1 DEF Register, Start, UserTypes, row
<1>7. CASE CreateAccount(r)
  <2>1. CASE user.exists
    BY <1>3, <1>4, <1>5, <1>7, <2>1 DEF CreateAccount, End, UserTypes
  <2>2. CASE ~user.exists
    <3>1. Apt([req[r] EXCEPT !.pc = "send", !.kind = "verify"])
      BY <1>3 DEF Apt, RequestTypes, CodeKinds
    <3>2. req' = [req EXCEPT ![r] = [req[r] EXCEPT !.pc = "send", !.kind = "verify"]]
      BY <1>7, <2>2 DEF CreateAccount
    <3>3. UserTypes'
      BY <1>0, <1>3, <1>7, <2>2 DEF CreateAccount, UserTypes
    <3>4. QED
      BY <1>4, <3>1, <3>2, <3>3
  <2>3. QED
    BY <2>1, <2>2
<1>8. CASE Confirm(r)
  <2>1. req[r].kind \in {"verify", "phone"}
    BY <1>3, <1>8 DEF Confirm, Apt, CodeKinds
  <2>2. UserTypes'
    BY <1>5, <1>8, <2>1 DEF Confirm, UserTypes
  <2>3. QED
    BY <1>3, <1>4, <1>8, <2>2 DEF Confirm, End
<1>9. CASE SetPassword(r)
  <2>1. user.password + 1 \in 0..MaxPasswords
    BY AccountsAssumption, <1>3, <1>9 DEF SetPassword
  <2>2. UserTypes'
    BY <1>5, <1>9, <2>1 DEF SetPassword, UserTypes
  <2>3. Apt([req[r] EXCEPT !.pc = "expel", !.password = user.password + 1])
    BY <1>3, <2>1 DEF Apt, RequestTypes
  <2>4. req' = [req EXCEPT ![r] = [req[r] EXCEPT !.pc = "expel", !.password = user.password + 1]]
    BY <1>9 DEF SetPassword
  <2>5. QED
    BY <1>4, <2>2, <2>3, <2>4
<1>10. Apt([Idle EXCEPT !.pc = "enter", !.password = user.password])
  BY <1>3 DEF Apt, RequestTypes, Idle
<1>11. CASE Login(r)
  BY <1>4, <1>5, <1>10, <1>11 DEF Login, Start, UserTypes, row
<1>12. CASE Refresh(r)
  <2>1. PICK t \in Tokens : req' = [req EXCEPT ![r] = [Idle EXCEPT !.pc = "rotate", !.token = t]]
    BY <1>12 DEF Refresh, Start
  <2>2. Apt([Idle EXCEPT !.pc = "rotate", !.token = t])
    BY <1>3 DEF Apt, RequestTypes, Idle
  <2>3. QED
    BY <1>4, <1>5, <1>12, <2>1, <2>2 DEF Refresh, UserTypes, row
<1>13. CASE OAuthCallback(r)
  <2>1. PICK p \in Providers : OAuthLookup(r, p)
    BY <1>13 DEF OAuthCallback
  <2>2. \A pc \in {"link", "join"} : Apt([Idle EXCEPT !.pc = pc, !.kind = p])
    BY <1>3 DEF Apt, RequestTypes, Idle
  <2>3. CASE user.provider = p
    BY <1>4, <1>5, <1>10, <2>1, <2>3 DEF OAuthLookup, Start, UserTypes, row
  <2>4. CASE user.provider # p
    <3>1. \E pc \in {"link", "join"} :
            req' = [req EXCEPT ![r] = [Idle EXCEPT !.pc = pc, !.kind = p]]
      BY <2>1, <2>4 DEF OAuthLookup, Start
    <3>2. QED
      BY <1>4, <1>5, <2>1, <2>2, <3>1 DEF OAuthLookup, UserTypes, row
  <2>5. QED
    BY <2>3, <2>4
<1>14. CASE OAuthLink(r)
  <2>1. req[r].kind \in Providers
    BY <1>3, <1>14 DEF OAuthLink, Apt
  <2>2. UserTypes'
    BY <1>5, <1>14, <2>1 DEF OAuthLink, UserTypes
  <2>3. QED
    BY <1>3, <1>4, <1>10, <1>14, <2>2 DEF OAuthLink, End
<1>15. CASE OAuthJoin(r)
  <2>1. req[r].kind \in Providers
    BY <1>3, <1>15 DEF OAuthJoin, Apt
  <2>2. UserTypes'
    <3>1. CASE user.exists
      BY <1>5, <1>15, <3>1 DEF OAuthJoin, UserTypes
    <3>2. CASE ~user.exists
      <4>1. user' = [NoUser EXCEPT !.exists = TRUE, !.provider = req[r].kind,
                                   !.confirmed = {"verify"}]
        BY <1>15, <3>2 DEF OAuthJoin
      <4>2. QED
        BY <1>0, <2>1, <4>1 DEF UserTypes
    <3>3. QED
      BY <3>1, <3>2
  <2>3. Apt([Idle EXCEPT !.pc = "enter"])
    BY <1>3 DEF Apt, RequestTypes, Idle
  <2>4. QED
    BY <1>3, <1>4, <1>15, <2>2, <2>3 DEF OAuthJoin, End
<1>16. CASE Abandon(r)
  BY <1>3, <1>4, <1>5, <1>16 DEF Abandon, End, UserTypes, row
<1>17. ASSUME NEW k \in Kinds, AskForCode(r, k)
       PROVE  Typed'
  <2>1. Apt([Idle EXCEPT !.pc = "send", !.kind = k])
    BY <1>3 DEF Apt, RequestTypes, Idle, CodeKinds
  <2>2. QED
    BY <1>4, <1>5, <1>17, <2>1 DEF AskForCode, Start, UserTypes, row
<1>18. ASSUME NEW k \in Kinds, SubmitCode(r, k)
       PROVE  Typed'
  <2>1. PICK guess : Start(r, [Idle EXCEPT !.pc = "count", !.kind = k, !.code = code[k],
                                           !.ok = (guess = code[k])])
    BY <1>18 DEF SubmitCode
  <2>2. code[k] \in Codes /\ (guess = code[k]) \in BOOLEAN
    BY <1>18 DEF SubmitCode, Typed, CodeTypes
  <2>3. Apt([Idle EXCEPT !.pc = "count", !.kind = k, !.code = code[k], !.ok = (guess = code[k])])
    BY <1>3, <2>2 DEF Apt, RequestTypes, Idle, CodeKinds
  <2>4. QED
    BY <1>4, <1>5, <1>18, <2>1, <2>3 DEF SubmitCode, Start, UserTypes, row
<1>19. QED
  BY <1>6, <1>7, <1>8, <1>9, <1>11, <1>12, <1>13, <1>14, <1>15, <1>16, <1>17, <1>18

\* The steps on the codes.
LEMMA CodeStep ==
  ASSUME Typed, NEW r \in Requests,
         SendCode(r) \/ CountAttempt(r) \/ DropCode(r) \/ ClearAttempts(r)
  PROVE  Typed'
<1>1. /\ UserTypes /\ SessionTypes /\ CodeTypes /\ Requesting /\ Apt(req[r]) /\ Apt(Idle)'
      /\ Apt(Idle)
  BY IdleIsApt DEF Typed, Requesting
<1>2. UNCHANGED <<user, sessions>> /\ Tokens' = Tokens /\ UserTypes' /\ SessionTypes'
  <2>1. UNCHANGED <<user, sessions>>
    BY DEF SendCode, CountAttempt, DropCode, ClearAttempts, row
  <2>2. QED
    BY <1>1, <2>1 DEF sessions, Tokens, UserTypes, SessionTypes
<1>3. ASSUME SendCode(r) PROVE Typed'
  <2>1. req[r].kind \in CodeKinds
    BY <1>1, <1>3 DEF SendCode, Apt
  <2>2. /\ issued' \in Seq(CodeKinds) /\ tries' \in Seq(Nat) /\ Len(issued') = Len(issued) + 1
        /\ Len(tries') = Len(issued') /\ Len(issued) \in Nat
    BY <1>1, <1>3, <2>1 DEF SendCode, CodeTypes
  <2>3. Codes = 1..Len(issued) /\ Codes' = 1..Len(issued')
    BY <1>1, <2>2 DEF Codes, CodeTypes
  <2>4. Codes \subseteq Codes' /\ Len(issued) + 1 \in Codes'
    BY <2>2, <2>3
  <2>5. code' \in [Kinds -> {None} \cup Codes'] /\ attempts' = attempts
    BY <1>1, <1>3, <2>4 DEF SendCode, CodeTypes
  <2>6. CodeTypes'
    BY <1>1, <2>2, <2>5 DEF CodeTypes
  <2>7. Requesting'
    BY <1>1, <1>2, <1>3, <2>4, Requested DEF SendCode, End
  <2>8. QED
    BY <1>2, <2>6, <2>7 DEF Typed
<1>4. ASSUME CountAttempt(r) \/ DropCode(r) \/ ClearAttempts(r) PROVE Typed'
  <2>1. req[r].kind \in Kinds /\ issued' = issued /\ Codes' = Codes
    BY <1>1, <1>4 DEF CountAttempt, DropCode, ClearAttempts, Apt, Codes
  <2>2. \A q : Apt(q) => Apt(q)'
    BY <1>2, <2>1 DEF Apt, RequestTypes
  <2>3. Requesting'
    <3>1. /\ Apt([req[r] EXCEPT !.pc = "drop", !.ok = FALSE])
          /\ Apt([req[r] EXCEPT !.pc = "drop"]) /\ Apt([req[r] EXCEPT !.pc = "clear"])
          /\ Apt([req[r] EXCEPT !.pc = "apply"])
      <4>1. /\ [req[r] EXCEPT !.pc = "drop", !.ok = FALSE] \in RequestTypes
            /\ [req[r] EXCEPT !.pc = "drop"] \in RequestTypes
            /\ [req[r] EXCEPT !.pc = "clear"] \in RequestTypes
            /\ [req[r] EXCEPT !.pc = "apply"] \in RequestTypes
        BY <1>1 DEF Apt, RequestTypes
      <4>2. QED
        BY <2>1, <1>1, <4>1 DEF Apt, RequestTypes
    <3>2. PICK q : Apt(q) /\ req' = [req EXCEPT ![r] = q]
      <4>1. CASE CountAttempt(r)
        BY <1>1, <3>1, <4>1 DEF CountAttempt, Goto, End
      <4>2. CASE DropCode(r)
        BY <1>1, <3>1, <4>2 DEF DropCode, Goto, End
      <4>3. CASE ClearAttempts(r)
        BY <1>1, <3>1, <4>3 DEF ClearAttempts, Goto, End
      <4>4. QED
        BY <1>4, <4>1, <4>2, <4>3
    <3>3. QED
      BY <1>1, <1>2, <2>1, <2>2, <3>2, Requested
  <2>4. code' \in [Kinds -> {None} \cup Codes]
    BY <1>1, <1>4 DEF CountAttempt, DropCode, ClearAttempts, CodeTypes
  <2>5. attempts' \in [Kinds -> Nat]
    <3>1. CASE CountAttempt(r)
      <4> DEFINE k == req[r].kind
                 count == IF attempts[k] > MAX_ATTEMPTS THEN attempts[k] ELSE attempts[k] + 1
      <4>1. attempts' = [attempts EXCEPT ![k] = count]
        BY <3>1 DEF CountAttempt
      <4>2. count \in Nat
        BY <1>1, <2>1 DEF CodeTypes
      <4> HIDE DEF count
      <4>3. QED
        BY <1>1, <4>1, <4>2 DEF CodeTypes
    <3>2. CASE DropCode(r) \/ ClearAttempts(r)
      BY <1>1, <3>2 DEF DropCode, ClearAttempts, CodeTypes
    <3>3. QED
      BY <1>4, <3>1, <3>2
  <2>6. tries' \in Seq(Nat) /\ Len(tries') = Len(tries)
    <3>1. CASE tries' = tries
      BY <1>1, <3>1 DEF CodeTypes
    <3>2. CASE CountAttempt(r) /\ tries' = [tries EXCEPT ![req[r].code] = @ + 1]
      <4>1. req[r].code \in 1..Len(tries)
        BY <1>1, <3>2 DEF CountAttempt, Apt, Codes, CodeTypes
      <4>2. tries[req[r].code] + 1 \in Nat
        BY <1>1, <4>1 DEF CodeTypes
      <4>3. QED
        BY <1>1, <3>2, <4>1, <4>2 DEF CodeTypes
    <3>3. QED
      BY <1>4, <3>1, <3>2 DEF CountAttempt, DropCode, ClearAttempts
  <2>7. QED
    BY <1>1, <1>2, <2>1, <2>3, <2>4, <2>5, <2>6 DEF Typed, CodeTypes
<1>5. QED
  BY <1>3, <1>4

\* The steps on the session.
LEMMA SessionStep ==
  ASSUME Typed, NEW r \in Requests, Enter(r) \/ Rotate(r) \/ Expel(r)
  PROVE  Typed'
<1>1. /\ UserTypes /\ SessionTypes /\ CodeTypes /\ Requesting /\ Apt(req[r]) /\ Apt(Idle)'
      /\ req[r].password \in 0..MaxPasswords
  BY IdleIsApt DEF Typed, Requesting, Apt, RequestTypes
<1>2. UNCHANGED <<user, codes>> /\ Codes' = Codes /\ UserTypes' /\ CodeTypes'
  <2>1. UNCHANGED <<user, codes>>
    BY DEF Enter, Rotate, Expel, row
  <2>2. QED
    BY <1>1, <2>1 DEF codes, Codes, UserTypes, CodeTypes
<1>3. SessionTypes' /\ Tokens \subseteq Tokens' => Typed'
  <2>1. req' = [req EXCEPT ![r] = Idle]
    BY DEF Enter, Rotate, Expel, End
  <2>2. QED
    BY <1>1, <1>2, <2>1, Requested DEF Typed
<1>4. ASSUME NEW from \in Nat, NEW p \in 0..MaxPasswords, NewSession(from, p)
      PROVE  SessionTypes' /\ Tokens \subseteq Tokens'
  <2>1. /\ parent' \in Seq(Nat) /\ since' \in Seq(0..MaxPasswords) /\ Len(parent) \in Nat
        /\ Len(parent') = Len(parent) + 1 /\ Len(since') = Len(parent')
    BY <1>1, <1>4 DEF NewSession, SessionTypes
  <2>2. Tokens = 1..Len(parent) /\ Tokens' = 1..Len(parent')
    BY <1>1, <2>1 DEF Tokens, SessionTypes
  <2>3. Tokens \subseteq Tokens' /\ Fresh \in Tokens'
    BY <2>1, <2>2 DEF Fresh
  <2>4. session' = Fresh /\ late' \subseteq late \cup {Fresh} /\ UNCHANGED <<revoked, settled>>
    BY <1>4 DEF NewSession
  <2>5. QED
    BY <1>1, <2>1, <2>3, <2>4 DEF SessionTypes
<1>5. CASE Enter(r)
  BY <1>1, <1>3, <1>4, <1>5 DEF Enter, None
<1>6. CASE Rotate(r)
  <2>1. req[r].token \in Tokens /\ Tokens = 1..Len(parent)
    BY <1>1, <1>6 DEF Rotate, Apt, Tokens, SessionTypes
  <2>2. req[r].token \in Nat /\ since[req[r].token] \in 0..MaxPasswords
    <3>1. since \in Seq(0..MaxPasswords) /\ Len(since) = Len(parent) /\ Len(parent) \in Nat
      BY <1>1 DEF SessionTypes
    <3>2. req[r].token \in 1..Len(since) /\ req[r].token \in Nat
      BY <2>1, <3>1
    <3>3. \A t \in 1..Len(since) : since[t] \in 0..MaxPasswords
      <4>1. ASSUME NEW S, since \in Seq(S), NEW t \in 1..Len(since) PROVE since[t] \in S
        BY <4>1
      <4>2. QED
        BY <3>1, <4>1
    <3>4. QED
      BY <3>2, <3>3
  <2>3. CASE session = req[r].token
    BY <1>3, <1>4, <1>6, <2>2, <2>3 DEF Rotate
  <2>4. CASE session # req[r].token
    BY <1>1, <1>3, <1>6, <2>4 DEF Rotate, sessions, SessionTypes, Tokens
  <2>5. QED
    BY <2>3, <2>4
<1>7. CASE Expel(r)
  BY <1>1, <1>3, <1>7 DEF Expel, SessionTypes, Tokens, None
<1>8. QED
  BY <1>5, <1>6, <1>7

LEMMA OutsideStep ==
  ASSUME Typed,
         \/ \E t \in Tokens : Logout(t)
         \/ \E k \in Kinds : CodeExpires(k) \/ CounterExpires(k)
         \/ SetStatus \/ SessionExpires \/ UNCHANGED vars
  PROVE  Typed'
<1>1. UserTypes /\ SessionTypes /\ CodeTypes /\ Requesting
  BY DEF Typed
<1>2. Codes' = Codes /\ Tokens' = Tokens /\ Requesting'
  <2>1. UNCHANGED <<issued, parent, req>>
    BY DEF Logout, CodeExpires, CounterExpires, SetStatus, SessionExpires, vars, sessions, codes
  <2>2. QED
    BY <1>1, <2>1 DEF Codes, Tokens, Requesting, Apt, RequestTypes
<1>3. CASE (\E t \in Tokens : Logout(t)) \/ SessionExpires
  BY <1>1, <1>2, <1>3
     DEF Logout, SessionExpires, row, codes, Typed, UserTypes, SessionTypes, CodeTypes, None
<1>4. ASSUME NEW k \in Kinds, CodeExpires(k)
      PROVE  Typed'
  BY <1>1, <1>2, <1>4
     DEF CodeExpires, row, sessions, Typed, UserTypes, SessionTypes, CodeTypes, None
<1>5. ASSUME NEW k \in Kinds, CounterExpires(k)
      PROVE  Typed'
  <2>1. Codes = 1..Len(issued) /\ Len(issued) \in Nat
    BY <1>1 DEF Codes, CodeTypes
  <2>2. tries' = [c \in 1..Len(issued) |-> IF issued[c] = k THEN 0 ELSE tries[c]]
    BY <1>5, <2>1 DEF CounterExpires
  <2>3. \A c \in 1..Len(issued) : tries[c] \in Nat
    BY <1>1 DEF CodeTypes
  <2>4. tries' \in Seq(Nat) /\ Len(tries') = Len(issued)
    BY <2>1, <2>2, <2>3
  <2>5. QED
    BY <1>1, <1>2, <1>5, <2>4
       DEF CounterExpires, row, sessions, Typed, UserTypes, SessionTypes, CodeTypes
<1>6. CASE SetStatus
  BY <1>1, <1>2, <1>6
     DEF SetStatus, sessions, codes, Typed, UserTypes, SessionTypes, CodeTypes
<1>7. CASE UNCHANGED vars
  BY <1>1, <1>2, <1>7 DEF vars, Typed, UserTypes, SessionTypes, CodeTypes
<1>8. QED
  BY <1>3, <1>4, <1>5, <1>6, <1>7

\* Every variable keeps its type: no request names a code or a token that was never
\* issued, and only e-mail and phone are ever confirmed (schema/users.ts, redis.service.ts).
THEOREM AccountTypesCorrect == Spec => []TypeOK
<1>1. Typed /\ [Next]_vars => Typed'
  BY UserStep, CodeStep, SessionStep, OutsideStep DEF Next
<1>2. Typed => TypeOK
  BY DEF Typed, UserTypes, SessionTypes, CodeTypes, Requesting, RequestTypes, CodeKinds, TypeOK
<1>3. QED
  BY TypedInit, <1>1, <1>2, PTL DEF Spec

-----------------------------------------------------------------------------
(* What the run assumes of the constants of the other two components        *)

LEMMA WebSetting == Web!WebSessionAssumption
BY WebAndCacheAssumption

LEMMA CacheSetting ==
  MaxVersion \in Nat /\ MaxClock \in Nat \ {0} /\ MaxGen \in Nat \ {0} /\ Null \notin Nat
BY WebAndCacheAssumption DEF Cache!UserCacheAssumption

-----------------------------------------------------------------------------
(* UserCache: a read that may still store its copy has a current one.  From *)
(* the moment an invalidation counts its generation or writes its tombstone *)
(* it shuts out every read that began before it (ShutOut), and a read that  *)
(* began afterwards has seen the change, which was committed before.        *)

\* Reads and invalidations lie behind the clock, the generation and the row.
Behind ==
  /\ invalidated <= db
  /\ \A w \in Requests : writer[w].version <= db /\ writer[w].now <= clock
  /\ \A r \in Readers : reader[r].at <= clock

\* No read knows a generation that is yet to be counted.
GensKnown ==
  \A r \in Readers : reader[r].pc \in {"row", "fill"} => reader[r].gen <= gen

\* The invalidation of w has shut out, or will shut out, the read r.
ShutOut(w, r) ==
  IF reader[r].gen # 0
  THEN writer[w].pc = "incr" \/ reader[r].gen # gen
  ELSE IF writer[w].pc = "del" THEN reader[r].at <= tombstone
                               ELSE reader[r].at <= writer[w].now

ReadsCovered ==
  \A r \in Readers : reader[r].pc = "fill" =>
    /\ Cache!Admits(r) => reader[r].got >= invalidated
    /\ \A w \in Requests : writer[w].pc \in {"incr", "bury", "del"} =>
         ShutOut(w, r) \/ reader[r].got >= writer[w].version

CacheInv ==
  /\ Cache!TypeOK /\ Behind
  /\ mishaps = {} => GensKnown /\ ReadsCovered /\ Cache!CacheIsCurrent

LEMMA CacheInit == Cache!Init => CacheInv
BY CacheSetting
   DEF Cache!Init, CacheInv, Cache!TypeOK, Behind, GensKnown, ReadsCovered, Cache!CacheIsCurrent,
       Cache!IdleReader, Cache!IdleWriter, Cache!Versions, Cache!Mishaps

LEMMA CacheTypes == CacheInv /\ [Cache!Next]_Cache!vars => Cache!TypeOK'
<1> SUFFICES ASSUME Cache!TypeOK, [Cache!Next]_Cache!vars
             PROVE  Cache!TypeOK'
  BY DEF CacheInv
<1> USE CacheSetting DEF Cache!TypeOK, Cache!Versions
<1> DEFINE Reads == [pc : {"idle", "gen", "row", "fill"}, at : 0..MaxClock, gen : 0..MaxGen,
                     got : Cache!Versions]
           Writes == [pc : {"idle", "stamp", "incr", "bury", "del"}, now : 0..MaxClock,
                      version : Cache!Versions]
<1>0. clock \in 0..MaxClock
  OBVIOUS
<1>1. ASSUME NEW r \in Readers, Cache!Miss(r)
      PROVE  Cache!TypeOK'
  <2>1. [reader[r] EXCEPT !.pc = "gen", !.at = clock] \in Reads
    BY <1>0
  <2>2. reader' = [reader EXCEPT ![r] = [reader[r] EXCEPT !.pc = "gen", !.at = clock]]
    BY <1>1 DEF Cache!Miss
  <2>3. reader' \in [Readers -> Reads]
    BY <2>1, <2>2
  <2>4. QED
    BY <1>1, <2>3 DEF Cache!Miss, Cache!keys
<1>2. ASSUME NEW r \in Readers, Cache!ReadGeneration(r)
      PROVE  Cache!TypeOK'
  <2>1. PICK g \in {gen, 0} :
          reader' = [reader EXCEPT ![r].pc = "row", ![r].gen = g,
                                   ![r].at = IF g = 0 THEN @ ELSE 0]
    BY <1>2 DEF Cache!ReadGeneration
  <2>2. g \in 0..MaxGen /\ (IF g = 0 THEN reader[r].at ELSE 0) \in 0..MaxClock
    OBVIOUS
  <2>3. [reader[r] EXCEPT !.pc = "row", !.gen = g, !.at = IF g = 0 THEN @ ELSE 0] \in Reads
    BY <2>2
  <2>4. reader' \in [Readers -> Reads]
    BY <2>1, <2>3
  <2>5. QED
    BY <1>2, <2>4 DEF Cache!ReadGeneration, Cache!keys
<1>3. ASSUME NEW r \in Readers, Cache!ReadRow(r)
      PROVE  Cache!TypeOK'
  <2>1. [reader[r] EXCEPT !.pc = "fill", !.got = db] \in Reads
    OBVIOUS
  <2>2. reader' = [reader EXCEPT ![r] = [reader[r] EXCEPT !.pc = "fill", !.got = db]]
    BY <1>3 DEF Cache!ReadRow
  <2>3. reader' \in [Readers -> Reads]
    BY <2>1, <2>2
  <2>4. QED
    BY <1>3, <2>3 DEF Cache!ReadRow, Cache!keys
<1>4. ASSUME NEW r \in Readers, Cache!Fill(r)
      PROVE  Cache!TypeOK'
  BY <1>4 DEF Cache!Fill, Cache!IdleReader
<1>5. ASSUME NEW r \in Readers, Cache!Skip(r)
      PROVE  Cache!TypeOK'
  BY <1>5 DEF Cache!Skip, Cache!keys, Cache!IdleReader
<1>6. ASSUME NEW w \in Requests, Cache!Change(w)
      PROVE  Cache!TypeOK'
  BY <1>6 DEF Cache!Change, Cache!keys
<1>7. ASSUME NEW w \in Requests, Cache!GuardHeals(w)
      PROVE  Cache!TypeOK'
  BY <1>7 DEF Cache!GuardHeals, Cache!keys
<1>8. ASSUME NEW w \in Requests, Cache!Stamp(w)
      PROVE  Cache!TypeOK'
  <2>1. [writer[w] EXCEPT !.pc = "incr", !.now = clock] \in Writes
    BY <1>0
  <2>2. writer' = [writer EXCEPT ![w] = [writer[w] EXCEPT !.pc = "incr", !.now = clock]]
    BY <1>8 DEF Cache!Stamp
  <2>3. writer' \in [Requests -> Writes]
    BY <2>1, <2>2
  <2>4. QED
    BY <1>8, <2>3 DEF Cache!Stamp, Cache!keys
<1>9. ASSUME NEW w \in Requests, Cache!Increment(w)
      PROVE  Cache!TypeOK'
  BY <1>9 DEF Cache!Increment
<1>10. ASSUME NEW w \in Requests, Cache!Bury(w)
       PROVE  Cache!TypeOK'
  BY <1>10 DEF Cache!Bury, Cache!Mishaps
<1>11. ASSUME NEW w \in Requests, Cache!Drop(w)
       PROVE  Cache!TypeOK'
  BY <1>11 DEF Cache!Drop, Cache!IdleWriter
<1>12. ASSUME NEW w \in Requests, Cache!Abandon(w)
       PROVE  Cache!TypeOK'
  BY <1>12 DEF Cache!Abandon, Cache!keys, Cache!IdleWriter
<1>13. CASE \/ Cache!Tick \/ Cache!CopyExpires \/ Cache!KeysExpire
             \/ Cache!EvictGeneration \/ Cache!EvictTombstone
  <2>1. CASE Cache!Tick
    BY <2>1 DEF Cache!Tick, Cache!keys
  <2>2. CASE Cache!CopyExpires
    BY <2>2 DEF Cache!CopyExpires
  <2>3. CASE Cache!KeysExpire
    BY <2>3 DEF Cache!KeysExpire
  <2>4. CASE Cache!EvictGeneration \/ Cache!EvictTombstone
    <3>1. /\ mishaps' \subseteq Cache!Mishaps
          /\ gen' \in {0, gen} /\ tombstone' \in {0, tombstone}
          /\ UNCHANGED <<db, clock, cache, reader, writer, invalidated>>
      BY <2>4 DEF Cache!EvictGeneration, Cache!EvictTombstone, Cache!Mishaps
    <3>2. QED
      BY <3>1
  <2>5. QED
    BY <1>13, <2>1, <2>2, <2>3, <2>4
<1>14. CASE UNCHANGED Cache!vars
  BY <1>14 DEF Cache!vars
<1>15. QED
  BY <1>1, <1>2, <1>3, <1>4, <1>5, <1>6, <1>7, <1>8, <1>9, <1>10, <1>11, <1>12, <1>13, <1>14
     DEF Cache!Next

LEMMA NextBehind == CacheInv /\ [Cache!Next]_Cache!vars => Behind'
<1> SUFFICES ASSUME Cache!TypeOK, Behind, [Cache!Next]_Cache!vars
             PROVE  Behind'
  BY DEF CacheInv
<1> USE CacheSetting DEF Cache!TypeOK, Behind, Cache!Versions
<1>1. ASSUME NEW r \in Readers,
             \/ Cache!Miss(r) \/ Cache!ReadGeneration(r) \/ Cache!ReadRow(r)
             \/ Cache!Fill(r) \/ Cache!Skip(r)
      PROVE  Behind'
  BY <1>1
     DEF Cache!Miss, Cache!ReadGeneration, Cache!ReadRow, Cache!Fill, Cache!Skip, Cache!keys,
         Cache!IdleReader
<1>2. ASSUME NEW w \in Requests, Cache!Change(w) \/ Cache!GuardHeals(w) \/ Cache!Stamp(w)
      PROVE  Behind'
  BY <1>2 DEF Cache!Change, Cache!GuardHeals, Cache!Stamp, Cache!keys
<1>3. ASSUME NEW w \in Requests,
             Cache!Increment(w) \/ Cache!Bury(w) \/ Cache!Drop(w) \/ Cache!Abandon(w)
      PROVE  Behind'
  BY <1>3 DEF Cache!Increment, Cache!Bury, Cache!Drop, Cache!Abandon, Cache!keys, Cache!IdleWriter
<1>4. CASE Cache!Tick
  BY <1>4 DEF Cache!Tick, Cache!keys
<1>5. CASE Cache!CopyExpires \/ Cache!KeysExpire \/ Cache!EvictGeneration \/ Cache!EvictTombstone
  BY <1>5 DEF Cache!CopyExpires, Cache!KeysExpire, Cache!EvictGeneration, Cache!EvictTombstone
<1>6. CASE UNCHANGED Cache!vars
  BY <1>6 DEF Cache!vars
<1>7. QED
  BY <1>1, <1>2, <1>3, <1>4, <1>5, <1>6 DEF Cache!Next

\* What the invariant says of one step without a mishap.
LEMMA NextCovered ==
  ASSUME CacheInv, [Cache!Next]_Cache!vars, mishaps' = {}
  PROVE  GensKnown' /\ ReadsCovered' /\ Cache!CacheIsCurrent'
<1> USE CacheSetting
<1>0. /\ Cache!TypeOK /\ Behind /\ Cache!TypeOK' /\ Behind'
  BY CacheTypes, NextBehind DEF CacheInv
<1> DEFINE Goal == GensKnown' /\ ReadsCovered' /\ Cache!CacheIsCurrent'
<1>1. mishaps = {}
  BY DEF CacheInv, Cache!Next, Cache!vars, Cache!keys, Cache!Miss, Cache!ReadGeneration,
         Cache!ReadRow, Cache!Fill, Cache!Skip, Cache!Change, Cache!GuardHeals, Cache!Stamp,
         Cache!Increment, Cache!Bury, Cache!Drop, Cache!Abandon, Cache!Tick, Cache!CopyExpires,
         Cache!KeysExpire, Cache!EvictGeneration, Cache!EvictTombstone
<1>2. GensKnown /\ ReadsCovered /\ Cache!CacheIsCurrent
  BY <1>1 DEF CacheInv
<1> USE <1>0, <1>2 DEF Cache!TypeOK, Cache!Versions
<1>3. ASSUME NEW r \in Readers, Cache!Miss(r) \/ Cache!ReadGeneration(r) \/ Cache!Skip(r)
      PROVE  Goal
  BY <1>3
     DEF Cache!Miss, Cache!ReadGeneration, Cache!Skip, Cache!keys, Cache!IdleReader, GensKnown,
         ReadsCovered, Cache!CacheIsCurrent, Cache!Admits, ShutOut
<1>4. ASSUME NEW r \in Readers, Cache!ReadRow(r)
      PROVE  Goal
  BY <1>4
     DEF Cache!ReadRow, Cache!keys, Behind, GensKnown, ReadsCovered, Cache!CacheIsCurrent,
         Cache!Admits, ShutOut
<1>5. ASSUME NEW r \in Readers, Cache!Fill(r)
      PROVE  Goal
  BY <1>5
     DEF Cache!Fill, Cache!IdleReader, GensKnown, ReadsCovered, Cache!CacheIsCurrent,
         Cache!Admits, ShutOut
<1>6. ASSUME NEW w \in Requests, Cache!Change(w) \/ Cache!GuardHeals(w) \/ Cache!Abandon(w)
      PROVE  Goal
  BY <1>6
     DEF Cache!Change, Cache!GuardHeals, Cache!Abandon, Cache!IdleWriter, Cache!keys, GensKnown,
         ReadsCovered, Cache!CacheIsCurrent, Cache!Admits, ShutOut
<1>7. ASSUME NEW w \in Requests, Cache!Stamp(w)
      PROVE  Goal
  BY <1>7
     DEF Cache!Stamp, Cache!keys, Behind, GensKnown, ReadsCovered, Cache!CacheIsCurrent,
         Cache!Admits, ShutOut
<1>8. ASSUME NEW w \in Requests, Cache!Increment(w)
      PROVE  Goal
  BY <1>8
     DEF Cache!Increment, GensKnown, ReadsCovered, Cache!CacheIsCurrent, Cache!Admits, ShutOut
<1>9. ASSUME NEW w \in Requests, Cache!Bury(w)
      PROVE  Goal
  <2>0. "overtaken" \notin mishaps'
    OBVIOUS
  <2>1. tombstone <= tombstone' /\ tombstone' = writer[w].now
    <3>1. tombstone' = writer[w].now /\ ~(writer[w].now < tombstone)
      BY <1>9, <2>0, Zenon DEF Cache!Bury
    <3>2. writer[w].now \in Nat /\ tombstone \in Nat
      OBVIOUS
    <3>3. QED
      BY <3>1, <3>2
  <2>2. /\ writer' = [writer EXCEPT ![w].pc = "del"] /\ writer[w].pc = "bury"
        /\ UNCHANGED <<db, clock, gen, cache, reader, invalidated>>
    BY <1>9 DEF Cache!Bury
  <2>3. ASSUME NEW r \in Readers, reader[r].pc = "fill"
        PROVE  /\ Cache!Admits(r)' => reader[r].got >= invalidated
               /\ \A v \in Requests : writer'[v].pc \in {"incr", "bury", "del"} =>
                    ShutOut(v, r)' \/ reader[r].got >= writer'[v].version
    <3>1. Cache!Admits(r)' => Cache!Admits(r)
      BY <2>1, <2>2 DEF Cache!Admits
    <3>2. ASSUME NEW v \in Requests, writer'[v].pc \in {"incr", "bury", "del"}, ShutOut(v, r)
          PROVE  ShutOut(v, r)'
      BY <2>1, <2>2, <3>2 DEF ShutOut
    <3>3. \A v \in Requests : writer'[v].version = writer[v].version
                               /\ (writer'[v].pc \in {"incr", "bury", "del"}
                                    => writer[v].pc \in {"incr", "bury", "del"})
      BY <2>2
    <3>4. QED
      BY <2>3, <3>1, <3>2, <3>3 DEF ReadsCovered
  <2>4. QED
    BY <2>2, <2>3 DEF GensKnown, ReadsCovered, Cache!CacheIsCurrent
<1>10. ASSUME NEW w \in Requests, Cache!Drop(w)
       PROVE  Goal
  BY <1>10
     DEF Cache!Drop, Cache!IdleWriter, GensKnown, ReadsCovered, Cache!CacheIsCurrent,
         Cache!Admits, ShutOut
<1>11. CASE Cache!Tick \/ Cache!CopyExpires \/ Cache!KeysExpire
  <2>1. CASE Cache!Tick
    BY <2>1
       DEF Cache!Tick, Cache!keys, GensKnown, ReadsCovered, Cache!CacheIsCurrent, Cache!Admits,
           ShutOut
  <2>2. CASE Cache!CopyExpires
    BY <2>2
       DEF Cache!CopyExpires, GensKnown, ReadsCovered, Cache!CacheIsCurrent, Cache!Admits, ShutOut
  <2>3. CASE Cache!KeysExpire
    <3>1. \A r \in Readers : reader'[r].pc = "idle"
      BY <2>3 DEF Cache!KeysExpire
    <3>2. ReadsCovered' /\ Cache!CacheIsCurrent'
      BY <2>3, <3>1 DEF Cache!KeysExpire, ReadsCovered, Cache!CacheIsCurrent
    <3>3. QED
      BY <3>1, <3>2 DEF GensKnown
  <2>4. QED
    BY <1>11, <2>1, <2>2, <2>3
<1>12. CASE Cache!EvictGeneration \/ Cache!EvictTombstone
  BY <1>12 DEF Cache!EvictGeneration, Cache!EvictTombstone
<1>13. CASE UNCHANGED Cache!vars
  BY <1>13 DEF Cache!vars, GensKnown, ReadsCovered, Cache!CacheIsCurrent, Cache!Admits, ShutOut
<1>14. QED
  BY <1>3, <1>4, <1>5, <1>6, <1>7, <1>8, <1>9, <1>10, <1>11, <1>12, <1>13 DEF Cache!Next

THEOREM CacheAlways == Cache!Spec => []CacheInv
<1>1. CacheInv /\ [Cache!Next]_Cache!vars => CacheInv'
  BY CacheTypes, NextBehind, NextCovered DEF CacheInv
<1>2. QED
  BY CacheInit, <1>1, PTL DEF Cache!Spec

\* Types are kept, whatever fails or expires (users.store.ts).
THEOREM CacheTypesCorrect == Cache!Spec => []Cache!TypeOK
BY CacheAlways, PTL DEF CacheInv

\* No copy older than the last invalidated change is served, unless tombstones
\* came in the wrong order or keys were dropped early (safeSetUserCache).
THEOREM CopiesAreCurrent == Cache!Spec => []CurrentWithoutMishap
<1>1. CacheInv => CurrentWithoutMishap
  BY DEF CacheInv, CurrentWithoutMishap, Cache!CurrentWithoutMishap
<1>2. QED
  BY CacheAlways, <1>1, PTL

-----------------------------------------------------------------------------
(* WebSession: a call that refreshes is the only one of its instance, and   *)
(* holds a token that the instance has not rotated, unless the answer to    *)
(* that was lost.                                                           *)

Pages == [page : {"shop", "dashboard", "admin", "login", "callback"}, user : BOOLEAN]
CallRows == [pc : {"idle", "sent", "refused", "refreshing", "waiting", "granted", "denied"},
             token : 0..MaxTokens]

\* A call that makes its instance's refresh.
Refreshes(r) == r.pc \in {"refreshing", "granted", "denied"}

Locked ==
  \A h \in Http :
    /\ \A c, d \in Web!CallsOf(h) : Refreshes(call[c]) /\ Refreshes(call[d]) => c = d
    /\ busy[h] <=> \E c \in Web!CallsOf(h) : Refreshes(call[c])

\* No token is known, or rotated, before it is issued.
TokensKnown ==
  /\ web <= tokens /\ refresh <= tokens
  /\ \A c \in Calls : call[c].token <= tokens
  /\ \A k \in 1..MaxTokens : k > tokens => rotatedBy[k] = Web!NoHttp

\* A token that is on its way to the browser is known to its call only.
Unused(c) ==
  /\ call[c].token # Web!None /\ call[c].token # refresh /\ rotatedBy[call[c].token] = Web!NoHttp
  /\ \A d \in Calls \ {c} : Refreshes(call[d]) => call[d].token # call[c].token
GrantsUnused == \A c \in Calls : call[c].pc = "granted" => Unused(c)

\* While the browser has a token that h rotated, the next one is on its way to
\* h, or was lost.
LostAfter(k) == \E n \in lost : n > k
Superseded(h) ==
  rotatedBy[refresh] = h =>
    \/ LostAfter(refresh)
    \/ \E c \in Web!CallsOf(h) : call[c].pc = "granted" /\ call[c].token > refresh
CookieSuperseded == refresh # Web!None => \A h \in Http : Superseded(h)

\* A call refreshes with a token its instance has rotated only after a loss.
Excused(c) ==
  call[c].pc \in {"refreshing", "denied"} /\ call[c].token # Web!None
    /\ rotatedBy[call[c].token] = HttpOf[c] => LostAfter(call[c].token)
RefreshesExcused == \A c \in Calls : Excused(c)

WebInv ==
  /\ Web!TypeOK /\ Locked /\ TokensKnown
  /\ GrantsUnused /\ CookieSuperseded /\ RefreshesExcused

LEMMA WebInit == Web!Init => WebInv
<1> SUFFICES ASSUME Web!Init PROVE WebInv
  OBVIOUS
<1> USE WebSetting DEF Web!WebSessionAssumption, Web!Init, Web!IdleCall, Web!None
<1>1. Web!TypeOK
  BY DEF Web!TypeOK
<1>2. Locked /\ TokensKnown /\ GrantsUnused /\ RefreshesExcused
  BY DEF Locked, TokensKnown, GrantsUnused, RefreshesExcused, Excused, Refreshes, Web!CallsOf
<1>3. CookieSuperseded
  BY DEF CookieSuperseded, Superseded
<1>4. QED
  BY <1>1, <1>2, <1>3 DEF WebInv

\* The session or the cookies change, and no refresh begins or ends.
LEMMA CookiesChange ==
  ASSUME WebInv, Web!TypeOK', UNCHANGED <<busy, rotatedBy, lost>>,
         \A c \in Calls : \/ call'[c] = call[c]
                          \/ /\ ~Refreshes(call[c]) /\ ~Refreshes(call'[c])
                             /\ call'[c].token <= tokens,
         tokens' >= tokens, web' <= tokens',
         refresh' \in {refresh, Web!None} \/ (refresh' > tokens /\ refresh' <= tokens')
  PROVE  WebInv'
<1>1. /\ Web!TypeOK /\ Locked /\ TokensKnown /\ GrantsUnused /\ CookieSuperseded /\ RefreshesExcused
      /\ tokens \in Nat /\ tokens' \in Nat /\ refresh \in Nat /\ refresh' \in 0..MaxTokens
      /\ \A c \in Calls : call[c].token \in 0..MaxTokens /\ call'[c].token \in 0..MaxTokens
  BY WebSetting DEF WebInv, Web!TypeOK, Web!WebSessionAssumption
<1>2. \A c \in Calls : Refreshes(call'[c]) <=> Refreshes(call[c])
  OBVIOUS
<1>3. \A c \in Calls : Refreshes(call[c]) => call'[c] = call[c]
  OBVIOUS
<1>4. Locked'
  BY <1>1, <1>2 DEF Locked, Web!CallsOf
<1>5. TokensKnown'
  <2>1. refresh' <= tokens'
    <3>1. refresh <= tokens
      BY <1>1 DEF TokensKnown
    <3>2. QED
      BY <1>1, <3>1 DEF Web!None
  <2>2. \A c \in Calls : call'[c].token <= tokens'
    <3>1. \A c \in Calls : call'[c].token <= tokens
      BY <1>1 DEF TokensKnown
    <3>2. QED
      BY <1>1, <3>1
  <2>3. \A k \in 1..MaxTokens : k > tokens' => rotatedBy'[k] = Web!NoHttp
    <3>1. \A k \in 1..MaxTokens : k > tokens' => k > tokens
      BY <1>1
    <3>2. QED
      BY <1>1, <3>1 DEF TokensKnown
  <2>4. QED
    BY <2>1, <2>2, <2>3 DEF TokensKnown
<1>6. GrantsUnused'
  <2> SUFFICES ASSUME NEW c \in Calls, call'[c].pc = "granted"
               PROVE  Unused(c)'
    BY DEF GrantsUnused
  <2>1. Refreshes(call[c]) /\ call'[c] = call[c]
    BY <1>2, <1>3 DEF Refreshes
  <2>2. Unused(c) /\ call[c].token <= tokens
    BY <1>1, <2>1 DEF GrantsUnused, TokensKnown
  <2>3. QED
    BY <1>1, <1>2, <1>3, <2>1, <2>2 DEF Unused, Web!None
<1>7. CookieSuperseded'
  <2> SUFFICES ASSUME refresh' # Web!None, NEW h \in Http, rotatedBy[refresh'] = h
               PROVE  Superseded(h)'
    BY DEF CookieSuperseded, Superseded
  <2>1. refresh' = refresh
    <3>1. CASE refresh' > tokens
      <4>1. rotatedBy[refresh'] = Web!NoHttp
        BY <1>1, <3>1 DEF TokensKnown
      <4>2. QED
        BY <4>1, WebSetting DEF Web!WebSessionAssumption
    <3>2. QED
      BY <3>1 DEF Web!None
  <2>2. Superseded(h)
    BY <1>1, <2>1 DEF CookieSuperseded
  <2>3. \A c \in Web!CallsOf(h) : c \in Calls /\ (call[c].pc = "granted" => call'[c] = call[c])
    BY <1>3 DEF Web!CallsOf, Refreshes
  <2>4. CASE LostAfter(refresh)
    BY <2>1, <2>4 DEF Superseded, LostAfter
  <2>5. CASE \E c \in Web!CallsOf(h) : call[c].pc = "granted" /\ call[c].token > refresh
    BY <2>1, <2>3, <2>5 DEF Superseded, Web!CallsOf
  <2>6. QED
    BY <2>1, <2>2, <2>4, <2>5 DEF Superseded
<1>8. RefreshesExcused'
  BY <1>1, <1>2, <1>3 DEF RefreshesExcused, Excused, LostAfter, Refreshes
<1>9. QED
  BY <1>1, <1>4, <1>5, <1>6, <1>7, <1>8 DEF WebInv

\* The refreshes of the instances S end; the tokens they were given reach the
\* cookie, or are lost.
LEMMA RefreshesEnd ==
  ASSUME WebInv, Web!TypeOK', NEW S \in SUBSET Http, UNCHANGED <<web, tokens, rotatedBy>>,
         busy' = [h \in Http |-> IF h \in S THEN FALSE ELSE busy[h]],
         \A c \in Calls : IF HttpOf[c] \in S THEN ~Refreshes(call'[c]) ELSE call'[c] = call[c],
         \A c \in Calls : call'[c].token \in {call[c].token, Web!None},
         lost \subseteq lost',
         \/ /\ refresh' = refresh
            /\ \A c \in Calls : HttpOf[c] \in S /\ call[c].pc = "granted" => call[c].token \in lost'
         \/ \E c \in Calls : HttpOf[c] \in S /\ call[c].pc = "granted" /\ refresh' = call[c].token
  PROVE  WebInv'
<1>1. /\ Web!TypeOK /\ Locked /\ TokensKnown /\ GrantsUnused /\ CookieSuperseded /\ RefreshesExcused
      /\ tokens \in Nat /\ refresh \in Nat /\ HttpOf \in [Calls -> Http] /\ Web!NoHttp \notin Http
      /\ \A c \in Calls : call[c].token \in 0..MaxTokens
  BY WebSetting DEF WebInv, Web!TypeOK, Web!WebSessionAssumption
<1>2. \A k : LostAfter(k) => LostAfter(k)'
  BY DEF LostAfter
<1>3. \A c \in Calls : Refreshes(call'[c]) => HttpOf[c] \notin S /\ call'[c] = call[c]
  OBVIOUS
<1>4. \A h \in Http \ S : \A c \in Web!CallsOf(h) : call'[c] = call[c]
  BY DEF Web!CallsOf
<1>5. Locked'
  <2>1. ASSUME NEW h \in S
        PROVE  ~busy'[h] /\ \A c \in Web!CallsOf(h) : ~Refreshes(call'[c])
    BY DEF Web!CallsOf
  <2>2. ASSUME NEW h \in Http \ S
        PROVE  busy'[h] = busy[h] /\ \A c \in Web!CallsOf(h) : call'[c] = call[c]
    BY <1>4
  <2>3. QED
    BY <1>1, <2>1, <2>2 DEF Locked, Web!CallsOf
<1>6. TokensKnown'
  <2>1. refresh' <= tokens
    BY <1>1 DEF TokensKnown
  <2>2. \A c \in Calls : call'[c].token <= tokens
    BY <1>1 DEF TokensKnown, Web!None
  <2>3. QED
    BY <1>1, <2>1, <2>2 DEF TokensKnown
<1>7. GrantsUnused'
  <2> SUFFICES ASSUME NEW c \in Calls, call'[c].pc = "granted"
               PROVE  Unused(c)'
    BY DEF GrantsUnused
  <2>1. HttpOf[c] \notin S /\ call'[c] = call[c] /\ call[c].pc = "granted"
    BY <1>3 DEF Refreshes
  <2>2. Unused(c)
    BY <1>1, <2>1 DEF GrantsUnused
  <2>3. refresh' # call[c].token
    <3>1. ASSUME NEW d \in Calls, HttpOf[d] \in S, call[d].pc = "granted"
          PROVE  call[d].token # call[c].token
      BY <2>1, <2>2, <3>1 DEF Unused, Refreshes
    <3>2. QED
      BY <2>2, <3>1 DEF Unused
  <2>4. QED
    BY <1>3, <2>1, <2>2, <2>3 DEF Unused
<1>8. CookieSuperseded'
  <2> SUFFICES ASSUME refresh' # Web!None, NEW h \in Http, rotatedBy[refresh'] = h
               PROVE  Superseded(h)'
    BY DEF CookieSuperseded, Superseded
  <2>1. /\ refresh' = refresh
        /\ \A c \in Calls : HttpOf[c] \in S /\ call[c].pc = "granted" => call[c].token \in lost'
    BY <1>1 DEF GrantsUnused, Unused
  <2>2. Superseded(h)
    BY <1>1, <2>1 DEF CookieSuperseded
  <2>3. CASE LostAfter(refresh)
    BY <1>2, <2>1, <2>3 DEF Superseded
  <2>4. ASSUME NEW c \in Web!CallsOf(h), call[c].pc = "granted", call[c].token > refresh
        PROVE  Superseded(h)'
    <3>1. CASE h \in S
      BY <2>1, <2>4, <3>1 DEF Superseded, LostAfter, Web!CallsOf
    <3>2. CASE h \notin S
      BY <1>4, <2>1, <2>4, <3>2 DEF Superseded, Web!CallsOf
    <3>3. QED
      BY <3>1, <3>2
  <2>5. QED
    BY <2>1, <2>2, <2>3, <2>4 DEF Superseded
<1>9. RefreshesExcused'
  BY <1>1, <1>2, <1>3 DEF RefreshesExcused, Excused, Refreshes
<1>10. QED
  BY <1>5, <1>6, <1>7, <1>8, <1>9 DEF WebInv

-----------------------------------------------------------------------------
(* Types *)

LEMMA WebRow ==
  ASSUME Web!TypeOK
  PROVE  /\ web \in Nat /\ tokens \in Nat /\ refresh \in Nat /\ MaxTokens \in Nat \ {0}
         /\ tokens <= MaxTokens /\ Web!None \in 0..MaxTokens /\ Web!IdleCall \in CallRows
         /\ call \in [Calls -> CallRows] /\ pages \in [Windows -> Pages]
         /\ HttpOf \in [Calls -> Http] /\ TabOf \in [Http -> Windows] /\ Web!NoHttp \notin Http
         /\ \A page \in {"shop", "dashboard", "admin", "login"} :
              Web!Land(page) \in {"shop", "dashboard", "admin", "login"}
         /\ Web!Granted(Calls) \subseteq 0..MaxTokens
<1>1. /\ MaxTokens \in Nat \ {0} /\ HttpOf \in [Calls -> Http] /\ TabOf \in [Http -> Windows]
      /\ Web!NoHttp \notin Http
  BY WebSetting DEF Web!WebSessionAssumption
<1>2. /\ web \in Nat /\ tokens \in Nat /\ refresh \in Nat /\ tokens <= MaxTokens
      /\ Web!None \in 0..MaxTokens /\ call \in [Calls -> CallRows] /\ pages \in [Windows -> Pages]
  BY <1>1 DEF Web!TypeOK, Web!None, CallRows, Pages
<1>3. Web!IdleCall \in CallRows
  BY <1>2 DEF Web!IdleCall, CallRows
<1>4. \A page \in {"shop", "dashboard", "admin", "login"} :
        Web!Land(page) \in {"shop", "dashboard", "admin", "login"}
  BY DEF Web!Land, Web!Home
<1>5. Web!Granted(Calls) \subseteq 0..MaxTokens
  BY <1>2 DEF Web!Granted, CallRows
<1>6. QED
  BY <1>1, <1>2, <1>3, <1>4, <1>5

\* A call goes on.
LEMMA CallTypes ==
  ASSUME Web!TypeOK, NEW c \in Calls,
         \/ Web!Call(c) \/ Web!Answer(c) \/ Web!CallFails(c)
         \/ Web!Recover(c) \/ Web!Rotate(c) \/ Web!Renewed(c)
  PROVE  Web!TypeOK'
<1>1. ASSUME NEW entry \in CallRows, call' = [call EXCEPT ![c] = entry],
             UNCHANGED <<Web!server, Web!browser, pages, expired, lost>>, busy' \in [Http -> BOOLEAN]
      PROVE  Web!TypeOK'
  BY <1>1, WebRow DEF Web!TypeOK, Web!server, Web!browser, CallRows
<1>2. CASE Web!Call(c) \/ Web!Answer(c) \/ Web!CallFails(c) \/ Web!Recover(c)
  <2>1. UNCHANGED <<Web!server, Web!browser, pages, expired, lost>> /\ busy' \in [Http -> BOOLEAN]
    BY <1>2, WebRow DEF Web!Call, Web!Answer, Web!CallFails, Web!Recover, Web!TypeOK
  <2>2. PICK entry \in CallRows : call' = [call EXCEPT ![c] = entry]
    <3>1. call[c] \in CallRows /\ refresh \in 0..MaxTokens
      BY WebRow DEF Web!TypeOK
    <3>2. \A pc \in {"idle", "sent", "refused", "refreshing", "waiting", "granted", "denied"} :
            [call[c] EXCEPT !.pc = pc] \in CallRows
      BY <3>1 DEF CallRows
    <3>3. [pc |-> "refreshing", token |-> refresh] \in CallRows /\ Web!IdleCall \in CallRows
      BY <3>1, WebRow DEF CallRows
    <3>4. CASE Web!Call(c)
      BY <3>2, <3>4 DEF Web!Call
    <3>5. CASE Web!Answer(c)
      BY <3>2, <3>5 DEF Web!Answer
    <3>6. CASE Web!CallFails(c)
      BY <3>3, <3>6 DEF Web!CallFails
    <3>7. CASE Web!Recover(c)
      BY <3>2, <3>3, <3>7 DEF Web!Recover
    <3>8. QED
      BY <1>2, <3>4, <3>5, <3>6, <3>7
  <2>3. QED
    BY <1>1, <2>1, <2>2
<1>3. CASE Web!Rotate(c)
  <2>1. CASE UNCHANGED <<web, tokens, rotatedBy>> /\ call' = [call EXCEPT ![c].pc = "denied"]
    <3>1. [call[c] EXCEPT !.pc = "denied"] \in CallRows
      BY WebRow DEF CallRows
    <3>2. QED
      BY <1>1, <1>3, <2>1, <3>1 DEF Web!Rotate, Web!server, Web!TypeOK
  <2>2. CASE /\ tokens < MaxTokens /\ web' = tokens + 1 /\ tokens' = tokens + 1
             /\ rotatedBy' = [rotatedBy EXCEPT ![web] = HttpOf[c]]
             /\ call' = [call EXCEPT ![c] = [pc |-> "granted", token |-> tokens + 1]]
    <3>1. tokens + 1 \in 1..MaxTokens /\ tokens + 1 \in 0..MaxTokens
      BY <2>2, WebRow
    <3>2. [pc |-> "granted", token |-> tokens + 1] \in CallRows
      BY <3>1 DEF CallRows
    <3>3. call' \in [Calls -> CallRows] /\ rotatedBy' \in [1..MaxTokens -> Http \cup {Web!NoHttp}]
      BY <2>2, <3>2, WebRow DEF Web!TypeOK
    <3>4. UNCHANGED <<access, refresh, stored, pages, busy, expired, ended, lost>>
      BY <1>3 DEF Web!Rotate, Web!browser
    <3>5. QED
      BY <2>2, <3>1, <3>3, <3>4 DEF Web!TypeOK, CallRows
  <2>3. QED
    BY <1>3, <2>1, <2>2 DEF Web!Rotate
<1>4. CASE Web!Renewed(c)
  <2>1. [Web!IdleCall EXCEPT !.pc = "sent"] \in CallRows
    BY WebRow DEF CallRows
  <2>2. call' \in [Calls -> CallRows]
    BY <1>4, <2>1, WebRow DEF Web!Renewed
  <2>3. refresh' \in 0..MaxTokens
    BY <1>4, WebRow DEF Web!Renewed, CallRows
  <2>4. access' \in BOOLEAN /\ busy' \in [Http -> BOOLEAN]
    BY <1>4 DEF Web!Renewed, Web!TypeOK
  <2>5. UNCHANGED <<Web!server, stored, pages, expired, lost>>
    BY <1>4 DEF Web!Renewed
  <2>6. QED
    BY <2>2, <2>3, <2>4, <2>5 DEF Web!TypeOK, Web!server, CallRows
<1>5. QED
  BY <1>2, <1>3, <1>4

\* A refresh ends in vain.
LEMMA EndTypes ==
  ASSUME Web!TypeOK, NEW c \in Calls, Web!Denied(c) \/ Web!RefreshFails(c)
  PROVE  Web!TypeOK'
<1>1. UNCHANGED <<Web!server, access, refresh, expired>>
  BY DEF Web!Denied, Web!RefreshFails
<1>2. CASE Web!SignOut(TabOf[HttpOf[c]])
  <2> DEFINE t == TabOf[HttpOf[c]]
  <2>1. [page |-> Web!Land("login"), user |-> FALSE] \in Pages
    BY WebRow DEF Pages
  <2>2. pages' \in [Windows -> Pages] /\ call' \in [Calls -> CallRows]
    BY <1>2, <2>1, WebRow DEF Web!SignOut
  <2>3. stored' \in BOOLEAN /\ busy' \in [Http -> BOOLEAN] /\ lost' \subseteq 0..MaxTokens
    <3>1. Web!Granted(Web!TabCalls(t)) \subseteq Web!Granted(Calls)
      BY DEF Web!Granted, Web!TabCalls
    <3>2. QED
      BY <1>2, <3>1, WebRow DEF Web!SignOut, Web!TypeOK
  <2>4. QED
    BY <1>1, <2>2, <2>3 DEF Web!TypeOK, Web!server, CallRows, Pages
<1>3. CASE Web!Reject(c) /\ lost' = lost \cup Web!Granted({c})
  <2>1. call' \in [Calls -> CallRows]
    BY <1>3, WebRow DEF Web!Reject
  <2>2. busy' \in [Http -> BOOLEAN] /\ lost' \subseteq 0..MaxTokens
    <3>1. Web!Granted({c}) \subseteq Web!Granted(Calls)
      BY DEF Web!Granted
    <3>2. QED
      BY <1>3, <3>1, WebRow DEF Web!Reject, Web!TypeOK
  <2>3. QED
    BY <1>1, <1>3, <2>1, <2>2 DEF Web!Reject, Web!TypeOK, Web!server, CallRows
<1>4. QED
  BY <1>2, <1>3 DEF Web!Denied, Web!RefreshFails

\* A page changes, or the session does.
LEMMA PageTypes ==
  ASSUME Web!TypeOK,
         \/ \E t \in Windows :
              \/ \E page \in {"shop", "dashboard", "admin", "login"} : Web!Open(t, page)
              \/ Web!Login(t) \/ Web!ReturnFromProvider(t) \/ Web!Hydrate(t)
              \/ Web!GuardDashboard(t) \/ Web!VerifyAdmin(t) \/ Web!Logout(t) \/ Web!LogoutFails(t)
         \/ Web!AccessExpires \/ Web!SessionEnds
  PROVE  Web!TypeOK'
<1>1. UNCHANGED <<call, busy, lost, rotatedBy>>
  BY DEF Web!Open, Web!Login, Web!ReturnFromProvider, Web!Begin, Web!Hydrate, Web!GuardDashboard,
         Web!VerifyAdmin, Web!Logout, Web!LogoutFails, Web!AccessExpires, Web!SessionEnds,
         Web!server
<1>2. pages' \in [Windows -> Pages]
  <2>1. pages \in [Windows -> Pages]
    BY WebRow
  <2>2. CASE Web!AccessExpires \/ Web!SessionEnds
    BY <2>1, <2>2 DEF Web!AccessExpires, Web!SessionEnds
  <2>3. ASSUME NEW t \in Windows, pages' # pages,
               \/ \E page \in {"shop", "dashboard", "admin", "login"} : Web!Open(t, page)
               \/ Web!Login(t) \/ Web!ReturnFromProvider(t) \/ Web!Hydrate(t)
               \/ Web!GuardDashboard(t) \/ Web!VerifyAdmin(t) \/ Web!Logout(t) \/ Web!LogoutFails(t)
        PROVE  \E entry \in Pages : pages' = [pages EXCEPT ![t] = entry]
    <3>1. pages[t] \in Pages /\ stored \in BOOLEAN
      BY <2>1 DEF Web!TypeOK
    <3>2. \A page \in {"shop", "dashboard", "admin", "login", "callback"} : \A b \in BOOLEAN :
            /\ [page |-> page, user |-> b] \in Pages
            /\ [pages[t] EXCEPT !.page = page] \in Pages /\ [pages[t] EXCEPT !.user = b] \in Pages
      BY <3>1 DEF Pages
    <3>3. \A page \in {"shop", "dashboard", "admin", "login"} :
            Web!Land(page) \in {"shop", "dashboard", "admin", "login"}
      BY WebRow
    <3>4. CASE \E page \in {"shop", "dashboard", "admin", "login"} : Web!Open(t, page)
      BY <3>1, <3>2, <3>3, <3>4 DEF Web!Open
    <3>5. CASE Web!Login(t) \/ Web!ReturnFromProvider(t)
      BY <3>2, <3>5 DEF Web!Login, Web!ReturnFromProvider
    <3>6. CASE Web!Hydrate(t)
      BY <3>2, <3>3, <3>6 DEF Web!Hydrate
    <3>7. CASE Web!GuardDashboard(t) \/ Web!VerifyAdmin(t)
      BY <3>2, <3>3, <3>7 DEF Web!GuardDashboard, Web!VerifyAdmin
    <3>8. CASE Web!Logout(t) \/ Web!LogoutFails(t)
      BY <3>2, <3>3, <3>8 DEF Web!Logout, Web!LogoutFails
    <3>9. QED
      BY <2>3, <3>4, <3>5, <3>6, <3>7, <3>8
  <2>4. QED
    BY <2>1, <2>2, <2>3
<1>3. ASSUME Web!Begin 
      PROVE  web' \in 0..MaxTokens /\ tokens' \in 1..MaxTokens /\ refresh' \in 0..MaxTokens
  BY <1>3, WebRow DEF Web!Begin
<1>4. web' \in 0..MaxTokens /\ tokens' \in 1..MaxTokens /\ refresh' \in 0..MaxTokens
  BY <1>3, WebRow
     DEF Web!Open, Web!Login, Web!ReturnFromProvider, Web!Hydrate, Web!GuardDashboard,
         Web!VerifyAdmin, Web!Logout, Web!LogoutFails, Web!AccessExpires, Web!SessionEnds,
         Web!server, Web!browser, Web!TypeOK
<1>5. access' \in BOOLEAN /\ stored' \in BOOLEAN /\ expired' \in 0..MaxExpired
  <2>1. access' \in BOOLEAN /\ stored' \in BOOLEAN
    BY DEF Web!Open, Web!Login, Web!ReturnFromProvider, Web!Begin, Web!Hydrate,
           Web!GuardDashboard, Web!VerifyAdmin, Web!Logout, Web!LogoutFails, Web!AccessExpires,
           Web!SessionEnds, Web!server, Web!browser, Web!TypeOK
  <2>2. CASE Web!AccessExpires
    BY <2>1, <2>2, WebSetting DEF Web!AccessExpires, Web!TypeOK, Web!WebSessionAssumption
  <2>3. CASE ~Web!AccessExpires
    BY <2>1, <2>3
       DEF Web!Open, Web!Login, Web!ReturnFromProvider, Web!Hydrate, Web!GuardDashboard,
           Web!VerifyAdmin, Web!Logout, Web!LogoutFails, Web!SessionEnds, Web!TypeOK
  <2>4. QED
    BY <2>1, <2>2, <2>3
<1>6. ended' \subseteq 1..MaxTokens
  <2>1. {web} \ {Web!None} \subseteq 1..MaxTokens
    BY WebRow DEF Web!TypeOK, Web!None
  <2>2. QED
    BY <2>1
       DEF Web!Open, Web!Login, Web!ReturnFromProvider, Web!Begin, Web!Hydrate,
           Web!GuardDashboard, Web!VerifyAdmin, Web!Logout, Web!LogoutFails, Web!AccessExpires,
           Web!SessionEnds, Web!server, Web!browser, Web!TypeOK, Web!None
<1>7. QED
  BY <1>1, <1>2, <1>4, <1>5, <1>6 DEF Web!TypeOK, Pages

-----------------------------------------------------------------------------
(* Steps *)

LEMMA PagesKeep ==
  ASSUME WebInv,
         \/ \E t \in Windows :
              \/ \E page \in {"shop", "dashboard", "admin", "login"} : Web!Open(t, page)
              \/ Web!Login(t) \/ Web!ReturnFromProvider(t) \/ Web!Hydrate(t)
              \/ Web!GuardDashboard(t) \/ Web!VerifyAdmin(t) \/ Web!Logout(t) \/ Web!LogoutFails(t)
         \/ Web!AccessExpires \/ Web!SessionEnds
  PROVE  WebInv'
<1>1. Web!TypeOK /\ Web!TypeOK'
  BY PageTypes DEF WebInv
<1>2. UNCHANGED <<call, busy, lost, rotatedBy>>
  BY DEF Web!Open, Web!Login, Web!ReturnFromProvider, Web!Begin, Web!Hydrate, Web!GuardDashboard,
         Web!VerifyAdmin, Web!Logout, Web!LogoutFails, Web!AccessExpires, Web!SessionEnds,
         Web!server
<1>3. web <= tokens /\ web \in Nat /\ tokens \in Nat
  BY <1>1, WebRow DEF WebInv, TokensKnown
<1>4. \/ Web!Begin
      \/ tokens' = tokens /\ web' \in {web, Web!None} /\ refresh' \in {refresh, Web!None}
  BY DEF Web!Open, Web!Login, Web!ReturnFromProvider, Web!Hydrate, Web!GuardDashboard,
         Web!VerifyAdmin, Web!Logout, Web!LogoutFails, Web!AccessExpires, Web!SessionEnds,
         Web!server, Web!browser
<1>5. /\ tokens' >= tokens /\ web' <= tokens'
      /\ refresh' \in {refresh, Web!None} \/ (refresh' > tokens /\ refresh' <= tokens')
  <2>1. CASE Web!Begin
    BY <1>3, <2>1 DEF Web!Begin
  <2>2. CASE tokens' = tokens /\ web' \in {web, Web!None} /\ refresh' \in {refresh, Web!None}
    BY <1>3, <2>2 DEF Web!None
  <2>3. QED
    BY <1>4, <2>1, <2>2
<1>6. QED
  BY <1>1, <1>2, <1>5, CookiesChange

\* A call goes on that does not refresh.
LEMMA CallsKeep ==
  ASSUME WebInv, NEW c \in Calls,
         \/ Web!Call(c) \/ Web!Answer(c) \/ Web!CallFails(c)
         \/ Web!Recover(c) /\ busy[HttpOf[c]]
  PROVE  WebInv'
<1>1. Web!TypeOK /\ Web!TypeOK'
  BY CallTypes DEF WebInv
<1>2. UNCHANGED <<web, tokens, refresh, rotatedBy, lost, busy>>
  BY DEF Web!Call, Web!Answer, Web!CallFails, Web!Recover, Web!server, Web!browser
<1>3. \A d \in Calls \ {c} : call'[d] = call[d]
  BY <1>1, WebRow DEF Web!Call, Web!Answer, Web!CallFails, Web!Recover
<1>4. ~Refreshes(call[c]) /\ ~Refreshes(call'[c]) /\ call'[c].token \in {call[c].token, Web!None}
  BY <1>1, WebRow
     DEF Web!Call, Web!Answer, Web!CallFails, Web!Recover, Refreshes, CallRows, Web!IdleCall
<1>5. web <= tokens /\ tokens \in Nat /\ call[c].token <= tokens
  BY <1>1, WebRow DEF WebInv, TokensKnown
<1>6. call'[c].token <= tokens
  BY <1>4, <1>5 DEF Web!None
<1>7. QED
  BY <1>1, <1>2, <1>3, <1>4, <1>5, <1>6, CookiesChange

LEMMA RefreshBegins ==
  ASSUME WebInv, NEW c \in Calls, Web!Recover(c), ~busy[HttpOf[c]]
  PROVE  WebInv'
<1>1. /\ Web!TypeOK /\ Web!TypeOK' /\ Locked /\ TokensKnown /\ GrantsUnused /\ CookieSuperseded
      /\ RefreshesExcused
  BY CallTypes DEF WebInv
<1>2. /\ call'[c] = [pc |-> "refreshing", token |-> refresh]
      /\ \A d \in Calls \ {c} : call'[d] = call[d]
      /\ UNCHANGED <<web, tokens, refresh, rotatedBy, lost>>
      /\ busy' = [busy EXCEPT ![HttpOf[c]] = TRUE] /\ call[c].pc = "refused"
  BY <1>1, WebRow DEF Web!Recover, Web!server, Web!browser
<1>3. /\ HttpOf \in [Calls -> Http] /\ \A d \in Web!CallsOf(HttpOf[c]) : ~Refreshes(call[d])
      /\ Web!NoHttp \notin Http
  BY <1>1, WebRow DEF Locked
<1>4. Locked'
  <2>1. busy'[HttpOf[c]] /\ Refreshes(call'[c]) /\ c \in Web!CallsOf(HttpOf[c])
    BY <1>1, <1>2, <1>3 DEF Refreshes, Web!CallsOf, Web!TypeOK
  <2>2. \A d \in Web!CallsOf(HttpOf[c]) \ {c} : ~Refreshes(call'[d])
    BY <1>2, <1>3 DEF Web!CallsOf
  <2>3. \A h \in Http \ {HttpOf[c]} : busy'[h] = busy[h] /\ \A d \in Web!CallsOf(h) : call'[d] = call[d]
    BY <1>1, <1>2 DEF Web!CallsOf, Web!TypeOK
  <2>4. QED
    BY <1>1, <2>1, <2>2, <2>3 DEF Locked, Web!CallsOf
<1>5. TokensKnown'
  BY <1>1, <1>2 DEF TokensKnown
<1>6. GrantsUnused'
  BY <1>1, <1>2 DEF GrantsUnused, Unused, Refreshes
<1>7. CookieSuperseded'
  <2> SUFFICES ASSUME refresh # Web!None, NEW h \in Http, rotatedBy[refresh] = h
               PROVE  Superseded(h)'
    BY <1>2 DEF CookieSuperseded, Superseded
  <2>1. Superseded(h)
    BY <1>1 DEF CookieSuperseded
  <2>2. \A d \in Web!CallsOf(h) : call[d].pc = "granted" => call'[d] = call[d]
    BY <1>2 DEF Web!CallsOf
  <2>3. QED
    BY <1>2, <2>1, <2>2 DEF Superseded, LostAfter, Web!CallsOf
<1>8. RefreshesExcused'
  <2>1. Excused(c)'
    <3>1. SUFFICES ASSUME refresh # Web!None, rotatedBy[refresh] = HttpOf[c] PROVE LostAfter(refresh)
      BY <1>2 DEF Excused, LostAfter
    <3>2. Superseded(HttpOf[c])
      BY <1>1, <1>3, <3>1 DEF CookieSuperseded
    <3>3. QED
      BY <1>3, <3>1, <3>2 DEF Superseded, Refreshes
  <2>2. \A d \in Calls \ {c} : Excused(d)'
    BY <1>1, <1>2 DEF RefreshesExcused, Excused, LostAfter
  <2>3. QED
    BY <2>1, <2>2 DEF RefreshesExcused
<1>9. QED
  BY <1>1, <1>4, <1>5, <1>6, <1>7, <1>8 DEF WebInv

LEMMA TokenRotates ==
  ASSUME WebInv, NEW c \in Calls, Web!Rotate(c)
  PROVE  WebInv'
<1>1. /\ Web!TypeOK /\ Web!TypeOK' /\ Locked /\ TokensKnown /\ GrantsUnused /\ CookieSuperseded
      /\ RefreshesExcused
  BY CallTypes DEF WebInv
<1>2. /\ call[c].pc = "refreshing" /\ UNCHANGED <<refresh, busy, lost>>
      /\ \A d \in Calls \ {c} : call'[d] = call[d]
      /\ call[c] \in CallRows /\ HttpOf \in [Calls -> Http] /\ Web!NoHttp \notin Http
      /\ web \in Nat /\ tokens \in Nat /\ refresh \in Nat /\ MaxTokens \in Nat
      /\ \A d \in Calls : call[d].token \in Nat
  BY <1>1, WebRow DEF Web!Rotate, Web!browser, CallRows
<1>3. Refreshes(call'[c]) /\ call'[c].pc \in {"granted", "denied"}
  BY <1>1, <1>2, WebRow DEF Web!Rotate, Refreshes, CallRows
<1>4. \A d \in Calls : Refreshes(call'[d]) <=> Refreshes(call[d])
  BY <1>2, <1>3 DEF Refreshes
<1>5. Locked'
  BY <1>1, <1>2, <1>4 DEF Locked, Web!CallsOf
<1>6. CASE call'[c].pc = "denied"
  <2>1. call'[c].token = call[c].token /\ UNCHANGED <<web, tokens, rotatedBy>>
    BY <1>1, <1>2, <1>6, WebRow DEF Web!Rotate, CallRows
  <2>2. TokensKnown'
    BY <1>1, <1>2, <2>1 DEF TokensKnown
  <2>3. GrantsUnused'
    BY <1>1, <1>2, <1>4, <1>6, <2>1 DEF GrantsUnused, Unused
  <2>4. CookieSuperseded'
    <3> SUFFICES ASSUME refresh # Web!None, NEW h \in Http, rotatedBy[refresh] = h
                 PROVE  Superseded(h)'
      BY <1>2, <2>1 DEF CookieSuperseded, Superseded
    <3>1. Superseded(h)
      BY <1>1 DEF CookieSuperseded
    <3>2. \A d \in Web!CallsOf(h) : call[d].pc = "granted" => call'[d] = call[d]
      BY <1>2 DEF Web!CallsOf
    <3>3. QED
      BY <1>2, <2>1, <3>1, <3>2 DEF Superseded, LostAfter, Web!CallsOf
  <2>5. RefreshesExcused'
    BY <1>1, <1>2, <2>1 DEF RefreshesExcused, Excused, LostAfter
  <2>6. QED
    BY <1>1, <1>5, <2>2, <2>3, <2>4, <2>5 DEF WebInv
<1>7. CASE call'[c].pc = "granted"
  <2> DEFINE new == tokens + 1
  <2>1. /\ web # Web!None /\ call[c].token = web /\ web' = new /\ tokens' = new
        /\ rotatedBy' = [rotatedBy EXCEPT ![web] = HttpOf[c]]
        /\ call'[c] = [pc |-> "granted", token |-> new] /\ new \in Nat /\ tokens < MaxTokens
    BY <1>1, <1>2, <1>7, WebRow DEF Web!Rotate, CallRows
  <2>2. web \in 1..MaxTokens /\ web <= tokens /\ refresh <= tokens
        /\ \A d \in Calls : call[d].token <= tokens
    BY <1>1, <1>2, <2>1 DEF TokensKnown, Web!TypeOK, Web!None
  <2>3. /\ rotatedBy'[web] = HttpOf[c] /\ rotatedBy'[new] = Web!NoHttp
        /\ \A k \in 1..MaxTokens : k # web => rotatedBy'[k] = rotatedBy[k]
    <3>1. rotatedBy \in [1..MaxTokens -> Http \cup {Web!NoHttp}] /\ new \in 1..MaxTokens /\ new # web
      BY <1>1, <1>2, <2>1, <2>2 DEF Web!TypeOK
    <3>2. rotatedBy[new] = Web!NoHttp
      BY <1>1, <1>2, <3>1 DEF TokensKnown
    <3>3. QED
      BY <2>1, <2>2, <3>1, <3>2
  <2> HIDE DEF new
  <2>4. new > tokens
    BY <1>2 DEF new
  <2>5. TokensKnown'
    <3>1. \A k \in 1..MaxTokens : k > new => rotatedBy'[k] = Web!NoHttp
      <4> SUFFICES ASSUME NEW k \in 1..MaxTokens, k > new PROVE rotatedBy'[k] = Web!NoHttp
        OBVIOUS
      <4>1. k > tokens /\ k # web
        BY <1>2, <2>1, <2>2, <2>4
      <4>2. QED
        BY <1>1, <2>3, <4>1 DEF TokensKnown
    <3>2. refresh' <= new
      BY <1>2, <2>1, <2>2, <2>4
    <3>3. \A d \in Calls : call'[d].token <= new
      <4> TAKE d \in Calls
      <4>1. CASE d = c
        BY <2>1, <4>1
      <4>2. CASE d # c
        BY <1>2, <2>1, <2>2, <2>4, <4>2
      <4>3. QED
        BY <4>1, <4>2
    <3>4. web' <= tokens'
      BY <2>1
    <3>5. QED
      BY <2>1, <3>1, <3>2, <3>3, <3>4 DEF TokensKnown
  <2>6. GrantsUnused'
    <3>1. Unused(c)'
      <4>1. new # Web!None /\ new # refresh /\ \A d \in Calls : call[d].token # new
        BY <1>2, <2>1, <2>2, <2>4 DEF Web!None
      <4>2. QED
        BY <1>2, <2>1, <2>3, <4>1 DEF Unused
    <3>2. ASSUME NEW d \in Calls \ {c}, call[d].pc = "granted"
          PROVE  Unused(d)'
      <4>1. Unused(d) /\ call'[d] = call[d] /\ call[d].token # web
        BY <1>1, <1>2, <2>1, <3>2 DEF GrantsUnused, Unused, Refreshes
      <4>2. call[d].token \in 1..MaxTokens /\ call[d].token # new
        BY <1>1, <1>2, <2>1, <2>2, <2>4, <4>1 DEF Unused, Web!TypeOK, Web!None
      <4>3. rotatedBy'[call[d].token] = Web!NoHttp
        BY <2>3, <4>1, <4>2 DEF Unused
      <4>4. QED
        BY <1>2, <1>4, <2>1, <4>1, <4>2, <4>3 DEF Unused
    <3>3. QED
      BY <1>2, <3>1, <3>2 DEF GrantsUnused
  <2>7. CookieSuperseded'
    <3> SUFFICES ASSUME refresh # Web!None, NEW h \in Http, rotatedBy'[refresh] = h
                 PROVE  Superseded(h)'
      BY <1>2 DEF CookieSuperseded, Superseded
    <3>1. CASE refresh = web
      <4>1. h = HttpOf[c] /\ call'[c].pc = "granted" /\ call'[c].token > refresh /\ c \in Web!CallsOf(h)
        BY <1>2, <2>1, <2>2, <2>3, <2>4, <3>1 DEF Web!CallsOf
      <4>2. QED
        BY <1>2, <4>1 DEF Superseded, Web!CallsOf
    <3>2. CASE refresh # web
      <4>1. rotatedBy[refresh] = h
        BY <1>1, <2>3, <3>2 DEF Web!TypeOK, Web!None
      <4>2. Superseded(h)
        BY <1>1, <4>1 DEF CookieSuperseded
      <4>3. \A d \in Web!CallsOf(h) : call[d].pc = "granted" => call'[d] = call[d]
        BY <1>2 DEF Web!CallsOf
      <4>4. QED
        BY <1>2, <4>1, <4>2, <4>3 DEF Superseded, LostAfter, Web!CallsOf
    <3>3. QED
      BY <3>1, <3>2
  <2>8. RefreshesExcused'
    <3> SUFFICES ASSUME NEW d \in Calls, call'[d].pc \in {"refreshing", "denied"},
                        call'[d].token # Web!None, rotatedBy'[call'[d].token] = HttpOf[d]
                 PROVE  LostAfter(call'[d].token)
      BY <1>2 DEF RefreshesExcused, Excused, LostAfter
    <3>1. d # c /\ call'[d] = call[d] /\ Refreshes(call[d])
      BY <1>2, <1>7 DEF Refreshes
    <3>2. HttpOf[d] # HttpOf[c]
      BY <1>1, <1>2, <3>1 DEF Locked, Web!CallsOf, Refreshes
    <3>3. call[d].token \in 1..MaxTokens
      BY <1>1, <3>1 DEF Web!TypeOK, Web!None
    <3>4. rotatedBy[call[d].token] = HttpOf[d]
      BY <2>3, <3>1, <3>2, <3>3
    <3>5. QED
      BY <1>1, <3>1, <3>4 DEF RefreshesExcused, Excused, Refreshes
  <2>9. QED
    BY <1>1, <1>5, <2>5, <2>6, <2>7, <2>8 DEF WebInv
<1>8. QED
  BY <1>3, <1>6, <1>7

\* The answer reaches the browser.
LEMMA CookieArrives ==
  ASSUME WebInv, NEW c \in Calls, Web!Renewed(c)
  PROVE  WebInv'
<1>1. Web!TypeOK /\ Web!TypeOK' /\ Locked
  BY CallTypes DEF WebInv
<1>2. HttpOf \in [Calls -> Http]
  BY <1>1, WebRow
<1> DEFINE h == HttpOf[c]
<1>3. \A d \in Web!CallsOf(h) : Refreshes(call[d]) => d = c
  BY <1>1, <1>2 DEF Web!Renewed, Refreshes, Locked, Web!CallsOf
<1>4. \A d \in Calls : d = c \/ d \in Web!Waiting(h) => ~Refreshes(call'[d]) /\ call'[d].token = Web!None
  BY DEF Web!Renewed, Web!IdleCall, Refreshes
<1>5. \A d \in Calls : ~(d = c \/ d \in Web!Waiting(h)) => call'[d] = call[d]
  BY DEF Web!Renewed
<1>6. \A d \in Calls : IF HttpOf[d] \in {h} THEN ~Refreshes(call'[d]) ELSE call'[d] = call[d]
  BY <1>3, <1>4, <1>5 DEF Web!Waiting, Web!CallsOf
<1>7. \A d \in Calls : call'[d].token \in {call[d].token, Web!None}
  BY <1>4, <1>5
<1>8. busy' = [g \in Http |-> IF g \in {h} THEN FALSE ELSE busy[g]]
  BY <1>1 DEF Web!Renewed, Web!TypeOK
<1>9. /\ UNCHANGED <<web, tokens, rotatedBy>> /\ lost' = lost
      /\ HttpOf[c] \in {h} /\ call[c].pc = "granted" /\ refresh' = call[c].token
  BY DEF Web!Renewed, Web!server
<1>10. {h} \in SUBSET Http
  BY <1>2
<1> HIDE DEF h
<1>11. QED
  BY <1>1, <1>6, <1>7, <1>8, <1>9, <1>10, RefreshesEnd

\* The page goes, or the instance gives up.
LEMMA RefreshFailed ==
  ASSUME WebInv, NEW c \in Calls, Web!Denied(c) \/ Web!RefreshFails(c)
  PROVE  WebInv'
<1>1. Web!TypeOK /\ Web!TypeOK' /\ Locked
  BY EndTypes DEF WebInv
<1>2. HttpOf \in [Calls -> Http] /\ UNCHANGED <<web, tokens, rotatedBy, refresh>>
  BY <1>1, WebRow DEF Web!Denied, Web!RefreshFails, Web!server
<1>3. Refreshes(call[c])
  BY DEF Web!Denied, Web!RefreshFails, Refreshes
<1>4. CASE Web!SignOut(TabOf[HttpOf[c]])
  <2> DEFINE t == TabOf[HttpOf[c]]
             S == {h \in Http : TabOf[h] = t}
  <2>1. \A d \in Calls : d \in Web!TabCalls(t) <=> HttpOf[d] \in S
    BY <1>2 DEF Web!TabCalls
  <2>2. /\ busy' = [h \in Http |-> IF h \in S THEN FALSE ELSE busy[h]]
        /\ call' = [d \in Calls |-> IF d \in Web!TabCalls(t) THEN Web!IdleCall ELSE call[d]]
        /\ lost' = lost \cup Web!Granted(Web!TabCalls(t))
    BY <1>4 DEF Web!SignOut
  <2>3. /\ \A d \in Calls : IF HttpOf[d] \in S THEN ~Refreshes(call'[d]) ELSE call'[d] = call[d]
        /\ \A d \in Calls : call'[d].token \in {call[d].token, Web!None}
    BY <2>1, <2>2 DEF Web!IdleCall, Refreshes
  <2>4. \A d \in Calls : HttpOf[d] \in S /\ call[d].pc = "granted" => call[d].token \in lost'
    BY <2>1, <2>2 DEF Web!Granted
  <2>5. S \in SUBSET Http /\ lost \subseteq lost'
    BY <2>2
  <2> HIDE DEF S, t
  <2>6. QED
    BY <1>1, <1>2, <2>2, <2>3, <2>4, <2>5, RefreshesEnd
<1>5. CASE Web!Reject(c) /\ lost' = lost \cup Web!Granted({c})
  <2> DEFINE h == HttpOf[c]
  <2>1. \A d \in Web!CallsOf(h) : Refreshes(call[d]) => d = c
    BY <1>1, <1>2, <1>3 DEF Locked, Web!CallsOf
  <2>2. /\ \A d \in Calls : d = c \/ d \in Web!Waiting(h) => call'[d] = Web!IdleCall
        /\ \A d \in Calls : ~(d = c \/ d \in Web!Waiting(h)) => call'[d] = call[d]
        /\ busy' = [g \in Http |-> IF g \in {h} THEN FALSE ELSE busy[g]]
    BY <1>1, <1>5 DEF Web!Reject, Web!TypeOK
  <2>3. \A d \in Calls : IF HttpOf[d] \in {h} THEN ~Refreshes(call'[d]) ELSE call'[d] = call[d]
    BY <2>1, <2>2 DEF Web!Waiting, Web!CallsOf, Web!IdleCall, Refreshes
  <2>4. \A d \in Calls : call'[d].token \in {call[d].token, Web!None}
    BY <2>2 DEF Web!IdleCall
  <2>5. \A d \in Calls : HttpOf[d] \in {h} /\ call[d].pc = "granted" => call[d].token \in lost'
    BY <1>5, <2>1 DEF Web!CallsOf, Refreshes, Web!Granted
  <2>6. {h} \in SUBSET Http /\ lost \subseteq lost'
    BY <1>2, <1>5
  <2> HIDE DEF h
  <2>7. QED
    BY <1>1, <1>2, <2>2, <2>3, <2>4, <2>5, <2>6, RefreshesEnd
<1>6. QED
  BY <1>4, <1>5 DEF Web!Denied, Web!RefreshFails

LEMMA WebAlways == Web!Spec => []WebInv
<1>1. WebInv /\ [Web!Next]_Web!vars => WebInv'
  <2> SUFFICES ASSUME WebInv, [Web!Next]_Web!vars PROVE WebInv'
    OBVIOUS
  <2>1. CASE UNCHANGED Web!vars
    <3>1. Web!TypeOK' /\ UNCHANGED <<busy, rotatedBy, lost, call, tokens, web, refresh>>
      BY <2>1 DEF Web!vars, WebInv, Web!TypeOK
    <3>2. tokens' >= tokens /\ web' <= tokens'
      BY <3>1, WebRow DEF WebInv, TokensKnown
    <3>3. QED
      BY <3>1, <3>2, CookiesChange
  <2>2. ASSUME NEW c \in Calls, Web!Call(c) \/ Web!Proceed(c)
        PROVE  WebInv'
    BY <2>2, CallsKeep, RefreshBegins, TokenRotates, CookieArrives, RefreshFailed DEF Web!Proceed
  <2>3. QED
    BY <2>1, <2>2, PagesKeep DEF Web!Next
<1>2. QED
  BY <1>1, WebInit, PTL DEF Web!Spec

\* Whatever other tabs, instances and losses do, no refresh is denied because of
\* another one of its own instance (HttpClient.request, isRefreshing).
THEOREM DenialsHaveAReason == Web!Spec => []DeniedForAReason
<1>1. WebInv => DeniedForAReason
  BY DEF WebInv, RefreshesExcused, Excused, LostAfter, DeniedForAReason,
         Web!DeniedForAReason
<1>2. QED
  BY <1>1, WebAlways, PTL

\* The browser, its pages and the calls keep their types.
THEOREM WebTypesCorrect == Web!Spec => []Web!TypeOK
<1>1. WebInv => Web!TypeOK
  BY DEF WebInv
<1>2. QED
  BY <1>1, WebAlways, PTL

-----------------------------------------------------------------------------

\* The run explores these three specifications: each behaviour of it is one of each.
THEOREM RunIsOfThree == MCSpec => Spec /\ Web!Spec /\ Cache!Spec
<1>1. MCInit => Init /\ Web!Init /\ Cache!Init
  BY DEF MCInit
<1>2. [MCNext]_<<part, vars, browsing, caching>> =>
        [Next]_vars /\ [Web!Next]_Web!vars /\ [Cache!Next]_Cache!vars
  <2> SUFFICES ASSUME [MCNext]_<<part, vars, browsing, caching>>
               PROVE  [Next]_vars /\ [Web!Next]_Web!vars /\ [Cache!Next]_Cache!vars
    OBVIOUS
  <2>1. /\ Next \/ UNCHANGED vars
        /\ Web!Next \/ UNCHANGED browsing
        /\ Cache!Next \/ UNCHANGED caching
    BY DEF MCNext
  <2>2. QED
    BY <2>1 DEF browsing, caching, Web!vars, Cache!vars
<1>3. QED
  BY <1>1, <1>2, PTL DEF MCSpec, Spec, Web!Spec, Cache!Spec

=============================================================================
