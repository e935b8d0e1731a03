---------------------------- MODULE OutboxProofs ----------------------------
(***************************************************************************)
(* Proofs about Outbox for any number of events, ticks and crashes.         *)
(*                                                                          *)
(* A claim is identified by its event and the number of attempts it has     *)
(* set.  Attempts only grow, so the claims that ticks hold are distinct and *)
(* at most one of them is current (ClaimsKnown); the current one is never   *)
(* of a completed event.  If handlers end within their lease, a handler     *)
(* runs only under the current claim, and each claim is handled at most     *)
(* once (Leased).  The refinement of OutboxContract follows.                *)
(***************************************************************************)
EXTENDS Outbox, TLAPS

InProgress == {"renew", "run", "done", "error", "fatal"}

\* A tick has a claim exactly while it handles it, and not in its batch.
WellFormed ==
  \A w \in Workers :
    /\ worker[w].pc \in {"idle", "claim"} => worker[w].todo = {}
    /\ worker[w].pc \in InProgress => worker[w].claim \in Claims \ worker[w].todo
    /\ worker[w].pc \notin InProgress => worker[w].claim = NoClaim

\* Held claims are of rows that exist, no newer than the row, and distinct;
\* the holder of the current claim has not completed the event.
ClaimsKnown ==
  /\ \A v, w \in Workers : v # w => Held(v) \cap Held(w) = {}
  /\ \A w \in Workers : \A c \in Held(w) :
       /\ c.attempts <= row[c.event].attempts
       /\ row[c.event].status # "absent"
       /\ c.attempts = row[c.event].attempts => row[c.event].status # "completed"

\* The claims of a tick whose side effect has not been performed.
Unhandled(w) ==
  worker[w].todo \cup (IF worker[w].pc \in {"renew", "run"} THEN {worker[w].claim} ELSE {})

\* A running handler has its lease.
RunsLeased ==
  \A w \in Workers : worker[w].pc = "run" =>
    Owns(worker[w].claim) /\ ~row[worker[w].claim.event].expired

\* No claim has been handled twice.
CallsBounded ==
  /\ \A e \in Events : calls[e] <= row[e].attempts
  /\ \A w \in Workers : \A c \in Unhandled(w) :
       c.attempts = row[c.event].attempts => calls[c.event] < c.attempts

Leased == RunsLeased /\ CallsBounded

\* A handler that has returned has performed its side effect.
DoneWasCalled == \A w \in Workers : worker[w].pc = "done" => calls[worker[w].claim.event] > 0

Inv ==
  /\ TypeOK /\ WellFormed /\ ClaimsKnown /\ DoneWasCalled
  /\ ~SlowHandlers => Leased

-----------------------------------------------------------------------------
(* Types *)

\* The end of a tick, and that the lack of a claim is no claim.
LEMMA Shapes ==
  /\ Idle.pc = "idle" /\ Idle.todo = {} /\ Idle.claim = NoClaim
  /\ NoClaim \notin Claims
BY OutboxAssumption DEF Idle, NoClaim, Claims

\* A row that is written keeps its attempts.
LEMMA RowWrites ==
  ASSUME TypeOK, NEW e \in Events,
         NEW s \in {"pending", "processing", "completed", "failed"}
  PROVE  LET r == WithStatus(row[e], s) IN
         /\ r \in [status : {"absent", "pending", "processing", "completed", "failed"},
                   attempts : 0..MAX_ATTEMPTS, expired : BOOLEAN]
         /\ r.status = s /\ r.attempts = row[e].attempts /\ r.expired = FALSE
BY DEF TypeOK, WithStatus, Renewed

\* The end of an event leaves the tick with its batch and without a claim.
LEMMA Advances ==
  ASSUME TypeOK, NEW w \in Workers, Advance(w)
  PROVE  /\ worker'[w].todo = worker[w].todo /\ worker'[w].claim = NoClaim
         /\ worker'[w].pc = IF worker[w].todo = {} THEN "idle" ELSE "next"
         /\ \A v \in Workers \ {w} : worker'[v] = worker[v]
         /\ worker' = [worker EXCEPT ![w] = worker'[w]]
BY DEF TypeOK, Advance, Idle

\* Counting one more call keeps the type of the counters.
LEMMA Counts ==
  ASSUME NEW e \in Events, calls \in [Events -> Nat],
         calls' = [calls EXCEPT ![e] = @ + 1]
  PROVE  calls' \in [Events -> Nat]
OBVIOUS

LEMMA InitInv == Init => Inv
<1> SUFFICES ASSUME Init
             PROVE  Inv
  OBVIOUS
<1>1. \A w \in Workers : worker[w].pc = "idle" /\ worker[w].todo = {} /\ worker[w].claim = NoClaim
  BY Shapes DEF Init
<1>2. TypeOK
  BY OutboxAssumption DEF Init, TypeOK, Absent, Idle, NoClaim
<1>3. \A w \in Workers : Held(w) = {} /\ Unhandled(w) = {}
  BY <1>1 DEF Held, Unhandled
<1>4. Leased
  BY <1>1, <1>3 DEF Init, Leased, RunsLeased, CallsBounded, Absent
<1>5. QED
  BY <1>1, <1>2, <1>3, <1>4 DEF Inv, WellFormed, ClaimsKnown, DoneWasCalled, InProgress

LEMMA NextTypeOK == Inv /\ [Next]_vars => TypeOK'
<1> SUFFICES ASSUME Inv, [Next]_vars
             PROVE  TypeOK'
  OBVIOUS
<1> USE OutboxAssumption
<1> DEFINE Rows == [status : {"absent", "pending", "processing", "completed", "failed"},
                    attempts : 0..MAX_ATTEMPTS, expired : BOOLEAN]
           Ticks == [pc : {"idle", "claim"} \cup {"next"} \cup InProgress,
                     todo : SUBSET Claims, claim : Claims \cup {NoClaim}]
<1>0. /\ TypeOK /\ WellFormed
      /\ row \in [Events -> Rows] /\ worker \in [Workers -> Ticks]
      /\ calls \in [Events -> Nat] /\ crashes \in 0..MaxCrashes
  BY DEF Inv, TypeOK, InProgress
<1> SUFFICES /\ row' \in [Events -> Rows] /\ worker' \in [Workers -> Ticks]
             /\ calls' \in [Events -> Nat] /\ crashes' \in 0..MaxCrashes
  BY DEF TypeOK, InProgress
<1>a. Idle \in Ticks
  BY DEF Idle
<1>b. \A w \in Workers : worker[w].pc \in InProgress =>
        worker[w].claim \in Claims /\ worker[w].claim.event \in Events
  BY <1>0 DEF WellFormed, Claims
<1>c. ASSUME NEW w \in Workers, Advance(w)
      PROVE  worker' \in [Workers -> Ticks]
  BY <1>0, <1>a, <1>c DEF Advance
<1>d. ASSUME NEW w \in Workers, NEW pc \in {"idle", "claim"} \cup {"next"} \cup InProgress, Goto(w, pc)
      PROVE  worker' \in [Workers -> Ticks]
  BY <1>0, <1>d DEF Goto
<1>e. \A e \in Events, s \in {"pending", "processing", "completed", "failed"} :
        WithStatus(row[e], s) \in Rows /\ [row EXCEPT ![e] = WithStatus(@, s)] \in [Events -> Rows]
  BY <1>0, RowWrites
<1>1. CASE UNCHANGED vars
  BY <1>1, <1>0 DEF vars
<1>2. ASSUME NEW e \in Events, Insert(e)
      PROVE  TypeOK'
  BY <1>2, <1>0 DEF Insert, TypeOK, InProgress
<1>3. ASSUME NEW e \in Events, LeaseExpires(e)
      PROVE  TypeOK'
  BY <1>3, <1>0 DEF LeaseExpires, TypeOK, InProgress
<1>4. ASSUME NEW w \in Workers, Recover(w)
      PROVE  TypeOK'
  <2>1. \A e \in Events : Recovered(row[e]) \in Rows
    BY <1>e DEF Recovered
  <2>2. row' \in [Events -> Rows]
    BY <2>1, <1>0, <1>4 DEF Recover
  <2>3. worker' \in [Workers -> Ticks]
    BY <1>4, <1>d DEF Recover
  <2>4. QED
    BY <2>2, <2>3, <1>0, <1>4 DEF Recover, TypeOK, InProgress
<1>5. ASSUME NEW w \in Workers, Claim(w)
      PROVE  TypeOK'
  <2>1. \A e \in Batch : /\ e \in Events /\ row[e].attempts < MAX_ATTEMPTS
                         /\ Claimed(row[e]) \in Rows
                         /\ Claimed(row[e]).attempts = row[e].attempts + 1
    <3> SUFFICES ASSUME NEW e \in Batch
                 PROVE  /\ e \in Events /\ row[e].attempts < MAX_ATTEMPTS
                        /\ Claimed(row[e]) \in Rows
                        /\ Claimed(row[e]).attempts = row[e].attempts + 1
      OBVIOUS
    <3>1. e \in Events /\ row[e].attempts < MAX_ATTEMPTS
      BY DEF Batch, Claimable
    <3>2. row[e] \in Rows /\ row[e].attempts + 1 \in 0..MAX_ATTEMPTS
      BY <3>1, <1>0
    <3>3. WithStatus(row[e], "processing") \in Rows
          /\ WithStatus(row[e], "processing").attempts = row[e].attempts
      BY <3>1, <1>0, RowWrites
    <3>4. QED
      BY <3>1, <3>2, <3>3 DEF Claimed
  <2>2. row' \in [Events -> Rows]
    BY <2>1, <1>0, <1>5 DEF Claim
  <2>3. {[event |-> e, attempts |-> Claimed(row[e]).attempts] : e \in Batch} \in SUBSET Claims
    <3> SUFFICES ASSUME NEW e \in Batch
                 PROVE  [event |-> e, attempts |-> Claimed(row[e]).attempts] \in Claims
      OBVIOUS
    <3>1. /\ e \in Events /\ Claimed(row[e]).attempts = row[e].attempts + 1
          /\ row[e].attempts < MAX_ATTEMPTS
      BY <2>1
    <3>2. row[e] \in Rows
      BY <3>1, <1>0
    <3>3. row[e].attempts + 1 \in 1..MAX_ATTEMPTS
      BY <3>1, <3>2
    <3>4. QED
      BY <3>1, <3>3 DEF Claims
  <2>4. worker' \in [Workers -> Ticks]
    BY <2>3, <1>a, <1>0, <1>5 DEF Claim
  <2>5. QED
    BY <2>2, <2>4, <1>0, <1>5 DEF Claim, TypeOK, InProgress
<1>6. ASSUME NEW w \in Workers, NEW c \in Claims, Take(w, c)
      PROVE  TypeOK'
  <2>1. worker' \in [Workers -> Ticks]
    BY <1>6, <1>0 DEF Take, InProgress
  <2>2. QED
    BY <2>1, <1>0, <1>6 DEF Take, TypeOK, InProgress
<1>7. ASSUME NEW w \in Workers, Renew(w)
      PROVE  TypeOK'
  <2>1. worker' \in [Workers -> Ticks]
    BY <1>7, <1>c, <1>d DEF Renew, InProgress
  <2>2. worker[w].claim.event \in Events
    <3>1. worker[w].pc \in InProgress
      BY <1>7 DEF Renew, InProgress
    <3>2. QED
      BY <3>1, <1>b
  <2>3. Renewed(row[worker[w].claim.event]) \in Rows
    BY <2>2, <1>0 DEF Renewed
  <2>4. row' \in [Events -> Rows]
    BY <1>7, <1>0, <2>3 DEF Renew
  <2>5. QED
    BY <2>1, <2>4, <1>0, <1>7 DEF Renew, TypeOK, InProgress
<1>8. ASSUME NEW w \in Workers, NEW outcome \in {"done", "error", "fatal"}, Handle(w, outcome)
      PROVE  TypeOK'
  <2>1. worker' \in [Workers -> Ticks]
    BY <1>8, <1>d DEF Handle, InProgress
  <2>2. calls' \in [Events -> Nat]
    <3>1. worker[w].pc \in InProgress
      BY <1>8 DEF Handle, InProgress
    <3>2. worker[w].claim.event \in Events
      BY <3>1, <1>b
    <3>3. calls \in [Events -> Nat] /\ calls' = [calls EXCEPT ![worker[w].claim.event] = @ + 1]
      BY <1>8, <1>0 DEF Handle
    <3>4. QED
      BY <3>2, <3>3, Counts
  <2>3. QED
    BY <2>1, <2>2, <1>0, <1>8 DEF Handle, TypeOK, InProgress
<1>9. ASSUME NEW w \in Workers, HandleFails(w) \/ CompleteFails(w)
      PROVE  TypeOK'
  <2>1. worker' \in [Workers -> Ticks]
    BY <1>9, <1>d DEF HandleFails, CompleteFails, InProgress
  <2>2. QED
    BY <2>1, <1>0, <1>9 DEF HandleFails, CompleteFails, TypeOK, InProgress
<1>10. ASSUME NEW w \in Workers, Complete(w) \/ Fail(w)
       PROVE  TypeOK'
  <2>1. worker' \in [Workers -> Ticks]
    BY <1>10, <1>c DEF Complete, Fail
  <2>2. worker[w].claim.event \in Events
    BY <1>10, <1>b DEF Complete, Fail, InProgress
  <2>3. row' \in [Events -> Rows]
    BY <1>10, <1>e, <1>0, <2>2 DEF Complete, Fail
  <2>4. QED
    BY <2>1, <2>3, <1>0, <1>10 DEF Complete, Fail, TypeOK, InProgress
<1>11. ASSUME NEW w \in Workers, Crash(w)
       PROVE  TypeOK'
  BY <1>11, <1>0, <1>a DEF Crash, TypeOK, InProgress
<1>12. QED
  BY <1>1, <1>2, <1>3, <1>4, <1>5, <1>6, <1>7, <1>8, <1>9, <1>10, <1>11
     DEF Next, Process, TypeOK, InProgress
-----------------------------------------------------------------------------
(* Ticks *)

\* What a claim holds, in the shapes a tick can have.
LEMMA ClaimEquality ==
  ASSUME NEW c \in Claims, NEW d \in Claims, c.event = d.event, c.attempts = d.attempts
  PROVE  c = d
BY DEF Claims

\* The claim of a tick at work is held, and its event is an event.
LEMMA InHand ==
  ASSUME TypeOK, WellFormed, NEW w \in Workers, worker[w].pc \in InProgress
  PROVE  /\ worker[w].claim \in Claims /\ worker[w].claim \in Held(w)
         /\ worker[w].claim \notin worker[w].todo
         /\ worker[w].claim.event \in Events
         /\ worker[w].claim.attempts \in 1..MAX_ATTEMPTS
BY Shapes DEF TypeOK, WellFormed, Held, Claims

\* Held claims are claims.
LEMMA HeldAreClaims ==
  ASSUME TypeOK, NEW w \in Workers, NEW c \in Held(w)
  PROVE  c \in Claims /\ c.event \in Events /\ c.attempts \in 1..MAX_ATTEMPTS
<1>1. c \in Claims
  BY DEF TypeOK, Held
<1>2. QED
  BY <1>1 DEF Claims

LEMMA NextWellFormed == Inv /\ [Next]_vars => WellFormed'
<1> SUFFICES ASSUME Inv, [Next]_vars
             PROVE  WellFormed'
  OBVIOUS
<1>0. TypeOK /\ WellFormed
  BY DEF Inv
<1>1. ASSUME UNCHANGED worker
      PROVE  WellFormed'
  BY <1>0, <1>1 DEF WellFormed
<1>2. ASSUME NEW w \in Workers, Advance(w), worker[w].pc \in InProgress
      PROVE  WellFormed'
  BY <1>0, <1>2, Advances DEF WellFormed, InProgress
<1>3. ASSUME NEW w \in Workers, NEW pc \in InProgress, Goto(w, pc), worker[w].pc \in InProgress
      PROVE  WellFormed'
  BY <1>0, <1>3 DEF WellFormed, InProgress, Goto, TypeOK
<1>4. ASSUME NEW w \in Workers, Recover(w)
      PROVE  WellFormed'
  BY <1>0, <1>4 DEF WellFormed, InProgress, Goto, TypeOK, Recover
<1>5. ASSUME NEW w \in Workers, Claim(w)
      PROVE  WellFormed'
  BY <1>0, <1>5, Shapes DEF WellFormed, InProgress, TypeOK, Claim
<1>6. ASSUME NEW w \in Workers, NEW c \in Claims, Take(w, c)
      PROVE  WellFormed'
  BY <1>0, <1>6 DEF WellFormed, InProgress, TypeOK, Take
<1>7. ASSUME NEW w \in Workers, Crash(w)
      PROVE  WellFormed'
  BY <1>0, <1>7, Shapes DEF WellFormed, InProgress, TypeOK, Crash
<1>8. ASSUME NEW w \in Workers, Renew(w)
      PROVE  WellFormed'
  BY <1>8, <1>2, <1>3 DEF Renew, InProgress
<1>9. ASSUME NEW w \in Workers, NEW outcome \in {"done", "error", "fatal"}, Handle(w, outcome)
      PROVE  WellFormed'
  BY <1>9, <1>3 DEF Handle, InProgress
<1>10. ASSUME NEW w \in Workers, HandleFails(w) \/ CompleteFails(w)
       PROVE  WellFormed'
  BY <1>10, <1>3 DEF HandleFails, CompleteFails, InProgress
<1>11. ASSUME NEW w \in Workers, Complete(w) \/ Fail(w)
       PROVE  WellFormed'
  BY <1>11, <1>2 DEF Complete, Fail, InProgress
<1>12. QED
  BY <1>1, <1>4, <1>5, <1>6, <1>7, <1>8, <1>9, <1>10, <1>11
     DEF Next, Process, Insert, LeaseExpires, vars

\* Only the claim statement gives a tick a claim, and only a claim or the
\* renewal puts an event before its side effect.
LEMMA OnlyClaimsAdd ==
  ASSUME TypeOK, WellFormed, NEW w \in Workers, Recover(w) \/ Process(w) \/ Crash(w)
  PROVE  \A v \in Workers : Held(v)' \subseteq Held(v) /\ Unhandled(v)' \subseteq Unhandled(v)
<1> DEFINE Shrinks == \A v \in Workers : /\ Held(v)' \subseteq Held(v)
                                         /\ Unhandled(v)' \subseteq Unhandled(v)
<1> SUFFICES Shrinks
  OBVIOUS
<1>1. ASSUME Advance(w)
      PROVE  Shrinks
  BY <1>1, Advances DEF Held, Unhandled
<1>2. ASSUME NEW pc \in {"claim", "run", "done", "error", "fatal"}, Goto(w, pc),
             pc = "run" => worker[w].pc = "renew"
      PROVE  Shrinks
  BY <1>2 DEF Goto, TypeOK, Held, Unhandled
<1>3. ASSUME NEW c \in Claims, Take(w, c)
      PROVE  Shrinks
  <2>1. /\ worker'[w].todo = worker[w].todo \ {c} /\ worker'[w].claim = c
        /\ worker'[w].pc = "renew" /\ c \in worker[w].todo
        /\ \A v \in Workers \ {w} : worker'[v] = worker[v]
    BY <1>3 DEF Take, TypeOK
  <2>2. QED
    BY <2>1 DEF Held, Unhandled
<1>4. ASSUME Crash(w)
      PROVE  Shrinks
  BY <1>4, Shapes DEF Crash, TypeOK, Held, Unhandled
<1>5. QED
  BY <1>1, <1>2, <1>3, <1>4
     DEF Recover, Process, Renew, Handle, HandleFails, Complete, CompleteFails, Fail
-----------------------------------------------------------------------------
(* Rows *)

\* What every statement but the claim and the completion leaves as it was.
Quiet ==
  \A e \in Events :
    /\ row'[e].attempts = row[e].attempts
    /\ row[e].status # "absent" => row'[e].status # "absent"
    /\ row'[e].status = "completed" => row[e].status = "completed"

\* The row of one event is written with a new status, or none is.
LEMMA OneRowWritten ==
  ASSUME TypeOK, NEW e \in Events, NEW s \in {"pending", "processing", "completed", "failed"},
         \/ row' = row
         \/ row' = [row EXCEPT ![e] = WithStatus(@, s)]
  PROVE  /\ \A f \in Events \ {e} : row'[f] = row[f]
         /\ row'[e].attempts = row[e].attempts
         /\ row'[e] = row[e] \/ (row'[e].status = s /\ ~row'[e].expired)
<1>1. row \in [Events -> [status : {"absent", "pending", "processing", "completed", "failed"},
                         attempts : 0..MAX_ATTEMPTS, expired : BOOLEAN]]
  BY DEF TypeOK
<1>2. CASE row' = row
  BY <1>2
<1>3. CASE row' = [row EXCEPT ![e] = WithStatus(@, s)]
  BY <1>1, <1>3, RowWrites
<1>4. QED
  BY <1>2, <1>3

\* The renewal leaves the status as well.
LEMMA RowRenewed ==
  ASSUME TypeOK, NEW e \in Events, row' = [row EXCEPT ![e] = Renewed(@)]
  PROVE  /\ \A f \in Events \ {e} : row'[f] = row[f]
         /\ row'[e].attempts = row[e].attempts
         /\ row'[e].status = row[e].status /\ ~row'[e].expired
BY DEF TypeOK, Renewed

\* The recovery writes the rows with an expired lease.
LEMMA RowsRecovered ==
  ASSUME TypeOK, NEW w \in Workers, Recover(w), NEW e \in Events
  PROVE  /\ row'[e].attempts = row[e].attempts
         /\ ~(row[e].status = "processing" /\ row[e].expired) => row'[e] = row[e]
         /\ row[e].status = "processing" /\ row[e].expired =>
              row'[e].status = IF row[e].attempts < MAX_ATTEMPTS THEN "pending" ELSE "failed"
BY RowWrites DEF Recover, Recovered

\* The claim increments the attempts of the rows of its batch.
LEMMA RowsClaimed ==
  ASSUME TypeOK, NEW w \in Workers, Claim(w), NEW e \in Events
  PROVE  /\ e \notin Batch => row'[e] = row[e]
         /\ e \in Batch => /\ row[e].status = "pending"
                           /\ row'[e].status = "processing"
                           /\ row'[e].attempts = row[e].attempts + 1
                           /\ Claimed(row[e]).attempts = row[e].attempts + 1
                           /\ ~row'[e].expired
<1>1. CASE e \notin Batch
  BY <1>1 DEF Claim
<1>2. CASE e \in Batch
  <2>1. row'[e] = Claimed(row[e])
    BY <1>2 DEF Claim
  <2>2. WithStatus(row[e], "processing")
          \in [status : {"absent", "pending", "processing", "completed", "failed"},
              attempts : 0..MAX_ATTEMPTS, expired : BOOLEAN]
        /\ WithStatus(row[e], "processing").status = "processing"
        /\ WithStatus(row[e], "processing").attempts = row[e].attempts
        /\ WithStatus(row[e], "processing").expired = FALSE
    BY RowWrites
  <2>3. row[e].status = "pending"
    BY <1>2 DEF Batch, Claimable
  <2>4. QED
    BY <1>2, <2>1, <2>2, <2>3 DEF Claimed
<1>3. QED
  BY <1>1, <1>2

\* The attempts of a row are a number.
LEMMA RowAttempts ==
  ASSUME TypeOK
  PROVE  \A e \in Events : row[e].attempts \in Nat
<1>1. \A e \in Events : row[e].attempts \in 0..MAX_ATTEMPTS
  BY DEF TypeOK
<1>2. 0..MAX_ATTEMPTS \subseteq Nat
  OBVIOUS
<1>3. QED
  BY <1>1, <1>2

\* Which steps are quiet.
LEMMA QuietSteps ==
  ASSUME TypeOK, WellFormed, NEW w \in Workers,
         \/ UNCHANGED row
         \/ \E e \in Events : Insert(e) \/ LeaseExpires(e)
         \/ Recover(w) \/ Renew(w) \/ Fail(w)
  PROVE  Quiet
<1>1. CASE UNCHANGED row
  BY <1>1 DEF Quiet
<1>2. ASSUME NEW e \in Events, Insert(e)
      PROVE  Quiet
  BY <1>2 DEF Quiet, Insert, TypeOK
<1>3. ASSUME NEW e \in Events, LeaseExpires(e)
      PROVE  Quiet
  BY <1>3 DEF Quiet, LeaseExpires, TypeOK
<1>4. CASE Recover(w)
  BY <1>4, RowsRecovered DEF Quiet
<1>5. CASE Renew(w)
  <2>1. worker[w].claim.event \in Events
    BY <1>5, InHand DEF Renew, InProgress
  <2>2. CASE UNCHANGED row
    BY <2>2 DEF Quiet
  <2>3. CASE row' = [row EXCEPT ![worker[w].claim.event] = Renewed(@)]
    BY <2>1, <2>3, RowRenewed DEF Quiet
  <2>4. QED
    BY <1>5, <2>2, <2>3 DEF Renew
<1>6. CASE Fail(w)
  <2>1. worker[w].claim.event \in Events
    BY <1>6, InHand DEF Fail, InProgress
  <2>2. PICK s \in {"pending", "failed"} :
           row' = row \/ row' = [row EXCEPT ![worker[w].claim.event] = WithStatus(@, s)]
    BY <1>6 DEF Fail
  <2>3. QED
    BY <2>1, <2>2, OneRowWritten DEF Quiet
<1>7. QED
  BY <1>1, <1>2, <1>3, <1>4, <1>5, <1>6

LEMMA NextClaimsKnown == Inv /\ [Next]_vars => ClaimsKnown'
<1> SUFFICES ASSUME Inv, [Next]_vars
             PROVE  ClaimsKnown'
  OBVIOUS
<1>0. TypeOK /\ WellFormed /\ ClaimsKnown
  BY DEF Inv
<1>q. ASSUME Quiet, \A v \in Workers : Held(v)' \subseteq Held(v)
      PROVE  ClaimsKnown'
  <2>1. \A v \in Workers : \A c \in Held(v)' :
          /\ c.attempts <= row'[c.event].attempts
          /\ row'[c.event].status # "absent"
          /\ c.attempts = row'[c.event].attempts => row'[c.event].status # "completed"
    BY <1>0, <1>q, HeldAreClaims DEF Quiet, ClaimsKnown
  <2>2. QED
    BY <1>0, <1>q, <2>1 DEF ClaimsKnown
<1>1. CASE UNCHANGED vars
  <2>1. \A v \in Workers : Held(v)' \subseteq Held(v)
    BY <1>1 DEF vars, Held
  <2>2. Quiet
    BY <1>1 DEF vars, Quiet
  <2>3. QED
    BY <1>q, <2>1, <2>2
<1>2. ASSUME NEW e \in Events, Insert(e) \/ LeaseExpires(e)
      PROVE  ClaimsKnown'
  <2>1. \A v \in Workers : Held(v)' \subseteq Held(v)
    BY <1>2 DEF Insert, LeaseExpires, Held
  <2>2. Quiet
    <3>1. CASE Insert(e)
      BY <3>1, <1>0 DEF Quiet, Insert, TypeOK
    <3>2. CASE LeaseExpires(e)
      BY <3>2, <1>0 DEF Quiet, LeaseExpires, TypeOK
    <3>3. QED
      BY <1>2, <3>1, <3>2
  <2>3. QED
    BY <1>q, <2>1, <2>2
<1>3. ASSUME NEW w \in Workers, Recover(w) \/ Process(w) \/ Crash(w), ~Complete(w)
      PROVE  ClaimsKnown'
  <2>1. \A v \in Workers : Held(v)' \subseteq Held(v)
    BY <1>0, <1>3, OnlyClaimsAdd
  <2>2. Quiet
    <3>1. UNCHANGED row \/ Recover(w) \/ Renew(w) \/ Fail(w)
      BY <1>3 DEF Process, Take, Handle, HandleFails, CompleteFails, Crash
    <3>2. QED
      BY <1>0, <3>1, QuietSteps
  <2>3. QED
    BY <1>q, <2>1, <2>2
<1>4. ASSUME NEW w \in Workers, Complete(w)
      PROVE  ClaimsKnown'
  <2> DEFINE c == worker[w].claim
  <2>1. \A v \in Workers : Held(v)' \subseteq Held(v)
    BY <1>0, <1>4, OnlyClaimsAdd DEF Process
  <2>2. c \in Claims /\ c \in Held(w) /\ c \notin worker[w].todo /\ c.event \in Events
    BY <1>0, <1>4, InHand DEF Complete, InProgress
  <2>3. c \notin Held(w)'
    BY <1>0, <1>4, <2>2, Advances, Shapes DEF Complete, Held
  <2>4. \A v \in Workers : c \notin Held(v)'
    BY <1>0, <2>1, <2>2, <2>3 DEF ClaimsKnown
  <2>5. CASE UNCHANGED row
    <3>1. Quiet
      BY <2>5 DEF Quiet
    <3>2. QED
      BY <1>q, <2>1, <3>1
  <2>6. CASE SameAttempts(c) /\ row' = [row EXCEPT ![c.event] = WithStatus(@, "completed")]
    <3> HIDE DEF c
    <3>1. /\ \A f \in Events \ {c.event} : row'[f] = row[f]
          /\ row'[c.event].attempts = row[c.event].attempts
          /\ row'[c.event] = row[c.event] \/ row'[c.event].status = "completed"
      BY <1>0, <2>2, <2>6, OneRowWritten
    <3>2. ASSUME NEW v \in Workers, NEW d \in Held(v)'
          PROVE  /\ d.attempts <= row'[d.event].attempts
                 /\ row'[d.event].status # "absent"
                 /\ d.attempts = row'[d.event].attempts => row'[d.event].status # "completed"
      <4>1. d \in Held(v) /\ d \in Claims /\ d.event \in Events /\ d # c
        BY <1>0, <2>1, <2>4, <3>2, HeldAreClaims
      <4>2. /\ d.attempts <= row[d.event].attempts
            /\ row[d.event].status # "absent"
            /\ d.attempts = row[d.event].attempts => row[d.event].status # "completed"
        BY <1>0, <4>1 DEF ClaimsKnown
      <4>3. CASE d.event # c.event
        BY <3>1, <4>1, <4>2, <4>3
      <4>4. CASE d.event = c.event
        <5>1. d.attempts # c.attempts
          BY <2>2, <4>1, <4>4, ClaimEquality
        <5>2. c.attempts = row[c.event].attempts
          BY <2>6 DEF SameAttempts
        <5>3. d.attempts # row'[d.event].attempts
          BY <3>1, <4>4, <5>1, <5>2
        <5>4. QED
          BY <3>1, <4>2, <4>4, <5>3
      <4>5. QED
        BY <4>3, <4>4
    <3>3. QED
      BY <1>0, <2>1, <3>2 DEF ClaimsKnown
  <2>7. QED
    BY <1>4, <2>5, <2>6 DEF Complete
<1>5. ASSUME NEW w \in Workers, Claim(w)
      PROVE  ClaimsKnown'
  <2> DEFINE Fresh == {[event |-> e, attempts |-> Claimed(row[e]).attempts] : e \in Batch}
  <2>1. Held(w) = {}
    BY <1>0, <1>5 DEF Claim, Held, WellFormed, InProgress
  <2>2. Held(w)' \subseteq Fresh /\ \A v \in Workers \ {w} : Held(v)' = Held(v)
    BY <1>0, <1>5, Shapes DEF Claim, Held, TypeOK
  <2>3. ASSUME NEW d \in Fresh
        PROVE  /\ d.event \in Batch /\ d.event \in Events
               /\ d.attempts = row[d.event].attempts + 1
               /\ d.attempts = row'[d.event].attempts
               /\ row'[d.event].status = "processing"
    <3>1. d.event \in Batch /\ d.event \in Events /\ d.attempts = Claimed(row[d.event]).attempts
      <4>1. PICK e \in Batch : d = [event |-> e, attempts |-> Claimed(row[e]).attempts]
        BY <2>3
      <4>2. e \in Events
        BY DEF Batch, Claimable
      <4>3. QED
        BY <4>1, <4>2
    <3>2. QED
      BY <1>0, <1>5, <3>1, RowsClaimed
  <2>4. ASSUME NEW v \in Workers, NEW d \in Held(v)
        PROVE  /\ d \notin Fresh
               /\ d.attempts <= row'[d.event].attempts
               /\ row'[d.event].status # "absent"
               /\ d.attempts = row'[d.event].attempts => row'[d.event].status # "completed"
    <3>1. d.event \in Events /\ d.attempts \in Nat /\ row[d.event].attempts \in Nat
      <4>1. d.event \in Events /\ d.attempts \in Nat
        BY <1>0, <2>4, HeldAreClaims, OutboxAssumption
      <4>2. QED
        BY <1>0, <4>1, RowAttempts
    <3>2. /\ d.attempts <= row[d.event].attempts /\ row[d.event].status # "absent"
          /\ d.attempts = row[d.event].attempts => row[d.event].status # "completed"
      BY <1>0, <2>4 DEF ClaimsKnown
    <3>3. d \notin Fresh
      BY <2>3, <3>1, <3>2
    <3>4. QED
      BY <1>0, <1>5, <3>1, <3>2, <3>3, RowsClaimed
  <2>5. ASSUME NEW v \in Workers, NEW d \in Held(v)'
        PROVE  /\ d.attempts <= row'[d.event].attempts
               /\ row'[d.event].status # "absent"
               /\ d.attempts = row'[d.event].attempts => row'[d.event].status # "completed"
    <3> HIDE DEF Fresh
    <3>1. CASE v = w
      <4>1. d \in Fresh
        BY <2>2, <2>5, <3>1
      <4>2. d.event \in Events /\ row'[d.event].attempts = row[d.event].attempts + 1
            /\ row[d.event].attempts \in Nat
        BY <1>0, <2>3, <4>1, OutboxAssumption DEF TypeOK
      <4>3. QED
        BY <2>3, <4>1, <4>2
    <3>2. CASE v # w
      BY <2>2, <2>4, <2>5, <3>2
    <3>3. QED
      BY <3>1, <3>2
  <2>6. \A u, v \in Workers : u # v => Held(u)' \cap Held(v)' = {}
    <3> HIDE DEF Fresh
    <3>1. QED
      BY <1>0, <2>2, <2>4 DEF ClaimsKnown
  <2>7. QED
    BY <2>5, <2>6 DEF ClaimsKnown
<1>6. QED
  BY <1>1, <1>2, <1>3, <1>4, <1>5 DEF Next, Process
-----------------------------------------------------------------------------
(* Side effects *)

\* The counters only grow, and only for the event a tick handles.
LEMMA HandleCounts ==
  ASSUME TypeOK, WellFormed, NEW w \in Workers, NEW outcome \in {"done", "error", "fatal"},
         Handle(w, outcome)
  PROVE  /\ worker[w].claim.event \in Events
         /\ calls'[worker[w].claim.event] > 0
         /\ \A e \in Events : /\ calls[e] \in Nat /\ calls'[e] \in Nat
                              /\ calls'[e] = IF e = worker[w].claim.event
                                             THEN calls[e] + 1 ELSE calls[e]
                              /\ calls[e] > 0 => calls'[e] > 0
<1>1. worker[w].claim.event \in Events
  BY InHand DEF Handle, InProgress
<1>2. calls \in [Events -> Nat] /\ calls' = [calls EXCEPT ![worker[w].claim.event] = @ + 1]
  BY DEF Handle, TypeOK
<1>3. \A e \in Events : /\ calls[e] \in Nat
                        /\ calls'[e] = IF e = worker[w].claim.event
                                       THEN calls[e] + 1 ELSE calls[e]
  BY <1>1, <1>2
<1>4. PICK e \in Events : e = worker[w].claim.event
  BY <1>1
<1>5. calls'[e] > 0
  BY <1>3, <1>4
<1>6. calls'[worker[w].claim.event] > 0
  BY <1>4, <1>5
<1>7. ASSUME NEW f \in Events
      PROVE  calls'[f] \in Nat /\ (calls[f] > 0 => calls'[f] > 0)
  BY <1>3
<1>8. QED
  BY <1>1, <1>3, <1>6, <1>7

LEMMA NextDoneWasCalled == Inv /\ [Next]_vars => DoneWasCalled'
<1> SUFFICES ASSUME Inv, [Next]_vars
             PROVE  DoneWasCalled'
  OBVIOUS
<1>0. TypeOK /\ WellFormed /\ DoneWasCalled
  BY DEF Inv
<1>1. ASSUME UNCHANGED calls, NEW w \in Workers, worker'[w].pc # "done",
             \A v \in Workers \ {w} : worker'[v] = worker[v]
      PROVE  DoneWasCalled'
  BY <1>0, <1>1 DEF DoneWasCalled
<1>2. ASSUME UNCHANGED <<worker, calls>>
      PROVE  DoneWasCalled'
  BY <1>0, <1>2 DEF DoneWasCalled
<1>3. ASSUME NEW w \in Workers, NEW outcome \in {"done", "error", "fatal"}, Handle(w, outcome)
      PROVE  DoneWasCalled'
  <2> SUFFICES ASSUME NEW v \in Workers, worker'[v].pc = "done"
               PROVE  calls'[worker'[v].claim.event] > 0
    BY DEF DoneWasCalled
  <2>1. worker'[v].claim = worker[v].claim /\ (v # w => worker'[v] = worker[v])
    BY <1>0, <1>3 DEF Handle, Goto, TypeOK
  <2>2. CASE v = w
    BY <1>0, <1>3, <2>1, <2>2, HandleCounts
  <2>3. CASE v # w
    <3>1. worker[v].claim.event \in Events /\ calls[worker[v].claim.event] > 0
      BY <1>0, <2>1, <2>3, InHand DEF DoneWasCalled, InProgress
    <3>2. PICK e \in Events : e = worker[v].claim.event
      BY <3>1
    <3>3. calls[e] > 0
      BY <3>1, <3>2
    <3>x. \A f \in Events : calls[f] > 0 => calls'[f] > 0
      BY <1>0, <1>3, HandleCounts
    <3>4. QED
      BY <2>1, <3>2, <3>3, <3>x
  <2>4. QED
    BY <2>2, <2>3
<1>4. ASSUME NEW w \in Workers, Advance(w), UNCHANGED calls
      PROVE  DoneWasCalled'
  BY <1>0, <1>1, <1>4, Advances
<1>5. ASSUME NEW w \in Workers, NEW pc \in {"claim", "run", "error"}, Goto(w, pc), UNCHANGED calls
      PROVE  DoneWasCalled'
  BY <1>0, <1>1, <1>5 DEF Goto, TypeOK
<1>6. ASSUME NEW w \in Workers, Recover(w) \/ Renew(w) \/ HandleFails(w) \/ CompleteFails(w)
                                \/ Complete(w) \/ Fail(w)
      PROVE  DoneWasCalled'
  BY <1>4, <1>5, <1>6 DEF Recover, Renew, HandleFails, CompleteFails, Complete, Fail
<1>7. ASSUME NEW w \in Workers, Claim(w) \/ Crash(w)
      PROVE  DoneWasCalled'
  <2>1. /\ UNCHANGED calls /\ worker'[w].pc # "done"
        /\ \A v \in Workers \ {w} : worker'[v] = worker[v]
    BY <1>0, <1>7 DEF Claim, Crash, TypeOK, Idle
  <2>2. QED
    BY <1>1, <2>1
<1>8. ASSUME NEW w \in Workers, NEW c \in Claims, Take(w, c)
      PROVE  DoneWasCalled'
  <2>1. /\ UNCHANGED calls /\ worker'[w].pc # "done"
        /\ \A v \in Workers \ {w} : worker'[v] = worker[v]
    BY <1>0, <1>8 DEF Take, TypeOK
  <2>2. QED
    BY <1>1, <2>1
<1>9. QED
  BY <1>2, <1>3, <1>6, <1>7, <1>8 DEF Next, Process, Insert, LeaseExpires, vars

\* Two ticks do not both hold a row's current claim.
LEMMA OneCurrentClaim ==
  ASSUME TypeOK, ClaimsKnown, NEW v \in Workers, NEW w \in Workers, v # w,
         NEW c \in Held(v), NEW d \in Held(w), c.event = d.event
  PROVE  c.attempts # d.attempts
<1>1. c \in Claims /\ d \in Claims
  BY HeldAreClaims
<1>2. c # d
  BY DEF ClaimsKnown
<1>3. QED
  BY <1>1, <1>2, ClaimEquality
\* A claim that is not handled yet is held.
LEMMA UnhandledIsHeld ==
  ASSUME TypeOK, WellFormed, NEW w \in Workers, NEW c \in Unhandled(w)
  PROVE  c \in Held(w) /\ c \in Claims /\ c.event \in Events /\ c.attempts \in Nat
<1>1. c \in Held(w)
  BY InHand DEF Unhandled, Held, InProgress
<1>2. QED
  BY <1>1, HeldAreClaims, OutboxAssumption

LEMMA NextRunsLeased ==
  ASSUME Inv, Leased, ~SlowHandlers, [Next]_vars
  PROVE  RunsLeased'
<1>0. TypeOK /\ WellFormed /\ ClaimsKnown /\ RunsLeased
  BY DEF Inv, Leased
<1> SUFFICES ASSUME NEW v \in Workers, worker'[v].pc = "run"
             PROVE  /\ row'[worker'[v].claim.event].status = "processing"
                    /\ row'[worker'[v].claim.event].attempts = worker'[v].claim.attempts
                    /\ ~row'[worker'[v].claim.event].expired
  BY DEF RunsLeased, Owns
<1> DEFINE Kept == worker[v].pc = "run" /\ worker'[v] = worker[v]
           e0 == worker[v].claim.event
\* It is enough that a handler that was running keeps its row.
<1>k. ASSUME Kept, row'[e0] = row[e0]
      PROVE  /\ row'[worker'[v].claim.event].status = "processing"
             /\ row'[worker'[v].claim.event].attempts = worker'[v].claim.attempts
             /\ ~row'[worker'[v].claim.event].expired
  BY <1>0, <1>k DEF RunsLeased, Owns
<1>r. ASSUME Kept
      PROVE  /\ e0 \in Events /\ row[e0].status = "processing" /\ ~row[e0].expired
             /\ row[e0].attempts = worker[v].claim.attempts /\ worker[v].claim \in Held(v)
  BY <1>0, <1>r, InHand DEF RunsLeased, Owns, InProgress
<1>1. CASE UNCHANGED <<row, worker>>
  BY <1>1, <1>k
<1>2. ASSUME NEW e \in Events, Insert(e)
      PROVE  Kept /\ row'[e0] = row[e0]
  <2>1. Kept
    BY <1>2 DEF Insert
  <2>2. QED
    BY <1>0, <1>2, <2>1, <1>r DEF Insert, TypeOK
<1>3. ASSUME NEW e \in Events, LeaseExpires(e)
      PROVE  Kept /\ row'[e0] = row[e0]
  <2>1. Kept
    BY <1>3 DEF LeaseExpires
  <2>2. e0 # e
    BY <1>3, <2>1 DEF LeaseExpires
  <2>3. QED
    BY <1>0, <1>3, <2>1, <2>2, <1>r DEF LeaseExpires, TypeOK
<1>4. ASSUME NEW w \in Workers, Recover(w)
      PROVE  Kept /\ row'[e0] = row[e0]
  <2>1. Kept
    BY <1>0, <1>4 DEF Recover, Goto, TypeOK
  <2>2. QED
    BY <1>0, <1>4, <2>1, <1>r, RowsRecovered
<1>5. ASSUME NEW w \in Workers, Claim(w)
      PROVE  Kept /\ row'[e0] = row[e0]
  <2>1. Kept
    BY <1>0, <1>5, Shapes DEF Claim, TypeOK
  <2>2. e0 \notin Batch
    BY <1>r, <2>1 DEF Batch, Claimable
  <2>3. QED
    BY <1>0, <1>5, <2>1, <2>2, <1>r, RowsClaimed
<1>6. ASSUME NEW w \in Workers, NEW c \in Claims, Take(w, c)
      PROVE  Kept /\ row'[e0] = row[e0]
  BY <1>0, <1>6 DEF Take, TypeOK
<1>7. ASSUME NEW w \in Workers, \/ HandleFails(w) \/ CompleteFails(w) \/ Crash(w)
                                \/ \E outcome \in {"done", "error", "fatal"} : Handle(w, outcome)
      PROVE  Kept /\ row'[e0] = row[e0]
  BY <1>0, <1>7, Shapes DEF HandleFails, CompleteFails, Handle, Goto, Crash, TypeOK
<1>8. ASSUME NEW w \in Workers, Complete(w) \/ Fail(w)
      PROVE  Kept /\ row'[e0] = row[e0]
  <2> DEFINE c == worker[w].claim
  <2>1. w # v /\ Kept
    BY <1>0, <1>8, Advances DEF Complete, Fail
  <2>2. c \in Held(w) /\ c.event \in Events /\ c.attempts <= row[c.event].attempts
    BY <1>0, <1>8, InHand DEF Complete, Fail, InProgress, ClaimsKnown
  <2>3. CASE c.event # e0
    <3>1. PICK s \in {"completed", "failed", "pending"} :
             row' = row \/ row' = [row EXCEPT ![c.event] = WithStatus(@, s)]
      BY <1>8 DEF Complete, Fail
    <3>2. QED
      BY <1>0, <1>r, <2>1, <2>2, <2>3, <3>1, OneRowWritten
  <2>4. CASE c.event = e0
    <3>1. worker[v].claim \in Held(v) /\ worker[v].claim.event = c.event
      BY <1>r, <2>1, <2>4
    <3>2. worker[v].claim.attempts # c.attempts
      BY <1>0, <2>1, <2>2, <3>1, OneCurrentClaim
    <3>3. row[c.event].attempts # c.attempts /\ row[c.event].attempts \in Nat
      BY <1>0, <1>r, <2>1, <2>2, <2>4, <3>2, RowAttempts
    <3>4. c.attempts \in Nat
      BY <1>0, <2>2, HeldAreClaims, OutboxAssumption
    <3>5. ~SameAttempts(c) /\ ~DeadLetters(c) /\ ~Owns(c)
      BY <2>2, <3>3, <3>4 DEF SameAttempts, DeadLetters, Owns
    <3>6. row' = row
      BY <1>8, <3>5 DEF Complete, Fail
    <3>7. QED
      BY <2>1, <3>6
  <2>5. QED
    BY <2>3, <2>4
<1>9. ASSUME NEW w \in Workers, Renew(w)
      PROVE  /\ row'[worker'[v].claim.event].status = "processing"
             /\ row'[worker'[v].claim.event].attempts = worker'[v].claim.attempts
             /\ ~row'[worker'[v].claim.event].expired
  <2> DEFINE c == worker[w].claim
  <2>1. c.event \in Events
    BY <1>0, <1>9, InHand DEF Renew, InProgress
  <2>2. CASE ~Owns(c)
    <3>1. w # v /\ Kept
      BY <1>0, <1>9, <2>2, Advances DEF Renew
    <3>2. row' = row
      BY <1>9, <2>2 DEF Renew
    <3>3. QED
      BY <1>k, <3>1, <3>2
  <2>3. CASE Owns(c)
    <3>1. Goto(w, "run") /\ row' = [row EXCEPT ![c.event] = Renewed(@)]
      BY <1>9, <2>3 DEF Renew
    <3>2. /\ \A f \in Events \ {c.event} : row'[f] = row[f]
          /\ row'[c.event].attempts = row[c.event].attempts
          /\ row'[c.event].status = row[c.event].status /\ ~row'[c.event].expired
      BY <1>0, <2>1, <3>1, RowRenewed
    <3>3. CASE v = w
      <4>1. worker'[v].claim = c
        BY <1>0, <3>1, <3>3 DEF Goto, TypeOK
      <4>2. QED
        BY <2>3, <3>2, <4>1 DEF Owns
    <3>4. CASE v # w
      <4>1. Kept
        BY <1>0, <3>1, <3>4 DEF Goto, TypeOK
      <4>2. CASE e0 = c.event
        BY <1>r, <3>2, <4>1, <4>2
      <4>3. CASE e0 # c.event
        BY <1>k, <1>r, <3>2, <4>1, <4>3
      <4>4. QED
        BY <4>2, <4>3
    <3>5. QED
      BY <3>3, <3>4
  <2>4. QED
    BY <2>2, <2>3
<1>10. QED
  <2>1. CASE Kept /\ row'[e0] = row[e0]
    BY <1>k, <2>1
  <2>2. QED
    BY <1>1, <1>2, <1>3, <1>4, <1>5, <1>6, <1>7, <1>8, <1>9, <2>1 DEF Next, Process, vars
LEMMA NextCallsBounded ==
  ASSUME Inv, Leased, [Next]_vars
  PROVE  CallsBounded'
<1>0. TypeOK /\ WellFormed /\ ClaimsKnown /\ RunsLeased /\ CallsBounded
  BY DEF Inv, Leased
<1>n. \A e \in Events : calls[e] \in Nat /\ row[e].attempts \in Nat
  BY <1>0, RowAttempts DEF TypeOK
\* It is enough that nothing is counted, claimed or added.
<1>q. ASSUME UNCHANGED calls, \A e \in Events : row'[e].attempts = row[e].attempts,
             \A v \in Workers : Unhandled(v)' \subseteq Unhandled(v)
      PROVE  CallsBounded'
  <2>1. \A e \in Events : calls'[e] <= row'[e].attempts
    BY <1>0, <1>q DEF CallsBounded
  <2>2. ASSUME NEW v \in Workers, NEW c \in Unhandled(v)', c.attempts = row'[c.event].attempts
        PROVE  calls'[c.event] < c.attempts
    BY <1>0, <1>q, <2>2, UnhandledIsHeld DEF CallsBounded
  <2>3. QED
    BY <2>1, <2>2 DEF CallsBounded
<1>1. CASE UNCHANGED vars
  <2>1. \A v \in Workers : Unhandled(v)' \subseteq Unhandled(v)
    BY <1>1 DEF vars, Unhandled
  <2>2. QED
    BY <1>1, <1>q, <2>1 DEF vars
<1>2. ASSUME NEW e \in Events, Insert(e) \/ LeaseExpires(e)
      PROVE  CallsBounded'
  <2>1. \A v \in Workers : Unhandled(v)' \subseteq Unhandled(v)
    BY <1>2 DEF Insert, LeaseExpires, Unhandled
  <2>2. \A f \in Events : row'[f].attempts = row[f].attempts
    BY <1>0, <1>2 DEF Insert, LeaseExpires, TypeOK
  <2>3. QED
    BY <1>2, <1>q, <2>1, <2>2 DEF Insert, LeaseExpires
<1>3. ASSUME NEW w \in Workers, Recover(w) \/ Process(w) \/ Crash(w), UNCHANGED calls
      PROVE  CallsBounded'
  <2>1. \A v \in Workers : Unhandled(v)' \subseteq Unhandled(v)
    BY <1>0, <1>3, OnlyClaimsAdd
  <2>2. \A e \in Events : row'[e].attempts = row[e].attempts
    <3>1. CASE UNCHANGED row \/ Recover(w) \/ Renew(w) \/ Fail(w)
      BY <1>0, <3>1, QuietSteps DEF Quiet
    <3>2. CASE Complete(w)
      <4>1. worker[w].claim.event \in Events
        BY <1>0, <3>2, InHand DEF Complete, InProgress
      <4>2. \/ row' = row
            \/ row' = [row EXCEPT ![worker[w].claim.event] = WithStatus(@, "completed")]
        BY <3>2 DEF Complete
      <4>3. QED
        BY <1>0, <4>1, <4>2, OneRowWritten
    <3>3. QED
      BY <1>3, <3>1, <3>2 DEF Process, Take, Handle, HandleFails, CompleteFails, Crash
  <2>3. QED
    BY <1>3, <1>q, <2>1, <2>2
<1>4. ASSUME NEW w \in Workers, NEW outcome \in {"done", "error", "fatal"}, Handle(w, outcome)
      PROVE  CallsBounded'
  <2> DEFINE c == worker[w].claim
  <2>1. /\ c \in Held(w) /\ c \in Unhandled(w) /\ c \notin worker[w].todo
        /\ c \in Claims /\ c.event \in Events
    BY <1>0, <1>4, InHand DEF Handle, InProgress, Unhandled
  <2>2. c.attempts = row[c.event].attempts /\ calls[c.event] < row[c.event].attempts
    BY <1>0, <1>4, <2>1 DEF Handle, RunsLeased, Owns, CallsBounded
  <2>3. row' = row
    BY <1>4 DEF Handle
  <2>4. \A e \in Events : calls'[e] = IF e = c.event THEN calls[e] + 1 ELSE calls[e]
    BY <1>0, <1>4, HandleCounts
  <2>5. ASSUME NEW e \in Events
        PROVE  calls'[e] <= row'[e].attempts
    <3>1. calls[e] <= row[e].attempts
      BY <1>0 DEF CallsBounded
    <3>2. CASE e = c.event
      BY <1>n, <2>2, <2>3, <2>4, <3>2
    <3>3. CASE e # c.event
      BY <2>3, <2>4, <3>1, <3>3
    <3>4. QED
      BY <3>2, <3>3
  <2>6. ASSUME NEW v \in Workers, NEW d \in Unhandled(v)', d.attempts = row'[d.event].attempts
        PROVE  calls'[d.event] < d.attempts
    <3>1. d \in Unhandled(v)
      BY <1>0, <1>4, <2>6, OnlyClaimsAdd DEF Process
    <3>2. d \in Held(v) /\ d \in Claims /\ d.event \in Events
      BY <1>0, <3>1, UnhandledIsHeld
    <3>3. calls[d.event] < d.attempts
      BY <1>0, <2>3, <2>6, <3>1 DEF CallsBounded
    <3>4. CASE d.event # c.event
      BY <2>4, <3>2, <3>3, <3>4
    <3>5. CASE d.event = c.event
      <4>1. d.attempts = c.attempts
        BY <2>2, <2>3, <2>6, <3>5
      <4>2. d = c
        BY <2>1, <3>2, <3>5, <4>1, ClaimEquality
      <4>3. v = w
        BY <1>0, <2>1, <3>2, <3>5, <4>1, OneCurrentClaim
      <4>4. Unhandled(w)' = worker[w].todo
        BY <1>0, <1>4 DEF Handle, Goto, Unhandled, TypeOK
      <4>5. QED
        BY <2>1, <2>6, <4>2, <4>3, <4>4
    <3>6. QED
      BY <3>4, <3>5
  <2>7. QED
    BY <2>5, <2>6 DEF CallsBounded
<1>5. ASSUME NEW w \in Workers, Claim(w)
      PROVE  CallsBounded'
  <2>1. UNCHANGED calls
    BY <1>5 DEF Claim
  <2>2. ASSUME NEW e \in Events
        PROVE  /\ calls'[e] <= row[e].attempts /\ row[e].attempts <= row'[e].attempts
               /\ row'[e].attempts \in Nat
    BY <1>0, <1>5, <1>n, <2>1, RowsClaimed DEF CallsBounded
  <2>3. ASSUME NEW e \in Events
        PROVE  calls'[e] <= row'[e].attempts
    BY <1>n, <2>1, <2>2
  <2>4. ASSUME NEW v \in Workers, NEW d \in Unhandled(v)', d.attempts = row'[d.event].attempts
        PROVE  calls'[d.event] < d.attempts
    <3>1. CASE d \in Unhandled(v)
      <4>1. d.event \in Events /\ d \in Held(v) /\ d.attempts \in Nat
        BY <1>0, <3>1, UnhandledIsHeld
      <4>2. d.attempts <= row[d.event].attempts
        BY <1>0, <4>1 DEF ClaimsKnown
      <4>3. d.attempts = row[d.event].attempts
        BY <1>n, <2>2, <2>4, <4>1, <4>2
      <4>4. QED
        BY <1>0, <2>1, <3>1, <4>3 DEF CallsBounded
    <3>2. CASE d \notin Unhandled(v)
      <4>1. v = w
        BY <1>0, <1>5, <2>4, <3>2 DEF Claim, Unhandled, TypeOK
      <4>2. d \in {[event |-> e, attempts |-> Claimed(row[e]).attempts] : e \in Batch}
        BY <1>0, <1>5, <2>4, <4>1 DEF Claim, Unhandled, TypeOK, Idle
      <4>3. PICK e \in Batch : d = [event |-> e, attempts |-> Claimed(row[e]).attempts]
        BY <4>2
      <4>4. e \in Events
        BY DEF Batch, Claimable
      <4>5. d.event = e /\ d.attempts = row[e].attempts + 1
        BY <1>0, <1>5, <4>3, <4>4, RowsClaimed
      <4>6. calls'[e] <= row[e].attempts
        BY <2>2, <4>4
      <4>7. QED
        BY <1>n, <2>1, <4>4, <4>5, <4>6
    <3>3. QED
      BY <3>1, <3>2
  <2>5. QED
    BY <2>3, <2>4 DEF CallsBounded
<1>6. QED
  <2>1. \A w \in Workers : Process(w) => \/ UNCHANGED calls
                                        \/ \E outcome \in {"done", "error", "fatal"} : Handle(w, outcome)
    BY DEF Process, Take, Renew, HandleFails, Complete, CompleteFails, Fail
  <2>2. \A w \in Workers : Recover(w) \/ Crash(w) => UNCHANGED calls
    BY DEF Recover, Crash
  <2>3. QED
    BY <1>1, <1>2, <1>3, <1>4, <1>5, <2>1, <2>2 DEF Next

LEMMA NextInv == Inv /\ [Next]_vars => Inv'
<1> SUFFICES ASSUME Inv, [Next]_vars
             PROVE  Inv'
  OBVIOUS
<1>1. TypeOK' /\ WellFormed' /\ ClaimsKnown' /\ DoneWasCalled'
  BY NextTypeOK, NextWellFormed, NextClaimsKnown, NextDoneWasCalled
<1>2. ASSUME ~SlowHandlers
      PROVE  Leased'
  <2>1. Leased
    BY <1>2 DEF Inv
  <2>2. RunsLeased' /\ CallsBounded'
    BY <1>2, <2>1, NextRunsLeased, NextCallsBounded
  <2>3. QED
    BY <2>2 DEF Leased
<1>3. QED
  BY <1>1, <1>2 DEF Inv
-----------------------------------------------------------------------------
(* Theorems *)

LEMMA Invariance == Spec => []Inv
<1>1. Init => Inv
  BY InitInv
<1>2. Inv /\ [Next]_vars => Inv'
  BY NextInv
<1>3. QED
  BY <1>1, <1>2, PTL DEF Spec

\* Rows, claims and counters keep their types; attempts never pass the limit.
THEOREM TypeCorrect == Spec => []TypeOK
<1>1. Inv => TypeOK
  BY DEF Inv
<1>2. QED
  BY <1>1, Invariance, PTL

\* "Distinct claims cannot collide", also when handlers outlive their lease:
\* the number of attempts identifies a claim, so the fences of processEvent
\* compare with the right one.
THEOREM ClaimsAreDistinct == Spec => []ClaimsDistinct
<1>1. Inv => ClaimsDistinct
  BY DEF Inv, ClaimsKnown, ClaimsDistinct
<1>2. QED
  BY <1>1, Invariance, PTL

\* A handler that ends within its lease runs alone, and while the row says so.
THEOREM HandlersAreExclusive ==
  ASSUME ~SlowHandlers
  PROVE  Spec => []HandlersExclusive
<1>1. Inv => HandlersExclusive
  <2> SUFFICES ASSUME Inv, NEW w \in Workers, worker[w].pc = "run"
               PROVE  /\ Owns(worker[w].claim)
                      /\ \A v \in Workers \ {w} : worker[v].pc = "run" =>
                           worker[v].claim.event # worker[w].claim.event
    BY DEF HandlersExclusive
  <2>0. TypeOK /\ WellFormed /\ ClaimsKnown /\ RunsLeased
    BY DEF Inv, Leased
  <2>1. Owns(worker[w].claim)
    BY <2>0 DEF RunsLeased
  <2>2. ASSUME NEW v \in Workers \ {w}, worker[v].pc = "run",
               worker[v].claim.event = worker[w].claim.event
        PROVE  FALSE
    <3>1. worker[v].claim \in Held(v) /\ worker[w].claim \in Held(w)
      BY <2>0, <2>2, InHand DEF InProgress
    <3>2. worker[v].claim.attempts # worker[w].claim.attempts
      BY <2>0, <2>2, <3>1, OneCurrentClaim
    <3>3. QED
      BY <2>0, <2>1, <2>2, <3>2 DEF RunsLeased, Owns
  <2>3. QED
    BY <2>1, <2>2
<1>2. QED
  BY <1>1, Invariance, PTL

\* No stale tick, recovery or late failure opens a completed event again or
\* declares it failed, also when handlers outlive their lease.
THEOREM CompletionIsFinal == Spec => CompletedIsFinal
<1> DEFINE Stays == \A e \in Events : row[e].status = "completed" => row'[e].status = "completed"
<1>1. Inv /\ [Next]_vars => Stays
  <2> SUFFICES ASSUME Inv, [Next]_vars, NEW e \in Events, row[e].status = "completed"
               PROVE  row'[e].status = "completed"
    OBVIOUS
  <2>0. TypeOK /\ WellFormed /\ ClaimsKnown
    BY DEF Inv
  <2>1. CASE UNCHANGED row
    BY <2>1
  <2>2. ASSUME NEW f \in Events, Insert(f) \/ LeaseExpires(f)
        PROVE  row'[e] = row[e]
    BY <2>0, <2>2 DEF Insert, LeaseExpires, TypeOK
  <2>3. ASSUME NEW w \in Workers, Recover(w)
        PROVE  row'[e] = row[e]
    BY <2>0, <2>3, RowsRecovered
  <2>4. ASSUME NEW w \in Workers, Claim(w)
        PROVE  row'[e] = row[e]
    BY <2>0, <2>4, RowsClaimed
  <2>5. ASSUME NEW w \in Workers, Renew(w)
        PROVE  row'[e].status = "completed"
    <3>1. worker[w].claim.event \in Events
      BY <2>0, <2>5, InHand DEF Renew, InProgress
    <3>2. CASE row' = [row EXCEPT ![worker[w].claim.event] = Renewed(@)]
      BY <2>0, <3>1, <3>2, RowRenewed
    <3>3. QED
      BY <2>5, <2>1, <3>2 DEF Renew
  <2>6. ASSUME NEW w \in Workers, Complete(w)
        PROVE  row'[e].status = "completed"
    <3>1. worker[w].claim.event \in Events
      BY <2>0, <2>6, InHand DEF Complete, InProgress
    <3>2. CASE row' = [row EXCEPT ![worker[w].claim.event] = WithStatus(@, "completed")]
      BY <2>0, <3>1, <3>2, OneRowWritten
    <3>3. QED
      BY <2>6, <2>1, <3>2 DEF Complete
  \* A claim that may fail the event is the current one: the row is not completed.
  <2>7. ASSUME NEW w \in Workers, Fail(w)
        PROVE  row'[e] = row[e]
    <3> DEFINE c == worker[w].claim
    <3>1. c.event \in Events /\ c \in Held(w) /\ c.attempts \in Nat
      BY <2>0, <2>7, InHand, OutboxAssumption DEF Fail, InProgress
    <3>2. /\ c.attempts <= row[c.event].attempts
          /\ c.attempts = row[c.event].attempts => row[c.event].status # "completed"
      BY <2>0, <3>1 DEF ClaimsKnown
    <3>3. row[c.event].attempts \in Nat
      BY <2>0, <3>1, RowAttempts
    <3>4. CASE c.event = e
      <4>1. ~Owns(c) /\ ~DeadLetters(c)
        BY <3>1, <3>2, <3>3, <3>4 DEF Owns, DeadLetters
      <4>2. QED
        BY <2>7, <4>1 DEF Fail
    <3>5. CASE c.event # e
      <4>1. PICK s \in {"failed", "pending"} :
               row' = row \/ row' = [row EXCEPT ![c.event] = WithStatus(@, s)]
        BY <2>7 DEF Fail
      <4>2. QED
        BY <2>0, <3>1, <3>5, <4>1, OneRowWritten
    <3>6. QED
      BY <3>4, <3>5
  <2>8. ASSUME NEW w \in Workers, Process(w) \/ Crash(w)
        PROVE  UNCHANGED row \/ Renew(w) \/ Complete(w) \/ Fail(w)
    BY <2>8 DEF Process, Take, Handle, HandleFails, CompleteFails, Crash
  <2>9. QED
    BY <2>1, <2>2, <2>3, <2>4, <2>5, <2>6, <2>7, <2>8 DEF Next, vars
<1>2. Inv /\ [Next]_vars => [Stays]_row
  BY <1>1
<1>3. QED
  BY <1>2, Invariance, PTL DEF Spec, CompletedIsFinal

-----------------------------------------------------------------------------
(* The contract *)

\* The statements that leave every event as open as it was.
LEMMA Stutters ==
  ASSUME TypeOK, UNCHANGED calls,
         \A e \in Events : OpenState(row'[e].status) = OpenState(row[e].status)
  PROVE  UNCHANGED <<[e \in Events |-> OpenState(row[e].status)], calls>>
OBVIOUS

\* Every step of the workers is a step of the contract, or none.
LEMMA NextContract ==
  ASSUME Inv, ~SlowHandlers, [Next]_vars
  PROVE  [Contract!Next]_<<[e \in Events |-> OpenState(row[e].status)], calls>>
<1>0. TypeOK /\ WellFormed /\ ClaimsKnown /\ DoneWasCalled /\ RunsLeased /\ CallsBounded
  BY DEF Inv, Leased
<1> DEFINE state == [e \in Events |-> OpenState(row[e].status)]
<1>1. CASE UNCHANGED vars
  BY <1>1 DEF vars
<1>2. ASSUME NEW e \in Events, Insert(e)
      PROVE  Contract!Accept(e)
  <2>1. row' = [row EXCEPT ![e].status = "pending"] /\ row[e].status = "absent" /\ calls' = calls
    BY <1>2 DEF Insert
  <2>2. /\ row'[e].status = "pending"
        /\ \A f \in Events \ {e} : row'[f] = row[f]
    BY <1>0, <2>1 DEF TypeOK
  <2>3. state[e] = "absent" /\ state' = [state EXCEPT ![e] = "open"]
    BY <2>1, <2>2 DEF OpenState
  <2>4. QED
    BY <2>1, <2>3 DEF Contract!Accept
<1>3. ASSUME NEW e \in Events, LeaseExpires(e)
      PROVE  UNCHANGED <<state, calls>>
  <2>1. \A f \in Events : row'[f].status = row[f].status
    BY <1>0, <1>3 DEF LeaseExpires, TypeOK
  <2>2. QED
    BY <1>3, <2>1 DEF LeaseExpires
<1>4. ASSUME NEW w \in Workers, Recover(w)
      PROVE  \E S \in SUBSET Events : Contract!BuryAll(S)
  <2> DEFINE S == {e \in Events : /\ row[e].status = "processing" /\ row[e].expired
                                 /\ ~(row[e].attempts < MAX_ATTEMPTS)}
  <2>1. \A e \in S : state[e] = "open"
    BY DEF OpenState
  <2>2. \A e \in Events : state'[e] = IF e \in S THEN "dead" ELSE state[e]
    BY <1>0, <1>4, RowsRecovered DEF OpenState
  <2>3. calls' = calls
    BY <1>4 DEF Recover
  <2>4. Contract!BuryAll(S)
    BY <2>1, <2>2, <2>3 DEF Contract!BuryAll
  <2>5. QED
    BY <2>4
<1>5. ASSUME NEW w \in Workers, Claim(w)
      PROVE  UNCHANGED <<state, calls>>
  <2>1. \A e \in Events : OpenState(row'[e].status) = OpenState(row[e].status)
    BY <1>0, <1>5, RowsClaimed DEF OpenState
  <2>2. QED
    BY <1>0, <1>5, <2>1 DEF Claim
<1>6. ASSUME NEW w \in Workers, NEW outcome \in {"done", "error", "fatal"}, Handle(w, outcome)
      PROVE  \E e \in Events : Contract!Perform(e)
  <2>1. PICK e \in Events : e = worker[w].claim.event
    BY <1>0, <1>6, HandleCounts
  <2>2. worker[w].claim \in Unhandled(w) /\ worker[w].claim.attempts \in 1..MAX_ATTEMPTS
    BY <1>0, <1>6, InHand DEF Handle, InProgress, Unhandled
  <2>3. row[e].status = "processing" /\ row[e].attempts = worker[w].claim.attempts
    BY <1>0, <1>6, <2>1 DEF Handle, RunsLeased, Owns
  <2>4. calls[e] < worker[w].claim.attempts
    BY <1>0, <2>1, <2>2, <2>3 DEF CallsBounded
  <2>5. calls[e] \in Nat /\ MAX_ATTEMPTS \in Nat
    BY <1>0, OutboxAssumption DEF TypeOK
  <2>6. state[e] = "open" /\ calls[e] < MAX_ATTEMPTS
    BY <2>2, <2>3, <2>4, <2>5 DEF OpenState
  <2>7. calls' = [calls EXCEPT ![e] = @ + 1] /\ state' = state
    BY <1>6, <2>1 DEF Handle
  <2>8. QED
    BY <2>6, <2>7 DEF Contract!Perform
<1>7. ASSUME NEW w \in Workers, Complete(w)
      PROVE  (\E e \in Events : Contract!Done(e)) \/ UNCHANGED <<state, calls>>
  <2> DEFINE c == worker[w].claim
  <2>1. c.event \in Events /\ c \in Held(w)
    BY <1>0, <1>7, InHand DEF Complete, InProgress
  <2>2. calls' = calls
    BY <1>7 DEF Complete
  <2>3. CASE ~SameAttempts(c)
    BY <1>7, <2>2, <2>3 DEF Complete
  <2>4. CASE SameAttempts(c)
    <3>1. PICK e \in Events : e = c.event
      BY <2>1
    <3>2. row' = [row EXCEPT ![e] = WithStatus(@, "completed")]
      BY <1>7, <2>4, <3>1 DEF Complete
    <3>3. /\ row'[e].status = "completed"
          /\ \A f \in Events \ {e} : row'[f] = row[f]
      BY <1>0, <3>2, RowWrites DEF TypeOK
    <3>4. row[e].status \in {"pending", "processing", "failed"}
      <4>1. row[e].status # "absent" /\ row[e].status # "completed"
        BY <1>0, <2>1, <2>4, <3>1 DEF ClaimsKnown, SameAttempts
      <4>2. QED
        BY <1>0, <4>1 DEF TypeOK
    <3>5. calls[e] > 0
      BY <1>0, <1>7, <3>1 DEF Complete, DoneWasCalled
    <3>6. state[e] \in {"open", "dead"} /\ state' = [state EXCEPT ![e] = "done"]
      BY <3>3, <3>4 DEF OpenState
    <3>7. Contract!Done(e)
      BY <2>2, <3>5, <3>6 DEF Contract!Done
    <3>8. QED
      BY <3>7
  <2>5. QED
    BY <2>3, <2>4
<1>8. ASSUME NEW w \in Workers, Fail(w)
      PROVE  (\E e \in Events : Contract!Bury(e)) \/ UNCHANGED <<state, calls>>
  <2> DEFINE c == worker[w].claim
  <2>1. c.event \in Events /\ c \in Held(w) /\ c.attempts \in Nat
    BY <1>0, <1>8, InHand, OutboxAssumption DEF Fail, InProgress
  <2>2. calls' = calls
    BY <1>8 DEF Fail
  <2>3. PICK e \in Events : e = c.event
    BY <2>1
  <2>4. CASE row' = row
    BY <2>2, <2>4
  <2>5. CASE Owns(c) /\ row' = [row EXCEPT ![e] = WithStatus(@, "pending")]
    <3>1. /\ row'[e].status = "pending"
          /\ \A f \in Events \ {e} : row'[f] = row[f]
      BY <1>0, <2>5, RowWrites DEF TypeOK
    <3>2. row[e].status = "processing"
      BY <2>3, <2>5 DEF Owns
    <3>3. \A f \in Events : OpenState(row'[f].status) = OpenState(row[f].status)
      BY <3>1, <3>2 DEF OpenState
    <3>4. QED
      BY <2>2, <3>3
  <2>6. CASE DeadLetters(c) /\ row' = [row EXCEPT ![e] = WithStatus(@, "failed")]
    <3>1. /\ row'[e].status = "failed"
          /\ \A f \in Events \ {e} : row'[f] = row[f]
      BY <1>0, <2>6, RowWrites DEF TypeOK
    <3>2. c.attempts = row[e].attempts
      <4>1. c.attempts <= row[e].attempts
        BY <1>0, <2>1, <2>3 DEF ClaimsKnown
      <4>2. row[e].attempts <= c.attempts
        BY <2>3, <2>6 DEF DeadLetters
      <4>3. row[e].attempts \in Nat
        BY <1>0, RowAttempts
      <4>4. QED
        BY <2>1, <4>1, <4>2, <4>3
    <3>3. row[e].status \in {"pending", "processing", "failed"}
      <4>1. row[e].status # "absent" /\ row[e].status # "completed"
        BY <1>0, <2>1, <2>3, <3>2 DEF ClaimsKnown
      <4>2. QED
        BY <1>0, <4>1 DEF TypeOK
    <3>4. CASE row[e].status = "failed"
      <4>1. \A f \in Events : OpenState(row'[f].status) = OpenState(row[f].status)
        BY <3>1, <3>4
      <4>2. QED
        BY <2>2, <4>1
    <3>5. CASE row[e].status # "failed"
      <4>1. state[e] = "open" /\ state' = [state EXCEPT ![e] = "dead"]
        <5>1. row[e].status \in {"pending", "processing"}
          BY <3>3, <3>5
        <5>2. state[e] = "open" /\ OpenState(row'[e].status) = "dead"
          BY <3>1, <5>1 DEF OpenState
        <5>3. \A f \in Events \ {e} : OpenState(row'[f].status) = OpenState(row[f].status)
          BY <3>1
        <5>4. QED
          BY <5>2, <5>3
      <4>2. Contract!Bury(e)
        BY <2>2, <4>1 DEF Contract!Bury
      <4>3. QED
        BY <4>2
    <3>6. QED
      BY <3>4, <3>5
  <2>7. QED
    BY <1>8, <2>3, <2>4, <2>5, <2>6 DEF Fail
<1>9. ASSUME NEW w \in Workers, \/ Renew(w)
                                \/ UNCHANGED <<row, calls>>
      PROVE  UNCHANGED <<state, calls>>
  <2>1. CASE UNCHANGED <<row, calls>>
    BY <2>1
  <2>2. CASE Renew(w)
    <3>1. worker[w].claim.event \in Events
      BY <1>0, <2>2, InHand DEF Renew, InProgress
    <3>2. \A f \in Events : row'[f].status = row[f].status
      <4>1. CASE row' = row
        BY <4>1
      <4>2. CASE row' = [row EXCEPT ![worker[w].claim.event] = Renewed(@)]
        BY <1>0, <3>1, <4>2, RowRenewed
      <4>3. QED
        BY <2>2, <4>1, <4>2 DEF Renew
    <3>3. QED
      BY <2>2, <3>2 DEF Renew
  <2>3. QED
    BY <1>9, <2>1, <2>2
<1>10. QED
  <2>1. CASE \E w \in Workers : \E c \in Claims : Take(w, c)
    BY <1>9, <2>1 DEF Take
  <2>2. CASE \E w \in Workers : HandleFails(w) \/ CompleteFails(w) \/ Crash(w)
    BY <1>9, <2>2 DEF HandleFails, CompleteFails, Crash
  <2>3. CASE Contract!Next \/ UNCHANGED <<state, calls>>
    BY <2>3
  <2>4. CASE \E e \in Events : Insert(e) \/ LeaseExpires(e)
    BY <1>2, <1>3, <2>4 DEF Contract!Next
  <2>5. CASE \E w \in Workers : Recover(w) \/ Claim(w) \/ Renew(w) \/ Complete(w) \/ Fail(w)
    BY <1>4, <1>5, <1>7, <1>8, <1>9, <2>5 DEF Contract!Next
  <2>6. CASE \E w \in Workers : \E outcome \in {"done", "error", "fatal"} : Handle(w, outcome)
    BY <1>6, <2>6 DEF Contract!Next
  <2>7. QED
    BY <1>1, <2>1, <2>2, <2>3, <2>4, <2>5, <2>6 DEF Next, Process, vars

\* With handlers that end within their lease, the workers implement the
\* contract of the outbox, whatever crashes and however ticks overlap.
THEOREM Implementation ==
  ASSUME ~SlowHandlers
  PROVE  Spec => ImplementsContract
<1>1. Init => Contract!Init
  BY DEF Init, Contract!Init, OpenState, Absent
<1>2. Inv /\ [Next]_vars => [Contract!Next]_<<[e \in Events |-> OpenState(row[e].status)], calls>>
  BY NextContract
<1>3. QED
  BY <1>1, <1>2, Invariance, PTL DEF Spec, ImplementsContract, Contract!Spec
=============================================================================
