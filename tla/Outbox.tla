------------------------------- MODULE Outbox -------------------------------
(***************************************************************************)
(* The outbox worker (OutboxProcessor): every tick of a timer, in every     *)
(* process that runs the server, recovers stranded events, claims a batch   *)
(* with FOR UPDATE SKIP LOCKED and handles its events one after the other.  *)
(* Ticks overlap: nothing waits for the previous one.                       *)
(*                                                                          *)
(* Each action is one SQL statement or one call of a handler; crashes and   *)
(* the passing of the five minutes of a lease come between any two.  What   *)
(* the handlers do to orders and refunds is in OrderPayments, and the       *)
(* courier's in CourierDispatch: here a handler is one side effect.  Every  *)
(* type of event that is inserted has a handler.  The reset of the attempts *)
(* by an admin (CLEAR_AND_RETRY) is in CourierDispatch.                     *)
(***************************************************************************)
EXTENDS Integers, FiniteSets

CONSTANTS
  Events,        \* event rows, numbered in the order of created_at
  Workers,       \* ticks in progress
  MAX_ATTEMPTS,  \* claims of an event (3)
  BatchSize,     \* LIMIT of the claim (10)
  MaxCrashes,    \* bound: ticks that die (a crash, a lost database)
  SlowHandlers   \* may a handler outlive the lease renewed before it?

ASSUME OutboxAssumption ==
  /\ Events \subseteq Nat /\ IsFiniteSet(Events)
  /\ MAX_ATTEMPTS \in Nat \ {0} /\ BatchSize \in Nat \ {0}
  /\ MaxCrashes \in Nat /\ SlowHandlers \in BOOLEAN

VARIABLES
  row,     \* row[e]: the outbox_events row; expired: updated_at is 5 min old
  worker,  \* worker[w]: the claimed events not yet handled, and the current one
  calls,   \* history: calls[e], how often e's side effect was performed
  crashes  \* how many ticks died

vars == <<row, worker, calls, crashes>>

Claims == [event : Events, attempts : 1..MAX_ATTEMPTS]
NoClaim == [event |-> 0, attempts |-> 0]
Idle == [pc |-> "idle", todo |-> {}, claim |-> NoClaim]

Absent == [status |-> "absent", attempts |-> 0, expired |-> FALSE]

Init ==
  /\ row = [e \in Events |-> Absent]
  /\ worker = [w \in Workers |-> Idle]
  /\ calls = [e \in Events |-> 0]
  /\ crashes = 0

\* The step after an event: the next of the batch, or the end of the tick.
Advance(w) ==
  worker' = [worker EXCEPT ![w] =
               IF worker[w].todo = {} THEN Idle ELSE [@ EXCEPT !.pc = "next", !.claim = NoClaim]]

Goto(w, pc) == worker' = [worker EXCEPT ![w].pc = pc]

\* A row written now: its lease starts again.
Renewed(r) == [r EXCEPT !.expired = FALSE]
WithStatus(r, status) == [Renewed(r) EXCEPT !.status = status]

-----------------------------------------------------------------------------
(* The rows *)

\* createOutboxEvent in a business transaction that commits; created_at is the
\* time it began, so events may appear out of their order.
Insert(e) ==
  /\ row[e].status = "absent"
  /\ row' = [row EXCEPT ![e].status = "pending"]
  /\ UNCHANGED <<worker, calls, crashes>>

\* Five minutes pass for a row in processing.  Handlers that are aborted after
\* 10 s (SlowHandlers = FALSE) end within the lease renewed just before them.
LeaseExpires(e) ==
  /\ row[e].status = "processing" /\ ~row[e].expired
  /\ SlowHandlers \/ \A w \in Workers :
       ~(worker[w].pc = "run" /\ worker[w].claim.event = e)
  /\ row' = [row EXCEPT ![e].expired = TRUE]
  /\ UNCHANGED <<worker, calls, crashes>>

-----------------------------------------------------------------------------
(* processOutbox *)

\* What recoverStrandedEvents makes of a stranded row.
Recovered_Pending(r) == WithStatus(r, "pending")
Recovered(r) ==
  WithStatus(r, IF r.attempts < MAX_ATTEMPTS THEN "pending" ELSE "failed")

\* recoverStrandedEvents: one UPDATE of every row with an expired lease.
Recover(w) ==
  /\ worker[w].pc = "idle"
  /\ row' = [e \in Events |-> IF row[e].status = "processing" /\ row[e].expired
                              THEN Recovered(row[e]) ELSE row[e]]
  /\ Goto(w, "claim")
  /\ UNCHANGED <<calls, crashes>>

Claimable == {e \in Events : row[e].status = "pending" /\ row[e].attempts < MAX_ATTEMPTS}

\* ORDER BY created_at LIMIT: the oldest of the claimable rows.
Batch ==
  {e \in Claimable : Cardinality({f \in Claimable : f < e}) < BatchSize}

\* The row after its claim.
Claimed(r) == [WithStatus(r, "processing") EXCEPT !.attempts = @ + 1]

\* The UPDATE ... FOR UPDATE SKIP LOCKED ... RETURNING *.
Claim(w) ==
  /\ worker[w].pc = "claim"
  /\ row' = [e \in Events |-> IF e \in Batch THEN Claimed(row[e]) ELSE row[e]]
  /\ worker' = [worker EXCEPT ![w] =
       IF Batch = {} THEN Idle
       ELSE [pc |-> "next", claim |-> NoClaim,
             todo |-> {[event |-> e, attempts |-> Claimed(row[e]).attempts] : e \in Batch}]]
  /\ UNCHANGED <<calls, crashes>>

\* The loop over the claimed events, in the order the statement returned them.
Take(w, c) ==
  /\ worker[w].pc = "next" /\ c \in worker[w].todo
  /\ worker' = [worker EXCEPT ![w] = [pc |-> "renew", claim |-> c, todo |-> @.todo \ {c}]]
  /\ UNCHANGED <<row, calls, crashes>>

-----------------------------------------------------------------------------
(* processEvent *)

\* The row still carries this claim's number of attempts.
SameAttempts_Any(c) == TRUE
SameAttempts(c) == row[c.event].attempts = c.attempts

\* The fence before the side effect: still processing, and by this claim.
Owns_Unchecked(c) == TRUE
Owns(c) == row[c.event].status = "processing" /\ row[c.event].attempts = c.attempts

\* The fence renews the lease of an owned event; otherwise it is skipped.
Renew(w) ==
  LET c == worker[w].claim IN
  /\ worker[w].pc = "renew"
  /\ IF Owns(c)
     THEN /\ row' = [row EXCEPT ![c.event] = Renewed(@)]
          /\ Goto(w, "run")
     ELSE UNCHANGED row /\ Advance(w)
  /\ UNCHANGED <<calls, crashes>>

\* The handler performs its side effect and returns ("done") or throws: an
\* error to retry, or a NonRetryableOutboxError.
Handle(w, outcome) ==
  /\ worker[w].pc = "run"
  /\ outcome \in {"done", "error", "fatal"}
  /\ calls' = [calls EXCEPT ![worker[w].claim.event] = @ + 1]
  /\ Goto(w, outcome)
  /\ UNCHANGED <<row, crashes>>

\* The handler, or the renewal, throws before any side effect.
HandleFails(w) ==
  /\ worker[w].pc \in {"renew", "run"}
  /\ Goto(w, "error")
  /\ UNCHANGED <<row, calls, crashes>>

\* The handler returned: the event is completed, unless a newer claim has it.
Complete(w) ==
  LET c == worker[w].claim IN
  /\ worker[w].pc = "done"
  /\ row' = IF SameAttempts(c)
            THEN [row EXCEPT ![c.event] = WithStatus(@, "completed")] ELSE row
  /\ Advance(w)
  /\ UNCHANGED <<calls, crashes>>

\* The statement that completes the event throws inside the same try block.
CompleteFails(w) ==
  /\ worker[w].pc = "done"
  /\ Goto(w, "error")
  /\ UNCHANGED <<row, calls, crashes>>

\* The WHERE clause of markFailed.
DeadLetters(c) == row[c.event].attempts <= c.attempts

\* The catch block: dead-lettered when fatal or out of attempts, else pending
\* again for a later tick.
Fail(w) ==
  LET c == worker[w].claim IN
  /\ worker[w].pc \in {"error", "fatal"}
  /\ IF worker[w].pc = "fatal" \/ c.attempts >= MAX_ATTEMPTS
     THEN row' = IF DeadLetters(c)
                 THEN [row EXCEPT ![c.event] = WithStatus(@, "failed")] ELSE row
     ELSE row' = IF Owns(c)
                 THEN [row EXCEPT ![c.event] = WithStatus(@, "pending")] ELSE row
  /\ Advance(w)
  /\ UNCHANGED <<calls, crashes>>

\* The process dies, or the catch block throws: the rest of the batch is lost.
Crash(w) ==
  /\ worker[w].pc # "idle" /\ crashes < MaxCrashes
  /\ worker' = [worker EXCEPT ![w] = Idle]
  /\ crashes' = crashes + 1
  /\ UNCHANGED <<row, calls>>

Process(w) ==
  \/ \E c \in Claims : Take(w, c)
  \/ Renew(w) \/ HandleFails(w) \/ Complete(w) \/ CompleteFails(w) \/ Fail(w)
  \/ \E outcome \in {"done", "error", "fatal"} : Handle(w, outcome)

Next ==
  \/ \E e \in Events : Insert(e) \/ LeaseExpires(e)
  \/ \E w \in Workers : Recover(w) \/ Claim(w) \/ Process(w) \/ Crash(w)

Spec == Init /\ [][Next]_vars

\* The timer fires for ever (@Cron EVERY_30_SECONDS), a tick that does not
\* crash goes on to its end, and time passes.  Nothing obliges a transaction to
\* insert an event, a handler to succeed or a process to survive.
Fairness ==
  /\ \A w \in Workers : WF_vars(Recover(w)) /\ WF_vars(Claim(w)) /\ WF_vars(Process(w))
  /\ \A e \in Events : WF_vars(LeaseExpires(e))

FairSpec == Spec /\ Fairness
-----------------------------------------------------------------------------
(* Properties *)

\* Rows, claims and counters have their types.
TypeOK ==
  /\ row \in [Events -> [status : {"absent", "pending", "processing", "completed", "failed"},
                         attempts : 0..MAX_ATTEMPTS, expired : BOOLEAN]]
  /\ worker \in [Workers -> [pc : {"idle", "claim", "next", "renew", "run", "done", "error", "fatal"},
                             todo : SUBSET Claims, claim : Claims \cup {NoClaim}]]
  /\ calls \in [Events -> Nat]
  /\ crashes \in 0..MaxCrashes

\* The claims a tick holds.
Held(w) == worker[w].todo \cup ({worker[w].claim} \ {NoClaim})

\* "Distinct claims cannot collide": no two ticks ever hold the same event
\* with the same number of attempts, so that the number tells them apart, and
\* none holds a number the row has not reached.
ClaimsDistinct ==
  /\ \A v, w \in Workers : v # w => Held(v) \cap Held(w) = {}
  /\ \A w \in Workers : \A c \in Held(w) : c.attempts <= row[c.event].attempts

\* The side effect of an event is never performed by two ticks at once, and
\* only while the row says so: what the fence is for.
HandlersExclusive ==
  \A w \in Workers : worker[w].pc = "run" =>
    /\ Owns(worker[w].claim)
    /\ \A v \in Workers \ {w} :
         worker[v].pc = "run" => worker[v].claim.event # worker[w].claim.event

\* A completed event stays completed: no stale tick, recovery or late failure
\* opens it again or declares it failed.
CompletedIsFinal ==
  [][\A e \in Events : row[e].status = "completed" => row'[e].status = "completed"]_row

\* The workers implement the contract of the outbox.
OpenState(status) ==
  CASE status \in {"pending", "processing"} -> "open"
    [] status = "completed" -> "done"
    [] status = "failed" -> "dead"
    [] OTHER -> "absent"

Contract == INSTANCE OutboxContract WITH state <- [e \in Events |-> OpenState(row[e].status)]
ImplementsContract == Contract!Spec

\* "Side effects are never lost": whatever ticks crash, every event is in the
\* end completed, or failed for an operator to see.
EventuallySettled ==
  \A e \in Events : row[e].status = "pending" ~> row[e].status \in {"completed", "failed"}
=============================================================================
