---------------------------- MODULE CourierProofs -----------------------------
(***************************************************************************)
(* What the dispatch of an order keeps, for any number of events, workers,  *)
(* admins and shipments: links, one shipment while no admin interferes, and *)
(* a sentinel that somebody watches.                                        *)
(***************************************************************************)
EXTENDS CourierDispatch, FiniteSetTheorems, TLAPS

EventRows == [status : {"absent", "pending", "processing", "completed", "failed"},
              attempts : 0..MAX_ATTEMPTS]
WorkerRows == [pc : {"idle", "read", "inquire", "claim", "create", "release",
                     "write", "notify", "done", "error", "fatal"},
               event : Events \cup {NoEvent}, attempts : 0..MAX_ATTEMPTS,
               seen : OrderRows, found : ParcelIds \cup {Null}]

Active(r) == r.pc # "idle"
Creating(r) == r.pc \in {"create", "release"}

\* A handler that writes a shipment has one.
HasFound(r) == r.pc = "write" => r.found # Null
Found == \A w \in Workers : HasFound(worker[w])

\* Without a shipment to adopt, who has seen the sentinel claims it the first
\* time only, and then in vain.
Heeds(r) ==
  /\ Active(r) => r.attempts >= 1
  /\ r.pc = "inquire" => r.seen.consignment \in {Null, PENDING_DISPATCH}
  /\ r.pc = "claim" /\ r.seen.consignment # Null /\ r.found = Null => r.attempts = 1
Heed == \A w \in Workers : Heeds(worker[w])

\* Only who set the sentinel asks the courier; a shipment it did not refuse
\* keeps it set.
Dispatched ==
  /\ NotRefused # {} => order.consignment # Null /\ \A w \in Workers : ~Creating(worker[w])
  /\ \A w \in Workers : Creating(worker[w]) => order.consignment # Null
  /\ \A v, w \in Workers : Creating(worker[v]) /\ Creating(worker[w]) => v = w
  /\ \A p, q \in NotRefused : p = q

\* A handler within its lease is the only one of its event.
Leased ==
  \A w \in Workers : Active(worker[w]) =>
    /\ worker[w].event \in Events /\ event[worker[w].event].status = "processing"
    /\ worker[w].attempts = event[worker[w].event].attempts /\ worker[w].attempts >= 1
    /\ \A v \in Workers : Active(worker[v]) /\ worker[v].event = worker[w].event => v = w

\* A handler that will not complete its event while the sentinel is set: it set
\* it, or it retries and has seen it.
Keeps(r) ==
  /\ r.pc \in {"read", "inquire", "claim", "create", "write", "release", "error", "fatal"}
  /\ r.pc = "read" => r.attempts >= 2
  /\ r.pc \in {"inquire", "claim"} => r.attempts >= 2 /\ r.seen.consignment = PENDING_DISPATCH

\* An event that such handlers have claimed.
Keeper(e) ==
  /\ event[e].status \in {"pending", "processing", "failed"} /\ event[e].attempts >= 1
  /\ \A w \in Workers : Active(worker[w]) /\ worker[w].event = e => Keeps(worker[w])

Unlinked == order.consignment = PENDING_DISPATCH /\ order.status # "cancelled"
Kept == Unlinked => \E e \in Events : Keeper(e)

Undisturbed == Heed /\ Dispatched /\ (~overrun => Leased /\ Kept)

DispatchInv == TypeOK /\ Found /\ (reconciled = {} => Undisturbed)

LEMMA Values ==
  /\ Null \notin ParcelIds /\ PENDING_DISPATCH \notin ParcelIds /\ PENDING_DISPATCH # Null
  /\ \A id \in ParcelIds : id # Null
BY CourierAssumption DEF Null, ParcelIds, PENDING_DISPATCH

LEMMA IdleIs ==
  /\ Idle \in WorkerRows /\ ~Active(Idle) /\ ~Creating(Idle) /\ HasFound(Idle) /\ Heeds(Idle)
  /\ Idle.found = Null
<1>1. NoOrder \in OrderRows
  BY DEF NoOrder, OrderRows
<1>2. 0 \in 0..MAX_ATTEMPTS
  BY CourierAssumption
<1>3. Idle \in WorkerRows /\ Idle.pc = "idle" /\ Idle.found = Null
  BY <1>1, <1>2 DEF Idle, WorkerRows
<1>4. QED
  BY <1>3 DEF Active, Creating, HasFound, Heeds

\* A handler goes on under its claim.
LEMMA LeaseGoesOn ==
  ASSUME TypeOK, Leased, NEW w \in Workers, NEW q, worker' = [worker EXCEPT ![w] = q],
         Active(worker[w]), q.event = worker[w].event, q.attempts = worker[w].attempts, event' = event
  PROVE  Leased'
<1>1. \A v \in Workers : worker'[v] = IF v = w THEN q ELSE worker[v]
  BY DEF TypeOK
<1>2. \A v \in Workers : /\ Active(worker'[v]) => Active(worker[v])
                         /\ worker'[v].event = worker[v].event
                         /\ worker'[v].attempts = worker[v].attempts
  BY <1>1
<1>3. QED
  BY <1>2 DEF Leased, Active

\* The keepers of the sentinel stay, when one handler goes on.
LEMMA KeeperGoesOn ==
  ASSUME TypeOK, Kept, NEW w \in Workers, NEW q, worker' = [worker EXCEPT ![w] = q],
         q.event = worker[w].event, Active(worker[w]), event' = event, Unlinked,
         Keeps(worker[w]) => Keeps(q)
  PROVE  Kept'
<1>1. \A v \in Workers : worker'[v] = IF v = w THEN q ELSE worker[v]
  BY DEF TypeOK
<1>2. PICK e \in Events : Keeper(e)
  BY DEF Kept
<1>3. ASSUME NEW v \in Workers, Active(worker'[v]), worker'[v].event = e
      PROVE  Keeps(worker'[v])
  BY <1>1, <1>2, <1>3 DEF Keeper
<1>4. event'[e].status \in {"pending", "processing", "failed"} /\ event'[e].attempts >= 1
  BY <1>2 DEF Keeper
<1>5. Keeper(e)'
  BY <1>3, <1>4 DEF Keeper, Active, Keeps
<1>6. QED
  BY <1>5 DEF Kept

\* A handler goes on as q, and the rows and the courier's shipments stay.
LEMMA GoesOn ==
  ASSUME DispatchInv, NEW w \in Workers, NEW q \in WorkerRows, worker' = [worker EXCEPT ![w] = q],
         Active(worker[w]), q.event = worker[w].event, q.attempts = worker[w].attempts,
         UNCHANGED <<order, event, parcels, desk, reconciled, overrun>>,
         rejected' \in BOOLEAN, sms' \in BOOLEAN, HasFound(q),
         reconciled = {} =>
           /\ Heeds(q)
           /\ Creating(q) => Creating(worker[w])
           /\ Unlinked /\ Keeps(worker[w]) => Keeps(q)
  PROVE  DispatchInv'
<1>1. \A v \in Workers : worker'[v] = IF v = w THEN q ELSE worker[v]
  BY DEF DispatchInv, TypeOK
<1>2. TypeOK /\ TypeOK'
  BY DEF DispatchInv, TypeOK, WorkerRows
<1>3. Found'
  BY <1>1 DEF DispatchInv, Found, HasFound
<1>4. ASSUME reconciled = {}
      PROVE  Undisturbed'
  <2>1. Heed /\ Dispatched /\ (~overrun => Leased /\ Kept)
    BY <1>4 DEF DispatchInv, Undisturbed
  <2>2. Heed'
    BY <1>1, <1>4, <2>1 DEF Heed, Heeds, Active, Null, PENDING_DISPATCH
  <2>3. \A v \in Workers : Creating(worker'[v]) => Creating(worker[v])
    BY <1>1, <1>4
  <2>5. Dispatched'
    BY <2>1, <2>3 DEF Dispatched, Creating, NotRefused
  <2>6. ~overrun => Leased'
    BY <1>2, <2>1, LeaseGoesOn
  <2>7. ~overrun => Kept'
    <3>1. CASE Unlinked
      BY <1>2, <1>4, <2>1, <3>1, KeeperGoesOn
    <3>2. CASE ~Unlinked
      BY <3>2 DEF Kept, Unlinked
    <3>3. QED
      BY <3>1, <3>2
  <2>8. QED
    BY <2>2, <2>5, <2>6, <2>7 DEF Undisturbed
<1>5. QED
  BY <1>2, <1>3, <1>4 DEF DispatchInv


-----------------------------------------------------------------------------
(* The steps of a handler *)

LEMMA Reads ==
  ASSUME DispatchInv, NEW w \in Workers, ReadOrder(w)
  PROVE  DispatchInv'
<1>1. PICK r, pc : /\ r = worker[w]
                   /\ pc = IF order.status = "cancelled" \/ HasParcel THEN "done"
                           ELSE IF r.attempts > 1 THEN "inquire" ELSE "claim"
  OBVIOUS
<1>2. PICK q : q = [r EXCEPT !.seen = order, !.pc = pc]
  OBVIOUS
<1>3. r \in WorkerRows /\ order \in OrderRows /\ TypeOK
  BY <1>1 DEF DispatchInv, TypeOK, WorkerRows
<1>4. /\ r.pc = "read" /\ worker' = [worker EXCEPT ![w] = q]
      /\ UNCHANGED <<order, event, parcels, rejected, sms, desk, reconciled, overrun>>
  BY <1>1, <1>2, <1>3 DEF ReadOrder, WorkerRows
<1>5. pc \in {"done", "inquire", "claim"}
  BY <1>1
<1>6. /\ q \in WorkerRows /\ q.pc = pc /\ q.event = r.event /\ q.attempts = r.attempts
      /\ q.seen = order /\ q.found = r.found
  BY <1>2, <1>3, <1>5 DEF WorkerRows
<1>7. HasFound(q) /\ ~Creating(q) /\ Active(r)
  BY <1>4, <1>5, <1>6 DEF HasFound, Creating, Active
<1>8. rejected' \in BOOLEAN /\ sms' \in BOOLEAN
  BY <1>3, <1>4 DEF TypeOK
<1>9. ASSUME reconciled = {}
      PROVE  /\ Heeds(q)
             /\ Unlinked /\ Keeps(r) => Keeps(q)
  <2>2. r.attempts \in Nat /\ order.consignment \in ParcelIds \cup {Null, PENDING_DISPATCH}
    BY <1>3, CourierAssumption DEF WorkerRows, OrderRows
  <2>4. Unlinked /\ Keeps(r) => Keeps(q)
    <3>1. ASSUME Unlinked, Keeps(r)
          PROVE  Keeps(q)
      <4>1. r.attempts >= 2 /\ ~HasParcel
        BY <1>4, <3>1, Values DEF Keeps, Unlinked, HasParcel
      <4>2. pc = "inquire"
        BY <1>1, <2>2, <3>1, <4>1 DEF Unlinked
      <4>3. QED
        BY <1>6, <3>1, <4>1, <4>2 DEF Keeps, Unlinked
    <3>2. QED
      BY <3>1
  <2>5. Heeds(q)
    <3>1. ASSUME q.pc = "claim", q.seen.consignment # Null, q.found = Null
          PROVE  q.attempts = 1
      <4>1. ~(r.attempts > 1)
        BY <1>1, <1>6, <3>1
      <4>2. r.attempts >= 1
        BY <1>1, <1>7, <1>9 DEF DispatchInv, Undisturbed, Heed, Heeds
      <4>3. QED
        BY <1>6, <2>2, <4>1, <4>2
    <3>2. QED
      <4>1. q.attempts >= 1
        BY <1>1, <1>6, <1>7, <1>9 DEF DispatchInv, Undisturbed, Heed, Heeds
      <4>2. q.pc = "inquire" => q.seen.consignment \in {Null, PENDING_DISPATCH}
        BY <1>1, <1>6, <2>2 DEF HasParcel
      <4>3. QED
        BY <3>1, <4>1, <4>2 DEF Heeds
  <2>6. QED
    BY <2>4, <2>5
<1>10. QED
  BY <1>1, <1>3, <1>4, <1>6, <1>7, <1>8, <1>9, GoesOn

LEMMA Inquires ==
  ASSUME DispatchInv, NEW w \in Workers, Inquire(w)
  PROVE  DispatchInv'
<1>1. PICK r : r = worker[w]
  OBVIOUS
<1>2. /\ r \in WorkerRows /\ order \in OrderRows /\ parcels \subseteq ParcelRows /\ TypeOK
      /\ r.pc = "inquire" /\ Active(r)
      /\ UNCHANGED <<order, event, parcels, rejected, sms, desk, reconciled, overrun>>
  BY <1>1 DEF DispatchInv, TypeOK, WorkerRows, Inquire, Active
<1>3. rejected' \in BOOLEAN /\ sms' \in BOOLEAN
  BY <1>2 DEF TypeOK
\* An error, or a shipment of which nothing is known.
<1>4. ASSUME NEW pc \in {"error", "fatal"}, worker' = [worker EXCEPT ![w].pc = pc]
      PROVE  DispatchInv'
  <2>0. PICK q : q = [r EXCEPT !.pc = pc]
    OBVIOUS
  <2>1. /\ q \in WorkerRows /\ worker' = [worker EXCEPT ![w] = q]
        /\ q.pc = pc /\ q.event = r.event /\ q.attempts = r.attempts
        /\ q.seen = r.seen /\ q.found = r.found
    BY <1>1, <1>2, <1>4, <2>0 DEF WorkerRows
  <2>2. HasFound(q) /\ ~Creating(q) /\ Active(q) /\ Keeps(q)
    BY <2>1 DEF HasFound, Creating, Active, Keeps
  <2>3. reconciled = {} => Heeds(q)
    BY <1>1, <1>2, <2>1 DEF DispatchInv, Undisturbed, Heed, Heeds
  <2>4. QED
    BY <1>1, <1>2, <1>3, <2>1, <2>2, <2>3, GoesOn
\* There was none, and nobody has asked for one.
<1>5. ASSUME worker' = [worker EXCEPT ![w].pc = "claim"], r.seen.consignment # PENDING_DISPATCH
      PROVE  DispatchInv'
  <2>0. PICK q : q = [r EXCEPT !.pc = "claim"]
    OBVIOUS
  <2>1. /\ q \in WorkerRows /\ worker' = [worker EXCEPT ![w] = q]
        /\ q.pc = "claim" /\ q.event = r.event /\ q.attempts = r.attempts
        /\ q.seen = r.seen /\ q.found = r.found
    BY <1>1, <1>2, <1>5, <2>0 DEF WorkerRows
  <2>2. HasFound(q) /\ ~Creating(q) /\ Active(q) /\ ~Keeps(r)
    BY <1>2, <1>5, <2>1 DEF HasFound, Creating, Active, Keeps
  <2>3. ASSUME reconciled = {}
        PROVE  Heeds(q)
    <3>1. Heeds(r)
      BY <1>1, <2>3 DEF DispatchInv, Undisturbed, Heed
    <3>2. r.seen.consignment = Null
      BY <1>2, <1>5, <3>1 DEF Heeds
    <3>3. QED
      BY <1>2, <2>1, <3>1, <3>2 DEF Heeds
  <2>4. QED
    BY <1>1, <1>2, <1>3, <2>1, <2>2, <2>3, GoesOn
\* One to adopt.
<1>6. ASSUME NEW p \in parcels, worker' = [worker EXCEPT ![w].found = p.id, ![w].pc = "claim"]
      PROVE  DispatchInv'
  <2>1. PICK id, q : id = p.id /\ q = [r EXCEPT !.found = id, !.pc = "claim"]
    OBVIOUS
  <2>2. id \in ParcelIds
    BY <1>2, <1>6, <2>1 DEF ParcelRows
  <2>3. worker' = [worker EXCEPT ![w] = q]
    BY <1>1, <1>2, <1>6, <2>1 DEF WorkerRows
  <2>4. /\ q \in WorkerRows /\ q.pc = "claim" /\ q.event = r.event /\ q.attempts = r.attempts
        /\ q.seen = r.seen /\ q.found = id
    BY <1>2, <2>1, <2>2 DEF WorkerRows
  <2>5. HasFound(q) /\ ~Creating(q) /\ Active(q) /\ (Keeps(r) => Keeps(q)) /\ q.found # Null
    BY <1>2, <2>2, <2>4, Values DEF HasFound, Creating, Active, Keeps
  <2>6. reconciled = {} => Heeds(q)
    BY <1>1, <1>2, <2>4, <2>5 DEF DispatchInv, Undisturbed, Heed, Heeds
  <2>7. QED
    BY <1>1, <1>2, <1>3, <1>6, <2>3, <2>4, <2>5, <2>6, GoesOn
<1>7. QED
  BY <1>1, <1>4, <1>5, <1>6 DEF Inquire, Goto, AfterNotFound

\* Who finds the order free sets the sentinel, and its event keeps it.
LEMMA Claims ==
  ASSUME DispatchInv, NEW w \in Workers, ClaimOrder(w)
  PROVE  DispatchInv'
<1>1. PICK r, onward : r = worker[w] /\ onward = IF r.found = Null THEN "create" ELSE "write"
  OBVIOUS
<1>2. /\ r \in WorkerRows /\ order \in OrderRows /\ TypeOK
      /\ r.pc = "claim" /\ Active(r) /\ ~Creating(r)
      /\ UNCHANGED <<event, parcels, rejected, sms, desk, reconciled, overrun>>
      /\ onward \in {"create", "write"} /\ (onward = "create" <=> r.found = Null)
  BY <1>1 DEF DispatchInv, TypeOK, WorkerRows, ClaimOrder, Active, Creating
<1>3. rejected' \in BOOLEAN /\ sms' \in BOOLEAN
  BY <1>2 DEF TypeOK
<1>4. reconciled = {} => Heeds(r)
  BY <1>1 DEF DispatchInv, Undisturbed, Heed
\* It is left to the other worker.
<1>5. ASSUME order' = order, worker' = [worker EXCEPT ![w].pc = "done"],
             r.seen.consignment = Null \/ r.attempts = 1
      PROVE  DispatchInv'
  <2>0. PICK q : q = [r EXCEPT !.pc = "done"]
    OBVIOUS
  <2>1. /\ q \in WorkerRows /\ worker' = [worker EXCEPT ![w] = q]
        /\ q.pc = "done" /\ q.event = r.event /\ q.attempts = r.attempts
        /\ q.seen = r.seen /\ q.found = r.found
    BY <1>1, <1>2, <1>5, <2>0 DEF WorkerRows
  <2>2. HasFound(q) /\ ~Creating(q) /\ Active(q) /\ ~Keeps(r)
    BY <1>2, <1>5, <2>1, Values DEF HasFound, Creating, Active, Keeps
  <2>3. reconciled = {} => Heeds(q)
    BY <1>2, <1>4, <2>1 DEF Heeds
  <2>4. QED
    BY <1>1, <1>2, <1>3, <1>5, <2>1, <2>2, <2>3, GoesOn
\* A retry of an order seen with the sentinel: it has a shipment to write.
<1>6. ASSUME order' = order, worker' = [worker EXCEPT ![w].pc = onward],
             r.seen.consignment # Null, r.attempts # 1
      PROVE  DispatchInv'
  <2>0. PICK q : q = [r EXCEPT !.pc = onward]
    OBVIOUS
  <2>1. /\ q \in WorkerRows /\ worker' = [worker EXCEPT ![w] = q]
        /\ q.pc = onward /\ q.event = r.event /\ q.attempts = r.attempts
        /\ q.seen = r.seen /\ q.found = r.found
    BY <1>1, <1>2, <1>6, <2>0 DEF WorkerRows
  <2>2. HasFound(q) /\ Active(q) /\ Keeps(q)
    BY <1>2, <2>1 DEF HasFound, Active, Keeps
  <2>3. reconciled = {} => Heeds(q) /\ ~Creating(q)
    BY <1>2, <1>4, <1>6, <2>1 DEF Heeds, Creating, Active
  <2>4. QED
    BY <1>1, <1>2, <1>3, <1>6, <2>1, <2>2, <2>3, GoesOn
\* The sentinel is set.
<1>7. ASSUME SentinelFree, order' = [order EXCEPT !.consignment = PENDING_DISPATCH],
             worker' = [worker EXCEPT ![w].pc = onward]
      PROVE  DispatchInv'
  <2>0. PICK q : q = [r EXCEPT !.pc = onward]
    OBVIOUS
  <2>1. /\ q \in WorkerRows /\ worker' = [worker EXCEPT ![w] = q]
        /\ q.pc = onward /\ q.event = r.event /\ q.attempts = r.attempts
        /\ q.seen = r.seen /\ q.found = r.found
    BY <1>1, <1>2, <1>7, <2>0 DEF WorkerRows
  <2>2. \A v \in Workers : worker'[v] = IF v = w THEN q ELSE worker[v]
    BY <1>2, <2>1 DEF TypeOK
  <2>3. order' \in OrderRows /\ order'.consignment = PENDING_DISPATCH /\ order.consignment = Null
    BY <1>2, <1>7 DEF OrderRows, SentinelFree
  <2>4. HasFound(q) /\ Active(q)
    BY <1>2, <2>1 DEF HasFound, Active
  <2>5. TypeOK'
    BY <1>2, <1>3, <2>1, <2>3 DEF TypeOK, WorkerRows
  <2>6. Found'
    BY <2>2, <2>4 DEF DispatchInv, Found, HasFound
  <2>7. ASSUME reconciled = {}
        PROVE  Undisturbed'
    <3>1. Heed /\ Dispatched /\ (~overrun => Leased /\ Kept)
      BY <2>7 DEF DispatchInv, Undisturbed
    <3>2. NotRefused = {} /\ \A v \in Workers : ~Creating(worker[v])
      BY <2>3, <3>1 DEF Dispatched
    <3>3. Heeds(q)
      BY <1>2, <1>4, <2>1, <2>7 DEF Heeds, Active
    <3>4. Heed'
      BY <2>2, <3>1, <3>3 DEF Heed, Heeds, Active, Null, PENDING_DISPATCH
    <3>5. Dispatched'
      <4>1. NotRefused' = {} /\ order'.consignment # Null
        BY <1>2, <2>3, <3>2, Values DEF NotRefused
      <4>2. \A v \in Workers : Creating(worker'[v]) => v = w
        BY <2>2, <3>2
      <4>3. QED
        BY <4>1, <4>2 DEF Dispatched, Creating
    <3>6. ~overrun => Leased'
      BY <1>1, <1>2, <2>1, <3>1, LeaseGoesOn
    <3>7. ASSUME ~overrun
          PROVE  Kept'
      <4>1. PICK e : e = r.event
        OBVIOUS
      <4>2. /\ e \in Events /\ event[e].status = "processing" /\ r.attempts = event[e].attempts
            /\ r.attempts >= 1
            /\ \A v \in Workers : Active(worker[v]) /\ worker[v].event = e => v = w
        BY <1>1, <1>2, <3>1, <3>7, <4>1 DEF Leased
      <4>3. Keeps(q)
        BY <1>2, <2>1 DEF Keeps
      <4>4. \A v \in Workers : Active(worker'[v]) /\ worker'[v].event = e => Keeps(worker'[v])
        BY <2>2, <4>2, <4>3
      <4>5. event'[e].status \in {"pending", "processing", "failed"} /\ event'[e].attempts >= 1
        BY <1>2, <4>2
      <4>6. Keeper(e)'
        BY <4>4, <4>5 DEF Keeper, Active, Keeps
      <4>7. QED
        BY <4>2, <4>6 DEF Kept
    <3>8. QED
      BY <1>2, <3>4, <3>5, <3>6, <3>7 DEF Undisturbed
  <2>8. QED
    BY <1>2, <2>5, <2>6, <2>7 DEF DispatchInv
<1>8. QED
  BY <1>1, <1>5, <1>6, <1>7 DEF ClaimOrder, Goto

\* The courier answers; the first shipment it does not refuse is the only one.
LEMMA Creates ==
  ASSUME DispatchInv, NEW w \in Workers, Create(w)
  PROVE  DispatchInv'
<1>1. PICK r, id : r = worker[w] /\ id = NextParcel
  OBVIOUS
<1>2. /\ r \in WorkerRows /\ order \in OrderRows /\ parcels \subseteq ParcelRows /\ TypeOK
      /\ r.pc = "create" /\ Active(r) /\ Creating(r) /\ r.seen \in OrderRows
      /\ UNCHANGED <<order, event, sms, desk, reconciled, overrun>>
  BY <1>1 DEF DispatchInv, TypeOK, WorkerRows, Create, Active, Creating
<1>3. sms' \in BOOLEAN /\ rejected \in BOOLEAN
  BY <1>2 DEF TypeOK
<1>4. reconciled = {} => Heeds(r)
  BY <1>1 DEF DispatchInv, Undisturbed, Heed
\* It rejects, or there is no answer and no shipment.
<1>5. ASSUME NEW pc \in {"error", "release"}, worker' = [worker EXCEPT ![w].pc = pc],
             rejected' \in BOOLEAN, parcels' = parcels
      PROVE  DispatchInv'
  <2>0. PICK q : q = [r EXCEPT !.pc = pc]
    OBVIOUS
  <2>1. /\ q \in WorkerRows /\ worker' = [worker EXCEPT ![w] = q]
        /\ q.pc = pc /\ q.event = r.event /\ q.attempts = r.attempts
        /\ q.seen = r.seen /\ q.found = r.found
    BY <1>1, <1>2, <1>5, <2>0 DEF WorkerRows
  <2>2. HasFound(q) /\ Active(q) /\ Keeps(q)
    BY <2>1 DEF HasFound, Active, Keeps
  <2>3. reconciled = {} => Heeds(q)
    BY <1>2, <1>4, <2>1 DEF Heeds
  <2>4. QED
    BY <1>1, <1>2, <1>3, <1>5, <2>1, <2>2, <2>3, GoesOn
\* It accepts, and the answer may be lost or say the contrary.
<1>6. ASSUME NEW refused \in BOOLEAN, id \in ParcelIds, Accept(w, id, refused),
             rejected' \in BOOLEAN, NEW q \in WorkerRows, worker' = [worker EXCEPT ![w] = q],
             q.pc \in (IF refused THEN {"release"} ELSE {"write", "error"}), q.event = r.event, q.attempts = r.attempts,
             q.seen = r.seen, q.pc = "write" => q.found = id
      PROVE  DispatchInv'
  <2>1. PICK p : p = [id |-> id, collect |-> ~r.seen.paid, order |-> order, refused |-> refused]
    OBVIOUS
  <2>2. parcels' = parcels \cup {p}
    BY <1>1, <1>6, <2>1 DEF Accept
  <2>3. p \in ParcelRows
    <3>1. PICK collect \in BOOLEAN : collect = ~r.seen.paid
      OBVIOUS
    <3>2. p = [id |-> id, collect |-> collect, order |-> order, refused |-> refused]
      BY <2>1, <3>1
    <3>3. QED
      BY <1>2, <1>6, <3>2 DEF ParcelRows
  <2>4. \A v \in Workers : worker'[v] = IF v = w THEN q ELSE worker[v]
    BY <1>2, <1>6 DEF TypeOK
  <2>5. TypeOK'
    BY <1>2, <1>3, <1>6, <2>2, <2>3 DEF TypeOK, WorkerRows
  <2>6. Found'
    <3>1. HasFound(q)
      BY <1>6, Values DEF HasFound
    <3>2. QED
      BY <2>4, <3>1 DEF DispatchInv, Found, HasFound
  <2>7. ASSUME reconciled = {}
        PROVE  Undisturbed'
    <3>1. Heed /\ Dispatched /\ (~overrun => Leased /\ Kept)
      BY <2>7 DEF DispatchInv, Undisturbed
    <3>2. /\ NotRefused = {} /\ order.consignment # Null
          /\ \A v \in Workers : Creating(worker[v]) => v = w
      BY <1>1, <1>2, <3>1 DEF Dispatched
    <3>3. Heeds(q)
      BY <1>2, <1>4, <1>6, <2>7 DEF Heeds
    <3>4. Heed'
      BY <2>4, <3>1, <3>3 DEF Heed, Heeds, Active, Null, PENDING_DISPATCH
    <3>5. Dispatched'
      <4>1. order'.consignment # Null /\ \A v \in Workers : Creating(worker'[v]) => v = w
        BY <1>2, <2>4, <3>2
      <4>2. p.refused = refused
        BY <2>1
      <4>3. CASE refused
        <5>1. NotRefused' = {}
          BY <2>2, <3>2, <4>2, <4>3 DEF NotRefused
        <5>2. QED
          BY <4>1, <5>1 DEF Dispatched, Creating
      <4>4. CASE ~refused
        <5>1. NotRefused' \subseteq {p}
          BY <2>2, <3>2 DEF NotRefused
        <5>2. \A v \in Workers : ~Creating(worker'[v])
          BY <1>6, <2>4, <3>2, <4>4 DEF Creating
        <5>3. QED
          BY <4>1, <5>1, <5>2 DEF Dispatched, Creating
      <4>5. QED
        BY <4>3, <4>4
    <3>6. ~overrun => Leased'
      BY <1>1, <1>2, <1>6, <3>1, LeaseGoesOn
    <3>7. Keeps(q)
      BY <1>6 DEF Keeps
    <3>8. ~overrun => Kept'
      <4>1. CASE Unlinked
        BY <1>1, <1>2, <1>6, <3>1, <3>7, <4>1, KeeperGoesOn
      <4>2. CASE ~Unlinked
        BY <1>2, <4>2 DEF Kept, Unlinked
      <4>3. QED
        BY <4>1, <4>2
    <3>9. QED
      BY <1>2, <3>4, <3>5, <3>6, <3>8 DEF Undisturbed
  <2>8. QED
    BY <1>2, <2>5, <2>6, <2>7 DEF DispatchInv
<1>7. ASSUME id \in ParcelIds, Accept(w, id, FALSE), rejected' = rejected,
             worker' = [worker EXCEPT ![w].found = id, ![w].pc = "write"]
      PROVE  DispatchInv'
  <2>1. PICK q : q = [r EXCEPT !.found = id, !.pc = "write"]
    OBVIOUS
  <2>2. worker' = [worker EXCEPT ![w] = q]
    BY <1>1, <1>2, <1>7, <2>1 DEF WorkerRows
  <2>3. /\ q \in WorkerRows /\ q.pc = "write" /\ q.event = r.event /\ q.attempts = r.attempts
        /\ q.seen = r.seen /\ q.found = id
    BY <1>2, <1>7, <2>1 DEF WorkerRows
  <2>4. QED
    BY <1>3, <1>6, <1>7, <2>2, <2>3
<1>8. ASSUME NEW refused \in BOOLEAN, id \in ParcelIds, Accept(w, id, refused),
             rejected' \in BOOLEAN, NEW pc, pc = (IF refused THEN "release" ELSE "error"),
             worker' = [worker EXCEPT ![w].pc = pc]
      PROVE  DispatchInv'
  <2>0. PICK q : q = [r EXCEPT !.pc = pc]
    OBVIOUS
  <2>1. /\ q \in WorkerRows /\ worker' = [worker EXCEPT ![w] = q]
        /\ q.pc = pc /\ q.event = r.event /\ q.attempts = r.attempts
        /\ q.seen = r.seen /\ q.found = r.found
    BY <1>1, <1>2, <1>8, <2>0 DEF WorkerRows
  <2>2. QED
    BY <1>6, <1>8, <2>1
<1>9. QED
  <2>1. TRUE \in BOOLEAN /\ FALSE \in BOOLEAN
    OBVIOUS
  <2>2. CASE /\ id \in ParcelIds /\ Accept(w, id, FALSE) /\ rejected' = rejected
             /\ worker' = [worker EXCEPT ![w].found = id, ![w].pc = "write"]
    BY <1>7, <2>2
  <2>3. CASE /\ id \in ParcelIds /\ Accept(w, id, FALSE) /\ rejected' = rejected
             /\ worker' = [worker EXCEPT ![w].pc = "error"]
    BY <1>3, <1>8, <2>1, <2>3
  <2>4. CASE /\ parcels' = parcels /\ rejected' = rejected
             /\ worker' = [worker EXCEPT ![w].pc = "error"]
    BY <1>3, <1>5, <2>4
  <2>5. CASE /\ parcels' = parcels /\ rejected' = TRUE
             /\ worker' = [worker EXCEPT ![w].pc = "release"]
    BY <1>5, <2>5
  <2>6. CASE /\ id \in ParcelIds /\ Accept(w, id, TRUE) /\ rejected' = TRUE
             /\ worker' = [worker EXCEPT ![w].pc = "release"]
    BY <1>8, <2>1, <2>6
  <2>7. QED
    BY <1>1, <2>2, <2>3, <2>4, <2>5, <2>6 DEF Create, Goto

\* A handler that is done with the courier writes the order and goes on.
LEMMA Writes ==
  ASSUME DispatchInv, NEW w \in Workers, NEW q \in WorkerRows, worker' = [worker EXCEPT ![w] = q],
         Active(worker[w]), q.pc \in {"error", "notify"}, q.event = worker[w].event,
         q.attempts = worker[w].attempts, q.found = worker[w].found,
         UNCHANGED <<event, parcels, rejected, sms, desk, reconciled, overrun>>,
         order' \in OrderRows, order'.consignment # PENDING_DISPATCH,
         reconciled = {} =>
           \/ order'.consignment # Null
           \/ NotRefused = {} /\ \A v \in Workers : Creating(worker[v]) => v = w
  PROVE  DispatchInv'
<1>1. \A v \in Workers : worker'[v] = IF v = w THEN q ELSE worker[v]
  BY DEF DispatchInv, TypeOK
<1>2. TypeOK /\ TypeOK'
  BY DEF DispatchInv, TypeOK, WorkerRows
<1>3. HasFound(q) /\ ~Creating(q) /\ Active(q)
  BY DEF HasFound, Creating, Active
<1>4. Found'
  BY <1>1, <1>3 DEF DispatchInv, Found, HasFound
<1>5. ASSUME reconciled = {}
      PROVE  Undisturbed'
  <2>1. Heed /\ Dispatched /\ (~overrun => Leased)
    BY <1>5 DEF DispatchInv, Undisturbed
  <2>2. Heed'
    BY <1>1, <2>1 DEF Heed, Heeds, Active, Null, PENDING_DISPATCH
  <2>3. Dispatched'
    <3>1. \A v \in Workers : Creating(worker'[v]) => Creating(worker[v]) /\ v # w
      BY <1>1, <1>3
    <3>2. NotRefused' = NotRefused
      BY DEF NotRefused
    <3>3. QED
      BY <1>5, <2>1, <3>1, <3>2 DEF Dispatched, Creating
  <2>4. ~overrun => Leased'
    BY <1>2, <2>1, LeaseGoesOn
  <2>5. Kept'
    BY DEF Kept, Unlinked
  <2>6. QED
    BY <2>2, <2>3, <2>4, <2>5 DEF Undisturbed
<1>6. QED
  BY <1>2, <1>4, <1>5 DEF DispatchInv

\* Who was rejected had set the sentinel, and no other shipment is known of.
LEMMA Releasing ==
  ASSUME DispatchInv, NEW w \in Workers, Release(w)
  PROVE  DispatchInv'
<1>1. PICK r : r = worker[w]
  OBVIOUS
<1>2. PICK q : q = [r EXCEPT !.pc = "error"]
  OBVIOUS
<1>3. /\ r \in WorkerRows /\ order \in OrderRows /\ r.pc = "release" /\ Active(r) /\ Creating(r)
      /\ order' = IF Releases THEN [order EXCEPT !.consignment = Null] ELSE order
      /\ worker' = [worker EXCEPT ![w].pc = "error"]
      /\ UNCHANGED <<event, parcels, rejected, sms, desk, reconciled, overrun>>
  BY <1>1 DEF DispatchInv, TypeOK, WorkerRows, Release, Goto, Active, Creating
<1>4. /\ q \in WorkerRows /\ worker' = [worker EXCEPT ![w] = q]
      /\ q.pc = "error" /\ q.event = r.event /\ q.attempts = r.attempts /\ q.found = r.found
  BY <1>1, <1>2, <1>3 DEF WorkerRows
<1>5. order' \in OrderRows /\ order'.consignment # PENDING_DISPATCH
  BY <1>3, Values DEF Releases, OrderRows
<1>6. ASSUME reconciled = {}
      PROVE  NotRefused = {} /\ \A v \in Workers : Creating(worker[v]) => v = w
  BY <1>1, <1>3, <1>6 DEF DispatchInv, Undisturbed, Dispatched
<1>7. QED
  BY <1>1, <1>3, <1>4, <1>5, <1>6, Writes

\* Who writes a shipment has found one.
LEMMA WritesTracking ==
  ASSUME DispatchInv, NEW w \in Workers, WriteTracking(w)
  PROVE  DispatchInv'
<1>1. PICK r : r = worker[w]
  OBVIOUS
<1>2. PICK q : q = [r EXCEPT !.pc = "notify"]
  OBVIOUS
<1>3. /\ r \in WorkerRows /\ order \in OrderRows /\ r.pc = "write" /\ Active(r) /\ HasFound(r)
      /\ order' = [order EXCEPT !.consignment = r.found]
      /\ worker' = [worker EXCEPT ![w].pc = "notify"]
      /\ UNCHANGED <<event, parcels, rejected, sms, desk, reconciled, overrun>>
  BY <1>1 DEF DispatchInv, Found, TypeOK, WorkerRows, WriteTracking, Goto, Active
<1>4. /\ q \in WorkerRows /\ worker' = [worker EXCEPT ![w] = q]
      /\ q.pc = "notify" /\ q.event = r.event /\ q.attempts = r.attempts /\ q.found = r.found
  BY <1>1, <1>2, <1>3 DEF WorkerRows
<1>5. r.found \in ParcelIds /\ r.found # Null
  BY <1>3 DEF HasFound, WorkerRows
<1>6. order' \in OrderRows /\ order'.consignment = r.found
  BY <1>3, <1>5 DEF OrderRows
<1>7. order'.consignment # PENDING_DISPATCH /\ order'.consignment # Null
  BY <1>5, <1>6, Values
<1>8. QED
  BY <1>1, <1>3, <1>4, <1>6, <1>7, Writes

LEMMA Notifies ==
  ASSUME DispatchInv, NEW w \in Workers, QueueSms(w)
  PROVE  DispatchInv'
<1>1. PICK r : r = worker[w]
  OBVIOUS
<1>2. PICK q : q = [r EXCEPT !.pc = "done"]
  OBVIOUS
<1>3. /\ r \in WorkerRows /\ r.pc = "notify" /\ Active(r) /\ TypeOK
      /\ worker' = [worker EXCEPT ![w].pc = "done"] /\ sms' = TRUE
      /\ UNCHANGED <<order, event, parcels, rejected, desk, reconciled, overrun>>
  BY <1>1 DEF DispatchInv, TypeOK, WorkerRows, QueueSms, Goto, Active
<1>4. /\ q \in WorkerRows /\ worker' = [worker EXCEPT ![w] = q]
      /\ q.pc = "done" /\ q.event = r.event /\ q.attempts = r.attempts
      /\ q.seen = r.seen /\ q.found = r.found
  BY <1>1, <1>2, <1>3 DEF WorkerRows
<1>5. rejected' \in BOOLEAN /\ sms' \in BOOLEAN
  BY <1>3 DEF TypeOK
<1>6. HasFound(q) /\ ~Creating(q) /\ ~Keeps(r)
  BY <1>3, <1>4 DEF HasFound, Creating, Keeps
<1>7. reconciled = {} => Heeds(q)
  BY <1>1, <1>3, <1>4 DEF DispatchInv, Undisturbed, Heed, Heeds, Active, Dispatched
<1>8. QED
  BY <1>1, <1>3, <1>4, <1>5, <1>6, <1>7, GoesOn

-----------------------------------------------------------------------------
(* The claims of an event *)

\* Worker w starts or stops; its row holds no shipment, and nobody else's changes.
LEMMA StartsOrStops ==
  ASSUME DispatchInv, NEW w \in Workers, NEW q \in WorkerRows, worker' = [worker EXCEPT ![w] = q],
         UNCHANGED <<order, parcels, rejected, sms, desk, reconciled, overrun>>,
         event' \in [Events -> EventRows],
         q.pc \in {"idle", "read"}, q.found = Null, q.pc = "read" => q.attempts >= 1
  PROVE  /\ \A v \in Workers : worker'[v] = IF v = w THEN q ELSE worker[v]
         /\ TypeOK' /\ Found'
         /\ reconciled = {} => Heed' /\ Dispatched'
<1>1. \A v \in Workers : worker'[v] = IF v = w THEN q ELSE worker[v]
  BY DEF DispatchInv, TypeOK
<1>2. TypeOK'
  BY DEF DispatchInv, TypeOK, WorkerRows, EventRows
<1>3. HasFound(q) /\ Heeds(q) /\ ~Creating(q)
  BY DEF HasFound, Heeds, Creating, Active
<1>4. Found'
  BY <1>1, <1>3 DEF DispatchInv, Found, HasFound
<1>5. ASSUME reconciled = {}
      PROVE  Heed' /\ Dispatched'
  <2>1. Heed /\ Dispatched
    BY <1>5 DEF DispatchInv, Undisturbed
  <2>2. Heed'
    BY <1>1, <1>3, <2>1 DEF Heed, Heeds, Active, Null, PENDING_DISPATCH
  <2>3. \A v \in Workers : Creating(worker'[v]) => Creating(worker[v])
    BY <1>1, <1>3
  <2>5. Dispatched'
    BY <2>1, <2>3 DEF Dispatched, Creating, NotRefused
  <2>6. QED
    BY <2>2, <2>5
<1>6. QED
  BY <1>1, <1>2, <1>4, <1>5

\* Nobody is at work on a pending event; a claim of a keeper is a retry.
LEMMA Begins ==
  ASSUME DispatchInv, NEW w \in Workers, NEW e \in Events, Begin(w, e)
  PROVE  DispatchInv'
<1>1. PICK n : n = event[e].attempts + 1
  OBVIOUS
<1>2. PICK q : q = [Idle EXCEPT !.pc = "read", !.event = e, !.attempts = n]
  OBVIOUS
<1>3. PICK row : row = [status |-> "processing", attempts |-> n]
  OBVIOUS
<1>4. /\ TypeOK /\ event[e] \in EventRows /\ event[e].status = "pending"
      /\ event[e].attempts \in 0..MAX_ATTEMPTS /\ event[e].attempts < MAX_ATTEMPTS
      /\ ~Active(worker[w])
      /\ UNCHANGED <<order, parcels, rejected, sms, desk, reconciled, overrun>>
  BY DEF DispatchInv, TypeOK, EventRows, Begin, Active
<1>5. n \in 0..MAX_ATTEMPTS /\ n >= 1 /\ (event[e].attempts >= 1 => n >= 2)
  BY <1>1, <1>4, CourierAssumption
<1>6. event' = [event EXCEPT ![e] = row] /\ worker' = [worker EXCEPT ![w] = q]
  BY <1>1, <1>2, <1>3 DEF Begin
<1>7. row \in EventRows /\ row.status = "processing" /\ row.attempts = n
  BY <1>3, <1>5 DEF EventRows
<1>8. /\ q \in WorkerRows /\ q.pc = "read" /\ q.event = e /\ q.attempts = n /\ q.found = Null
  BY <1>2, <1>5, IdleIs DEF WorkerRows
<1>9. /\ event' \in [Events -> EventRows]
      /\ \A f \in Events : event'[f] = IF f = e THEN row ELSE event[f]
  BY <1>4, <1>6, <1>7 DEF TypeOK, EventRows
<1>10. /\ \A v \in Workers : worker'[v] = IF v = w THEN q ELSE worker[v]
       /\ TypeOK' /\ Found' /\ (reconciled = {} => Heed' /\ Dispatched')
  BY <1>4, <1>5, <1>6, <1>8, <1>9, StartsOrStops
<1>11. ASSUME reconciled = {}, ~overrun
       PROVE  Leased' /\ Kept'
  <2>1. Leased /\ Kept
    BY <1>11 DEF DispatchInv, Undisturbed
  <2>2. \A v \in Workers : Active(worker[v]) => v # w /\ worker[v].event # e
    BY <1>4, <2>1 DEF Leased
  <2>3. Leased'
    <3>1. ASSUME NEW v \in Workers, Active(worker'[v])
          PROVE  /\ worker'[v].event \in Events /\ event'[worker'[v].event].status = "processing"
                 /\ worker'[v].attempts = event'[worker'[v].event].attempts
                 /\ worker'[v].attempts >= 1
                 /\ \A u \in Workers : Active(worker'[u]) /\ worker'[u].event = worker'[v].event => u = v
      <4>1. CASE v = w
        BY <1>5, <1>7, <1>8, <1>9, <1>10, <2>2, <4>1
      <4>2. CASE v # w
        <5>1. worker'[v] = worker[v] /\ Active(worker[v]) /\ worker[v].event # e
          BY <1>10, <2>2, <3>1, <4>2
        <5>2. /\ worker[v].event \in Events /\ event[worker[v].event].status = "processing"
              /\ worker[v].attempts = event[worker[v].event].attempts /\ worker[v].attempts >= 1
              /\ \A u \in Workers : Active(worker[u]) /\ worker[u].event = worker[v].event => u = v
          BY <2>1, <5>1 DEF Leased
        <5>3. \A u \in Workers : Active(worker'[u]) /\ worker'[u].event = worker[v].event => u = v
          BY <1>8, <1>10, <5>1, <5>2
        <5>4. QED
          BY <1>9, <5>1, <5>2, <5>3
      <4>3. QED
        BY <4>1, <4>2
    <3>2. QED
      BY <3>1 DEF Leased, Active
  <2>4. Kept'
    <3>1. CASE ~Unlinked
      BY <1>4, <3>1 DEF Kept, Unlinked
    <3>2. CASE Unlinked
      <4>1. PICK f \in Events : Keeper(f)
        BY <2>1, <3>2 DEF Kept
      <4>2. ASSUME NEW v \in Workers, Active(worker'[v]), worker'[v].event = f
            PROVE  Keeps(worker'[v])
        <5>1. CASE v = w
          <6>1. n >= 2
            BY <1>5, <1>8, <1>10, <4>1, <4>2, <5>1 DEF Keeper
          <6>2. Keeps(q)
            BY <1>8, <6>1 DEF Keeps
          <6>3. QED
            BY <1>10, <5>1, <6>2
        <5>2. CASE v # w
          BY <1>10, <4>1, <4>2, <5>2 DEF Keeper
        <5>3. QED
          BY <5>1, <5>2
      <4>3. event'[f].status \in {"pending", "processing", "failed"} /\ event'[f].attempts >= 1
        BY <1>5, <1>7, <1>9, <4>1 DEF Keeper
      <4>4. Keeper(f)'
        BY <4>2, <4>3 DEF Keeper, Active, Keeps
      <4>5. QED
        BY <4>4 DEF Kept
    <3>3. QED
      BY <3>1, <3>2
  <2>5. QED
    BY <2>3, <2>4
<1>12. QED
  BY <1>4, <1>10, <1>11 DEF DispatchInv, Undisturbed

\* Worker w stops, and leaves a keeper among the events one.
LEMMA Stops ==
  ASSUME DispatchInv, NEW w \in Workers, worker' = [worker EXCEPT ![w] = Idle], Active(worker[w]),
         UNCHANGED <<order, parcels, rejected, sms, desk, reconciled, overrun>>,
         event' \in [Events -> EventRows],
         \A f \in Events : /\ event'[f].attempts = event[f].attempts
                           /\ f # worker[w].event => event'[f] = event[f],
         reconciled = {} /\ ~overrun /\ worker[w].event \in Events /\ Keeper(worker[w].event) =>
           event'[worker[w].event].status \in {"pending", "processing", "failed"}
  PROVE  DispatchInv'
<1>1. Idle \in WorkerRows /\ Idle.pc = "idle" /\ Idle.found = Null /\ ~Active(Idle)
  BY IdleIs DEF Idle, Active
<1>2. /\ \A v \in Workers : worker'[v] = IF v = w THEN Idle ELSE worker[v]
      /\ TypeOK' /\ Found' /\ (reconciled = {} => Heed' /\ Dispatched')
  BY <1>1, StartsOrStops
<1>3. \A v \in Workers : Active(worker'[v]) => v # w /\ worker'[v] = worker[v] /\ Active(worker[v])
  BY <1>1, <1>2
<1>4. ASSUME reconciled = {}, ~overrun
      PROVE  Leased' /\ Kept'
  <2>1. Leased /\ Kept
    BY <1>4 DEF DispatchInv, Undisturbed
  <2>2. Leased'
    <3>1. ASSUME NEW v \in Workers, Active(worker'[v])
          PROVE  /\ worker'[v].event \in Events /\ event'[worker'[v].event].status = "processing"
                 /\ worker'[v].attempts = event'[worker'[v].event].attempts
                 /\ worker'[v].attempts >= 1
                 /\ \A u \in Workers : Active(worker'[u]) /\ worker'[u].event = worker'[v].event => u = v
      <4>1. v # w /\ worker'[v] = worker[v] /\ Active(worker[v])
        BY <1>3, <3>1
      <4>2. /\ worker[v].event \in Events /\ event[worker[v].event].status = "processing"
            /\ worker[v].attempts = event[worker[v].event].attempts /\ worker[v].attempts >= 1
            /\ \A u \in Workers : Active(worker[u]) /\ worker[u].event = worker[v].event => u = v
        BY <2>1, <4>1 DEF Leased
      <4>3. event'[worker[v].event] = event[worker[v].event]
        BY <4>1, <4>2
      <4>4. \A u \in Workers : Active(worker'[u]) /\ worker'[u].event = worker[v].event => u = v
        BY <1>3, <4>2
      <4>5. QED
        BY <4>1, <4>2, <4>3, <4>4
    <3>2. QED
      BY <3>1 DEF Leased, Active
  <2>3. Kept'
    <3>1. CASE ~Unlinked
      BY <3>1 DEF Kept, Unlinked
    <3>2. CASE Unlinked
      <4>1. PICK f \in Events : Keeper(f)
        BY <2>1, <3>2 DEF Kept
      <4>2. \A v \in Workers : Active(worker'[v]) /\ worker'[v].event = f => Keeps(worker'[v])
        BY <1>3, <4>1 DEF Keeper
      <4>3. event'[f].status \in {"pending", "processing", "failed"}
        BY <1>4, <4>1 DEF Keeper
      <4>4. event'[f].attempts >= 1
        BY <4>1 DEF Keeper
      <4>5. Keeper(f)'
        BY <4>2, <4>3, <4>4 DEF Keeper, Active, Keeps
      <4>6. QED
        BY <4>5 DEF Kept
    <3>3. QED
      BY <3>1, <3>2
  <2>4. QED
    BY <2>2, <2>3
<1>5. QED
  BY <1>2, <1>4 DEF DispatchInv, Undisturbed

LEMMA Crashes ==
  ASSUME DispatchInv, NEW w \in Workers, Crash(w)
  PROVE  DispatchInv'
<1>1. /\ worker' = [worker EXCEPT ![w] = Idle] /\ Active(worker[w])
      /\ UNCHANGED <<order, event, parcels, rejected, sms, desk, reconciled, overrun>>
  BY DEF Crash, Active
<1>2. event' \in [Events -> EventRows]
  BY <1>1 DEF DispatchInv, TypeOK, EventRows
<1>3. worker[w].event \in Events /\ Keeper(worker[w].event) =>
        event'[worker[w].event].status \in {"pending", "processing", "failed"}
  BY <1>1 DEF Keeper
<1>4. QED
  BY <1>1, <1>2, <1>3, Stops

\* A handler of a keeper has an error to report, and so keeps its event open.
LEMMA Settles ==
  ASSUME DispatchInv, NEW w \in Workers, Settle(w)
  PROVE  DispatchInv'
<1>1. PICK r, e, status : r = worker[w] /\ e = r.event /\ status = FinalWrite(w)
  OBVIOUS
<1>2. /\ TypeOK /\ r \in WorkerRows /\ r.pc \in {"done", "error", "fatal"} /\ Active(r)
      /\ event' = [event EXCEPT ![e].status = status]
      /\ worker' = [worker EXCEPT ![w] = Idle]
      /\ UNCHANGED <<order, parcels, rejected, sms, desk, reconciled, overrun>>
      /\ \A f \in Events : event[f] \in EventRows
  BY <1>1 DEF DispatchInv, TypeOK, WorkerRows, EventRows, Settle, Active
<1>3. \/ status = event[e].status
      \/ status = "completed" /\ r.pc = "done"
      \/ status \in {"pending", "failed"}
  BY <1>1 DEF FinalWrite, FinalStatus
<1>4. CASE e \in Events
  <2>1. PICK row : row = [event[e] EXCEPT !.status = status]
    OBVIOUS
  <2>2. /\ status \in {"absent", "pending", "processing", "completed", "failed"}
        /\ event[e] \in EventRows
    BY <1>2, <1>3, <1>4 DEF EventRows
  <2>3. row \in EventRows /\ row.status = status /\ row.attempts = event[e].attempts
    BY <2>1, <2>2 DEF EventRows
  <2>4. event' = [event EXCEPT ![e] = row]
    BY <1>2, <2>1
  <2>5. /\ event' \in [Events -> EventRows]
        /\ \A f \in Events : event'[f] = IF f = e THEN row ELSE event[f]
    <3>1. event \in [Events -> EventRows]
      BY <1>2 DEF TypeOK, EventRows
    <3>2. row \in EventRows
      BY <2>3
    <3>3. QED
      BY <2>4, <3>1, <3>2
  <2>6. Keeper(e) => status \in {"pending", "processing", "failed"}
    <3>1. ASSUME Keeper(e)
          PROVE  r.pc # "done" /\ event[e].status \in {"pending", "processing", "failed"}
      BY <1>1, <1>2, <3>1 DEF Keeper, Keeps
    <3>2. QED
      BY <1>3, <3>1
  <2>7. QED
    BY <1>1, <1>2, <2>3, <2>5, <2>6, Stops
<1>5. CASE e \notin Events
  <2>1. event' = event
    BY <1>2, <1>5 DEF TypeOK
  <2>2. event' \in [Events -> EventRows]
    BY <1>2, <2>1 DEF TypeOK, EventRows
  <2>3. QED
    BY <1>1, <1>2, <1>5, <2>1, <2>2, Stops
<1>6. QED
  BY <1>4, <1>5

\* A row of the events changes, of which nobody is at work within the lease, and
\* a keeper stays open.
LEMMA EventChanges ==
  ASSUME DispatchInv, NEW e \in Events, NEW row \in EventRows, event' = [event EXCEPT ![e] = row],
         row.attempts = event[e].attempts, row.status \in {"pending", "failed"},
         order' \in OrderRows, order'.consignment = order.consignment,
         (order'.status = "cancelled") = (order.status = "cancelled"),
         UNCHANGED <<worker, parcels, rejected, sms, desk, reconciled>>, overrun' \in BOOLEAN,
         ~overrun' => ~overrun,
         ~overrun' /\ Leased => \A w \in Workers : Active(worker[w]) => worker[w].event # e
  PROVE  DispatchInv'
<1>1. /\ event' \in [Events -> EventRows]
      /\ \A f \in Events : event'[f] = IF f = e THEN row ELSE event[f]
  BY DEF DispatchInv, TypeOK, EventRows
<1>2. TypeOK' /\ Found'
  BY <1>1 DEF DispatchInv, TypeOK, EventRows, Found, HasFound
<1>3. ASSUME reconciled = {}
      PROVE  Undisturbed'
  <2>1. Heed /\ Dispatched /\ (~overrun => Leased /\ Kept)
    BY <1>3 DEF DispatchInv, Undisturbed
  <2>2. Heed'
    BY <2>1 DEF Heed, Heeds, Active, Null, PENDING_DISPATCH
  <2>3. Dispatched'
    BY <2>1 DEF Dispatched, Creating, NotRefused
  <2>4. ASSUME ~overrun'
        PROVE  Leased' /\ Kept'
    <3>1. Leased /\ Kept
      BY <2>1, <2>4
    <3>2. \A w \in Workers : Active(worker[w]) => event'[worker[w].event] = event[worker[w].event]
      BY <1>1, <2>4, <3>1 DEF Leased
    <3>3. Leased'
      BY <3>1, <3>2 DEF Leased, Active
    <3>4. Kept'
      <4>1. CASE ~Unlinked
        BY <4>1 DEF Kept, Unlinked
      <4>2. CASE Unlinked
        <5>1. PICK f \in Events : Keeper(f)
          BY <3>1, <4>2 DEF Kept
        <5>2. event'[f].status \in {"pending", "processing", "failed"} /\ event'[f].attempts >= 1
          BY <1>1, <5>1 DEF Keeper
        <5>3. Keeper(f)'
          BY <5>1, <5>2 DEF Keeper, Active, Keeps
        <5>4. QED
          BY <5>3 DEF Kept
      <4>3. QED
        BY <4>1, <4>2
    <3>5. QED
      BY <3>3, <3>4
  <2>5. QED
    BY <2>2, <2>3, <2>4 DEF Undisturbed
<1>4. QED
  BY <1>2, <1>3 DEF DispatchInv

\* Who is at work under the claim that is recovered has overrun its lease.
LEMMA Recovers ==
  ASSUME DispatchInv, NEW e \in Events, Recover(e)
  PROVE  DispatchInv'
<1>1. PICK status, row :
        /\ status = IF event[e].attempts < MAX_ATTEMPTS THEN "pending" ELSE "failed"
        /\ row = [event[e] EXCEPT !.status = status]
  OBVIOUS
<1>2. /\ TypeOK /\ event[e] \in EventRows /\ overrun' = (overrun \/ AtWork(e))
      /\ event' = [event EXCEPT ![e] = row]
      /\ UNCHANGED <<order, worker, parcels, rejected, sms, desk, reconciled>>
  BY <1>1 DEF DispatchInv, TypeOK, EventRows, Recover
<1>3. row \in EventRows /\ row.attempts = event[e].attempts /\ row.status \in {"pending", "failed"}
  BY <1>1, <1>2 DEF EventRows
<1>4. overrun' \in BOOLEAN /\ (~overrun' => ~overrun /\ ~AtWork(e))
  BY <1>2 DEF TypeOK
<1>5. ~overrun' /\ Leased => \A w \in Workers : Active(worker[w]) => worker[w].event # e
  BY <1>4 DEF Leased, AtWork
<1>6. order' \in OrderRows /\ order' = order
  BY <1>2 DEF TypeOK
<1>7. QED
  BY <1>2, <1>3, <1>4, <1>5, <1>6, EventChanges

\* Nobody is at work on an event that is not there yet.
LEMMA Ships ==
  ASSUME DispatchInv, NEW e \in Events, Ship(e)
  PROVE  DispatchInv'
<1>1. PICK row : row = [event[e] EXCEPT !.status = "pending"]
  OBVIOUS
<1>2. /\ TypeOK /\ event[e] \in EventRows /\ order \in OrderRows
      /\ event[e].status = "absent" /\ order.status = "processing"
      /\ event' = [event EXCEPT ![e] = row]
      /\ order' = [order EXCEPT !.status = "shipped"]
      /\ UNCHANGED <<worker, parcels, rejected, sms, desk, reconciled, overrun>>
  BY <1>1 DEF DispatchInv, TypeOK, EventRows, Ship
<1>3. row \in EventRows /\ row.attempts = event[e].attempts /\ row.status = "pending"
  BY <1>1, <1>2 DEF EventRows
<1>4. order' \in OrderRows /\ order'.consignment = order.consignment /\ order'.status = "shipped"
  BY <1>2 DEF OrderRows
<1>5. overrun' \in BOOLEAN /\ (~overrun' => ~overrun)
  BY <1>2 DEF TypeOK
<1>6. Leased => \A w \in Workers : Active(worker[w]) => worker[w].event # e
  BY <1>2 DEF Leased
<1>7. (order'.status = "cancelled") = (order.status = "cancelled")
  BY <1>2, <1>4
<1>8. QED
  BY <1>2, <1>3, <1>4, <1>5, <1>6, <1>7, EventChanges

\* The order is paid, or cancelled for good.
LEMMA OrderChanges ==
  ASSUME DispatchInv, PaymentArrives \/ CancelOrder
  PROVE  DispatchInv'
<1>2. order \in OrderRows /\ TypeOK
      /\ UNCHANGED <<event, worker, parcels, rejected, sms, desk, reconciled, overrun>>
  BY DEF DispatchInv, TypeOK, PaymentArrives, CancelOrder
<1>3. /\ order' \in OrderRows /\ order'.consignment = order.consignment
      /\ order.status = "cancelled" => order'.status = "cancelled"
  BY <1>2 DEF PaymentArrives, CancelOrder, OrderRows
<1>4. TypeOK' /\ Found'
  BY <1>2, <1>3 DEF DispatchInv, TypeOK, Found, HasFound
<1>5. ASSUME reconciled = {}
      PROVE  Undisturbed'
  <2>1. Heed /\ Dispatched /\ (~overrun => Leased /\ Kept)
    BY <1>5 DEF DispatchInv, Undisturbed
  <2>2. Heed'
    BY <1>2, <2>1 DEF Heed, Heeds, Active, Null, PENDING_DISPATCH
  <2>3. Dispatched'
    BY <1>2, <1>3, <2>1 DEF Dispatched, Creating, NotRefused
  <2>4. ~overrun' => Leased'
    BY <1>2, <2>1 DEF Leased, Active
  <2>5. ~overrun' => Kept'
    <3>1. ASSUME NEW f \in Events, Keeper(f)
          PROVE  Keeper(f)'
      BY <1>2, <3>1 DEF Keeper, Active, Keeps
    <3>2. Unlinked' => Unlinked
      BY <1>3 DEF Unlinked
    <3>3. QED
      BY <1>2, <2>1, <3>1, <3>2 DEF Kept
  <2>6. QED
    BY <2>2, <2>3, <2>4, <2>5 DEF Undisturbed
<1>6. QED
  BY <1>2, <1>4, <1>5 DEF DispatchInv

-----------------------------------------------------------------------------
(* The admins *)

\* An admin opens or leaves an event.
LEMMA DeskChanges ==
  ASSUME DispatchInv, desk' \in [Admins -> Events \cup {NoEvent}],
         UNCHANGED <<order, event, worker, parcels, rejected, sms, reconciled, overrun>>
  PROVE  DispatchInv'
<1>1. TypeOK' /\ Found'
  BY DEF DispatchInv, TypeOK, Found, HasFound
<1>2. Heed => Heed'
  BY DEF Heed, Heeds, Active, Null, PENDING_DISPATCH
<1>3. Dispatched => Dispatched'
  BY DEF Dispatched, Creating, NotRefused
<1>4. Leased => Leased'
  BY DEF Leased, Active
<1>5. Kept => Kept'
  BY DEF Kept, Unlinked, Keeper, Active, Keeps
<1>6. QED
  BY <1>1, <1>2, <1>3, <1>4, <1>5 DEF DispatchInv, Undisturbed

LEMMA OpensCase ==
  ASSUME DispatchInv, NEW a \in Admins, NEW e \in Events, OpenCase(a, e)
  PROVE  DispatchInv'
<1>1. desk' \in [Admins -> Events \cup {NoEvent}]
  BY DEF DispatchInv, TypeOK, OpenCase
<1>2. QED
  BY <1>1, DeskChanges DEF OpenCase

LEMMA ClosesCase ==
  ASSUME DispatchInv, NEW a \in Admins, CloseCase(a)
  PROVE  DispatchInv'
<1>1. desk' \in [Admins -> Events \cup {NoEvent}]
  BY DEF DispatchInv, TypeOK, CloseCase
<1>2. QED
  BY <1>1, DeskChanges DEF CloseCase

\* After a resolution only the types and the finds of the handlers are claimed.
LEMMA Resolves ==
  ASSUME DispatchInv, NEW a \in Admins, NEW eventRow, NEW orderRow \in OrderRows,
         Resolve(a, eventRow, orderRow), desk[a] \in Events => eventRow \in EventRows
  PROVE  DispatchInv'
<1>1. PICK e : e = desk[a]
  OBVIOUS
<1>2. /\ TypeOK /\ e \in Events /\ eventRow \in EventRows /\ event' = [event EXCEPT ![e] = eventRow]
      /\ desk' = [desk EXCEPT ![a] = NoEvent] /\ order' = orderRow
      /\ reconciled' = reconciled \cup {e} /\ UNCHANGED <<worker, parcels, rejected, sms, overrun>>
  BY <1>1 DEF DispatchInv, TypeOK, Resolve
<1>3. event' \in [Events -> EventRows] /\ desk' \in [Admins -> Events \cup {NoEvent}]
  BY <1>2 DEF TypeOK, EventRows
<1>4. reconciled' \subseteq Events /\ reconciled' # {}
  BY <1>2 DEF TypeOK
<1>5. TypeOK' /\ Found'
  BY <1>2, <1>3, <1>4 DEF DispatchInv, TypeOK, EventRows, Found, HasFound
<1>6. QED
  BY <1>4, <1>5 DEF DispatchInv

\* The row of an event of which only the status changes.
LEMMA EventRowIs ==
  ASSUME TypeOK, NEW e \in Events, NEW status \in {"pending", "completed"}
  PROVE  [event[e] EXCEPT !.status = status] \in EventRows
BY DEF TypeOK, EventRows

LEMMA Adopts ==
  ASSUME DispatchInv, NEW a \in Admins, NEW p \in parcels, Adopt(a, p)
  PROVE  DispatchInv'
<1>1. PICK eventRow, status, orderRow :
        /\ eventRow = [event[desk[a]] EXCEPT !.status = "completed"]
        /\ status = IF order.status = "processing" THEN "shipped" ELSE order.status
        /\ orderRow = [order EXCEPT !.consignment = p.id, !.status = status]
  OBVIOUS
<1>2. TypeOK /\ order \in OrderRows /\ p.id \in ParcelIds
  BY DEF DispatchInv, TypeOK, ParcelRows
<1>3. Resolve(a, eventRow, orderRow)
  BY <1>1, <1>2 DEF Adopt, OrderRows
<1>4. orderRow \in OrderRows
  BY <1>1, <1>2 DEF OrderRows
<1>5. desk[a] \in Events => eventRow \in EventRows
  BY <1>1, <1>2, EventRowIs
<1>6. QED
  BY <1>3, <1>4, <1>5, Resolves

LEMMA Clears ==
  ASSUME DispatchInv, NEW a \in Admins, ClearAndRetry(a)
  PROVE  DispatchInv'
<1>1. PICK eventRow, orderRow :
        /\ eventRow = [status |-> "pending", attempts |-> 0]
        /\ orderRow = [order EXCEPT !.consignment = Null]
  OBVIOUS
<1>2. order \in OrderRows /\ 0 \in 0..MAX_ATTEMPTS
  BY CourierAssumption DEF DispatchInv, TypeOK
<1>3. orderRow \in OrderRows /\ eventRow \in EventRows
  BY <1>1, <1>2 DEF OrderRows, EventRows
<1>4. Resolve(a, eventRow, orderRow)
  BY <1>1 DEF ClearAndRetry
<1>5. QED
  BY <1>3, <1>4, Resolves

LEMMA CancelsDispatch ==
  ASSUME DispatchInv, NEW a \in Admins, CancelDispatch(a)
  PROVE  DispatchInv'
<1>1. PICK eventRow, orderRow :
        /\ eventRow = [event[desk[a]] EXCEPT !.status = "completed"]
        /\ orderRow = IF HasParcel THEN order ELSE [order EXCEPT !.consignment = Null]
  OBVIOUS
<1>2. TypeOK /\ order \in OrderRows
  BY DEF DispatchInv, TypeOK
<1>3. orderRow \in OrderRows
  BY <1>1, <1>2 DEF OrderRows
<1>4. Resolve(a, eventRow, orderRow)
  BY <1>1 DEF CancelDispatch
<1>5. desk[a] \in Events => eventRow \in EventRows
  BY <1>1, <1>2, EventRowIs
<1>6. QED
  BY <1>3, <1>4, <1>5, Resolves

-----------------------------------------------------------------------------
(* The specification *)

LEMMA DispatchInit == Init => DispatchInv
<1>1. SUFFICES ASSUME Init PROVE DispatchInv
  OBVIOUS
<1>2. \A w \in Workers : worker[w] = Idle
  BY <1>1 DEF Init
<1>3. order \in OrderRows /\ order.consignment = Null /\ ~HasParcel /\ parcels = {}
  BY <1>1, Values DEF Init, OrderRows, HasParcel
<1>4. event \in [Events -> EventRows]
  <2>1. 0 \in 0..MAX_ATTEMPTS
    BY CourierAssumption
  <2>2. QED
    BY <1>1, <2>1 DEF Init, EventRows
<1>5. worker \in [Workers -> WorkerRows]
  BY <1>1, IdleIs DEF Init
<1>6. TypeOK
  BY <1>1, <1>3, <1>4, <1>5 DEF Init, TypeOK, EventRows, WorkerRows
<1>7. Found /\ Heed
  BY <1>2, IdleIs DEF Found, Heed
<1>8. Dispatched
  BY <1>2, <1>3, IdleIs DEF Dispatched, NotRefused
<1>9. Leased
  BY <1>2, IdleIs DEF Leased
<1>10. Kept
  BY <1>3, Values DEF Kept, Unlinked
<1>11. QED
  BY <1>6, <1>7, <1>8, <1>9, <1>10 DEF DispatchInv, Undisturbed

LEMMA DispatchStep == DispatchInv /\ [Next]_vars => DispatchInv'
<1>1. SUFFICES ASSUME DispatchInv, [Next]_vars
               PROVE  DispatchInv'
  OBVIOUS
<1>2. CASE UNCHANGED vars
  <2>1. desk' \in [Admins -> Events \cup {NoEvent}]
    BY <1>1, <1>2 DEF vars, DispatchInv, TypeOK
  <2>2. QED
    BY <1>1, <1>2, <2>1, DeskChanges DEF vars
<1>3. CASE PaymentArrives \/ CancelOrder
  BY <1>1, <1>3, OrderChanges
<1>4. CASE \E e \in Events : Ship(e) \/ Recover(e)
  BY <1>1, <1>4, Ships, Recovers
<1>5. CASE \E w \in Workers, e \in Events : Begin(w, e)
  BY <1>1, <1>5, Begins
<1>6. CASE \E w \in Workers : \/ ReadOrder(w) \/ Inquire(w) \/ ClaimOrder(w) \/ Create(w)
                              \/ Release(w)
  BY <1>1, <1>6, Reads, Inquires, Claims, Creates, Releasing
<1>7. CASE \E w \in Workers : WriteTracking(w) \/ QueueSms(w) \/ Settle(w) \/ Crash(w)
  BY <1>1, <1>7, WritesTracking, Notifies, Settles, Crashes
<1>8. CASE \E a \in Admins : \/ \E e \in Events : OpenCase(a, e)
                             \/ \E p \in parcels : Adopt(a, p)
                             \/ ClearAndRetry(a) \/ CancelDispatch(a) \/ CloseCase(a)
  BY <1>1, <1>8, OpensCase, Adopts, Clears, CancelsDispatch, ClosesCase
<1>9. QED
  BY <1>1, <1>2, <1>3, <1>4, <1>5, <1>6, <1>7, <1>8 DEF Next

LEMMA DispatchAlways == Spec => []DispatchInv
<1>1. QED
  BY DispatchInit, DispatchStep, PTL DEF Spec

\* Rows, handlers and shipments have their types.
THEOREM TypeCorrect == Spec => []TypeOK
<1>1. DispatchInv => TypeOK
  BY DEF DispatchInv
<1>2. QED
  BY <1>1, DispatchAlways, PTL

\* As long as no admin has resolved an event, the courier accepts at most one
\* shipment of the order that it does not report as rejected, whatever crashes,
\* retries and leases do.
THEOREM WorkersShipOneParcel == Spec => []WorkersShipOnce
<1>1. DispatchInv => WorkersShipOnce
  <2>1. SUFFICES ASSUME DispatchInv, reconciled = {} PROVE Cardinality(NotRefused) <= 1
    BY DEF WorkersShipOnce
  <2>2. \A p, q \in NotRefused : p = q
    BY <2>1 DEF DispatchInv, Undisturbed, Dispatched
  <2>3. CASE NotRefused = {}
    BY <2>3, FS_EmptySet
  <2>4. CASE NotRefused # {}
    <3>1. PICK p \in NotRefused : NotRefused = {p}
      BY <2>2, <2>4
    <3>2. Cardinality({p}) = 1
      BY FS_Singleton
    <3>3. QED
      BY <3>1, <3>2
  <2>5. QED
    BY <2>3, <2>4
<1>2. QED
  BY <1>1, DispatchAlways, PTL

\* While leases hold and no admin interferes, a dispatch that carries the
\* sentinel is in the hands of an event that a worker or an admin will find.
THEOREM SentinelStaysWatched == Spec => []SentinelIsWatched
<1>1. DispatchInv => SentinelIsWatched
  <2>1. SUFFICES ASSUME DispatchInv, Unlinked, reconciled = {}, ~overrun
                 PROVE  \E e \in Events : event[e].status \in {"pending", "processing", "failed"}
    BY DEF SentinelIsWatched, Unlinked
  <2>2. PICK e \in Events : Keeper(e)
    BY <2>1 DEF DispatchInv, Undisturbed, Kept
  <2>3. QED
    BY <2>2 DEF Keeper
<1>2. QED
  BY <1>1, DispatchAlways, PTL

\* No step, of a worker or of an admin, takes the tracking of an order away.
THEOREM LinksAreKept == Spec => LinkIsKept
<1>1. DispatchInv /\ [Next]_vars => [HasParcel => HasParcel']_order
  <2>1. SUFFICES ASSUME DispatchInv, Next, HasParcel, order' # order
                 PROVE  HasParcel'
    BY DEF vars
  <2>2. TypeOK /\ Found /\ order \in OrderRows
    BY <2>1 DEF DispatchInv, TypeOK
  <2>3. order.consignment # Null /\ order.consignment # PENDING_DISPATCH
    BY <2>1, Values DEF HasParcel
  <2>4. CASE PaymentArrives \/ CancelOrder \/ \E e \in Events : Ship(e)
    BY <2>1, <2>2, <2>4 DEF PaymentArrives, CancelOrder, Ship, HasParcel, OrderRows
  <2>5. CASE \E w \in Workers : ClaimOrder(w) \/ Release(w)
    BY <2>1, <2>3, <2>5 DEF ClaimOrder, SentinelFree, Release, Releases
  <2>6. CASE \E w \in Workers : WriteTracking(w)
    <3>1. PICK w \in Workers : WriteTracking(w)
      BY <2>6
    <3>2. worker[w].found \in ParcelIds
      BY <2>2, <3>1 DEF WriteTracking, Found, HasFound, TypeOK
    <3>3. order'.consignment = worker[w].found
      BY <2>2, <3>1 DEF WriteTracking, OrderRows
    <3>4. QED
      BY <3>2, <3>3 DEF HasParcel
  <2>7. CASE \E a \in Admins, p \in parcels : Adopt(a, p)
    <3>1. PICK a \in Admins, p \in parcels : Adopt(a, p)
      BY <2>7
    <3>2. p.id \in ParcelIds
      BY <2>2 DEF TypeOK, ParcelRows
    <3>3. order'.consignment = p.id
      BY <2>2, <3>1 DEF Adopt, Resolve, OrderRows
    <3>4. QED
      BY <3>2, <3>3 DEF HasParcel
  <2>8. CASE \E a \in Admins : ClearAndRetry(a) \/ CancelDispatch(a)
    BY <2>1, <2>8 DEF ClearAndRetry, MayClear, CancelDispatch, Resolve
  <2>9. QED
    BY <2>1, <2>4, <2>5, <2>6, <2>7, <2>8
       DEF Next, Recover, Begin, ReadOrder, Inquire, Create, QueueSms, Settle, Crash, OpenCase,
           CloseCase
<1>2. QED
  BY <1>1, DispatchAlways, PTL DEF Spec, LinkIsKept
=============================================================================
