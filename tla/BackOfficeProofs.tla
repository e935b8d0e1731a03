--------------------------- MODULE BackOfficeProofs ---------------------------
(***************************************************************************)
(* The invariants of the run on AddressBook, CartReminders, Catalogue and   *)
(* RequestLimits, each proved of the specification of its component, for    *)
(* any number of pages, instances, clients and rows and any length of a     *)
(* window.                                                                  *)
(***************************************************************************)
EXTENDS MCBackOffice, UnitsTheorems

-----------------------------------------------------------------------------
(* AddressBook: while no insertion or removal overlaps another request, a   *)
(* request that sets a default unsets every saved row.                      *)

Setting(r) == r.kind # "remove" /\ (r.flag = "yes" \/ r.kind = "setDefault")

\* One row is marked at most.
OneMarked == \A x, y \in default : x = y

\* Requests in progress together only edit rows.
Overlaps ==
  \A p, q \in Pages :
    p # q /\ Book!Open(p) /\ Book!Open(q) => req[p].kind \in {"update", "setDefault"}

\* Rows that a request has matched, or will have unset, are all that are saved.
MatchesAll(r) ==
  /\ r.pc = "lock" => saved \subseteq r.matched
  /\ r.pc \in {"check", "write", "mark", "commit"} /\ Setting(r) => saved \subseteq r.unset
  /\ r.pc \in {"delete", "heir"} => r.kind = "remove"
  /\ r.pc = "mark" => r.kind \in {"setDefault", "remove"}

\* A row inherits the mark of one that had it.
Inherits(r) ==
  /\ r.kind = "remove" /\ r.wasDefault => r.id \in default
  /\ r.kind = "remove" /\ (r.heir # NoAddress \/ r.pc = "heir") => r.wasDefault
  /\ r.kind # "remove" => r.heir = NoAddress

Requested == \A p \in Pages : MatchesAll(req[p]) /\ Inherits(req[p])

Requests ==
  [kind : Book!Kinds \cup {"none"}, id : Addresses \cup {NoAddress}, flag : Book!Flags,
   pc : {"idle", "unset", "lock", "check", "write", "mark", "delete", "heir", "commit"},
   wasDefault : BOOLEAN, matched : SUBSET Addresses, held : SUBSET Addresses,
   unset : SUBSET Addresses, heir : Addresses \cup {NoAddress}]

Rows ==
  /\ req \in [Pages -> Requests] /\ saved \subseteq Addresses /\ default \subseteq saved
  /\ \A p \in Pages : req[p].pc # "idle" => Book!Open(p)
  /\ \A p \in Pages : Book!Open(p) => req[p].id \in Addresses

BookInv == Rows /\ (~mixed => OneMarked /\ Overlaps /\ Requested)

\* Request r of page p goes on as q, and the rows stay.
LEMMA BookStep ==
  ASSUME BookInv, NEW p \in Pages, NEW q, req' = [req EXCEPT ![p] = q],
         UNCHANGED <<saved, default>>, mixed' = mixed, Book!Open(p), q \in Requests, q.kind = req[p].kind,
         q.id = req[p].id, ~mixed => MatchesAll(q) /\ Inherits(q)
  PROVE  BookInv'
<1>2. \A s \in Pages : req'[s] = IF s = p THEN q ELSE req[s]
  BY DEF BookInv, Rows
<1>1. Rows'
  BY <1>2 DEF BookInv, Rows, Book!Open
<1>3. ASSUME ~mixed
      PROVE  OneMarked' /\ Overlaps' /\ Requested'
  <2>1. OneMarked'
    BY <1>3 DEF BookInv, OneMarked
  <2>2. Overlaps'
    BY <1>2, <1>3 DEF BookInv, Overlaps, Book!Open
  <2>3. ASSUME NEW s \in Pages
        PROVE  MatchesAll(req[s])' /\ Inherits(req[s])'
    <3>1. MatchesAll(req'[s]) /\ Inherits(req'[s])
      BY <1>2, <1>3 DEF BookInv, Requested
    <3>2. QED
      BY <3>1 DEF MatchesAll, Inherits, Setting
  <2>4. QED
    BY <2>1, <2>2, <2>3 DEF Requested
<1>4. QED
  BY <1>1, <1>3 DEF BookInv

\* A page sends a request: it is alone, or all only edit rows.
LEMMA Begins ==
  ASSUME BookInv, NEW p \in Pages, NEW k \in Book!Kinds, NEW id \in Addresses, NEW f \in Book!Flags,
         Book!Begin(p, k, id, f)
  PROVE  BookInv'
<1>0. PICK q : q = [Book!NoRequest EXCEPT !.kind = k, !.id = id, !.flag = f,
                      !.wasDefault = id \in default,
                      !.pc = IF k = "remove" THEN "delete"
                             ELSE IF k = "setDefault" \/ f = "yes" THEN "unset"
                             ELSE IF k = "create" THEN "check" ELSE "write"]
  OBVIOUS
<1>1. /\ req' = [req EXCEPT ![p] = q] /\ UNCHANGED <<saved, default>> /\ ~Book!Open(p)
      /\ mixed' = (mixed \/ \E s \in Pages : Book!Open(s) /\ (Book!InsertsOrDeletes(k)
                                                              \/ Book!InsertsOrDeletes(req[s].kind)))
  BY <1>0 DEF Book!Begin
<1>2. k \in {"create", "update", "remove", "setDefault"}
  BY DEF Book!Kinds
<1>3. /\ q.kind = k /\ q.id = id /\ q.flag = f /\ q.heir = NoAddress
      /\ q.wasDefault = (id \in default)
      /\ q.pc = IF k = "remove" THEN "delete"
                ELSE IF k = "setDefault" \/ f = "yes" THEN "unset"
                ELSE IF k = "create" THEN "check" ELSE "write"
  BY <1>0 DEF Book!NoRequest
<1>4. /\ k = "remove" => q.pc = "delete"
      /\ k = "setDefault" => q.pc = "unset"
      /\ k = "create" => q.pc = "unset" \/ (q.pc = "check" /\ f # "yes")
      /\ k = "update" => q.pc = "unset" \/ (q.pc = "write" /\ f # "yes")
  BY <1>2, <1>3
<1>5. MatchesAll(q) /\ Inherits(q)
  BY <1>2, <1>3, <1>4 DEF MatchesAll, Inherits, Setting
<1>6. \A s \in Pages : req'[s] = IF s = p THEN q ELSE req[s]
  BY <1>1 DEF BookInv, Rows
<1>7. Rows'
  <2>1. q \in Requests
    <3>1. q.pc \in {"delete", "unset", "check", "write"}
      BY <1>2, <1>4
    <3>2. Book!NoRequest \in Requests
      BY DEF Book!NoRequest, Requests, Book!Flags
    <3>3. PICK pc, was : /\ pc = q.pc /\ was = (id \in default)
                         /\ q = [Book!NoRequest EXCEPT !.kind = k, !.id = id, !.flag = f,
                                  !.wasDefault = was, !.pc = pc]
      BY <1>0, <1>3
    <3>5. was \in BOOLEAN
      BY <3>3
    <3>4. QED
      BY <3>1, <3>2, <3>3, <3>5 DEF Requests
  <2>2. QED
    BY <1>1, <1>2, <1>3, <1>6, <2>1 DEF BookInv, Rows, Book!Open
<1>8. ASSUME ~mixed'
      PROVE  OneMarked' /\ Overlaps' /\ Requested'
  <2>1. /\ ~mixed /\ OneMarked'
        /\ \A s \in Pages : Book!Open(s) =>
             ~Book!InsertsOrDeletes(k) /\ ~Book!InsertsOrDeletes(req[s].kind)
    BY <1>1, <1>8 DEF BookInv, OneMarked
  <2>2. \A s \in Pages : Book!Open(s) => k \in {"update", "setDefault"}
    BY <1>2, <2>1 DEF Book!InsertsOrDeletes
  <2>3. ASSUME NEW s \in Pages, NEW u \in Pages, s # u, Book!Open(s)', Book!Open(u)'
        PROVE  req'[s].kind \in {"update", "setDefault"}
    <3>1. req'[s].kind # "none" /\ req'[u].kind # "none"
      BY <2>3 DEF Book!Open
    <3>2. CASE s = p
      <4>1. Book!Open(u)
        BY <1>6, <2>3, <3>1, <3>2 DEF Book!Open
      <4>2. QED
        BY <1>3, <1>6, <2>2, <3>2, <4>1
    <3>3. CASE s # p /\ u = p
      <4>1. req'[s] = req[s] /\ Book!Open(s) /\ ~Book!InsertsOrDeletes(req[s].kind)
        BY <1>6, <2>1, <3>1, <3>3 DEF Book!Open
      <4>2. req[s].kind \in Book!Kinds
        BY <4>1 DEF BookInv, Rows, Book!Open, Requests
      <4>3. QED
        BY <4>1, <4>2 DEF Book!InsertsOrDeletes, Book!Kinds
    <3>4. CASE s # p /\ u # p
      BY <1>6, <2>1, <2>3, <3>1, <3>4 DEF Overlaps, BookInv, Book!Open
    <3>5. QED
      BY <3>2, <3>3, <3>4
  <2>4. ASSUME NEW s \in Pages
        PROVE  MatchesAll(req[s])' /\ Inherits(req[s])'
    <3>1. MatchesAll(req'[s]) /\ Inherits(req'[s])
      BY <1>5, <1>6, <2>1 DEF BookInv, Requested
    <3>2. QED
      BY <1>1, <3>1 DEF MatchesAll, Inherits, Setting
  <2>5. QED
    BY <2>1, <2>3, <2>4 DEF Overlaps, Requested
<1>9. QED
  BY <1>7, <1>8 DEF BookInv

\* The steps of a transaction before its end.
LEMMA Works ==
  ASSUME BookInv, NEW p \in Pages,
         \/ Book!UnsetStart(p) \/ Book!Unset(p) \/ Book!Check(p) \/ Book!Write(p) \/ Book!Delete(p)
         \/ Book!ChooseHeir(p)
  PROVE  BookInv'
<1>0. PICK r : r = req[p]
  OBVIOUS
<1>1. /\ req \in [Pages -> Requests] /\ r \in Requests /\ saved \subseteq Addresses
      /\ default \subseteq saved
      /\ ~mixed => MatchesAll(r) /\ Inherits(r)
  BY <1>0 DEF BookInv, Rows, Requested
<1>2. UNCHANGED <<saved, default>> /\ mixed' = mixed
  BY DEF Book!UnsetStart, Book!Unset, Book!Check, Book!Write, Book!Delete, Book!ChooseHeir
<1>3. ASSUME NEW q, req' = [req EXCEPT ![p] = q], q \in Requests, q.kind = r.kind, q.id = r.id,
             r.kind # "none", ~mixed => MatchesAll(q) /\ Inherits(q)
      PROVE  BookInv'
  BY <1>0, <1>2, <1>3, BookStep DEF Book!Open
<1>4. r.pc # "idle" => r.kind # "none"
  BY <1>0 DEF BookInv, Rows, Book!Open
<1>5. CASE Book!UnsetStart(p)
  <2>1. PICK q : q = [r EXCEPT !.pc = "lock", !.matched = saved]
    OBVIOUS
  <2>2. r.pc = "unset" /\ req' = [req EXCEPT ![p] = q]
    BY <1>0, <1>1, <1>5, <2>1 DEF Book!UnsetStart, Book!Matched, Requests
  <2>3. /\ q \in Requests /\ q.kind = r.kind /\ q.pc = "lock" /\ q.matched = saved
        /\ q.wasDefault = r.wasDefault /\ q.id = r.id /\ q.heir = r.heir
    BY <1>1, <2>1 DEF Requests
  <2>4. ~mixed => MatchesAll(q) /\ Inherits(q)
    BY <1>1, <2>2, <2>3 DEF MatchesAll, Inherits
  <2>5. QED
    BY <1>3, <1>4, <2>2, <2>3, <2>4
<1>6. CASE Book!Unset(p)
  <2>1. PICK pc : pc = CASE r.kind = "create" -> "check" [] r.kind = "update" -> "write" [] OTHER -> "mark"
    OBVIOUS
  <2>2. pc \in {"check", "write", "mark"} /\ (pc = "mark" => r.kind \notin {"create", "update"})
    BY <2>1
  <2>3. PICK q : q = [r EXCEPT !.held = r.matched \cap saved, !.unset = r.matched \cap saved, !.pc = pc]
    OBVIOUS
  <2>4. r.pc = "lock" /\ req' = [req EXCEPT ![p] = q]
    BY <1>0, <1>1, <1>6, <2>1, <2>3 DEF Book!Unset, Requests
  <2>5. /\ q \in Requests /\ q.kind = r.kind /\ q.pc = pc /\ q.unset = r.matched \cap saved
        /\ q.wasDefault = r.wasDefault /\ q.id = r.id /\ q.heir = r.heir
    BY <1>1, <2>2, <2>3 DEF Requests
  <2>6. r.kind \in Book!Kinds
    BY <1>1, <1>4, <2>4 DEF Requests
  <2>7. ~mixed => MatchesAll(q) /\ Inherits(q)
    BY <1>1, <2>2, <2>4, <2>5, <2>6 DEF MatchesAll, Inherits, Book!Kinds
  <2>8. QED
    BY <1>3, <1>4, <2>4, <2>5, <2>7
<1>7. CASE Book!Check(p)
  <2>1. PICK f : f = IF saved = {} \/ r.flag = "yes" THEN "yes" ELSE "no"
    OBVIOUS
  <2>2. PICK q : q = [r EXCEPT !.pc = "commit", !.flag = f]
    OBVIOUS
  <2>3. r.pc = "check" /\ req' = [req EXCEPT ![p] = q]
    BY <1>0, <1>1, <1>7, <2>1, <2>2 DEF Book!Check, Requests
  <2>4. /\ q \in Requests /\ q.kind = r.kind /\ q.pc = "commit" /\ q.unset = r.unset /\ q.flag = f
        /\ q.wasDefault = r.wasDefault /\ q.id = r.id /\ q.heir = r.heir
    BY <1>1, <2>1, <2>2 DEF Requests, Book!Flags
  <2>5. ~mixed => MatchesAll(q) /\ Inherits(q)
    BY <1>1, <2>1, <2>3, <2>4 DEF MatchesAll, Inherits, Setting
  <2>6. QED
    BY <1>3, <1>4, <2>3, <2>4, <2>5
<1>8. CASE Book!Write(p)
  <2>1. PICK f, held : /\ f = IF r.pc = "mark" THEN "yes" ELSE r.flag
                       /\ held = r.held \cup ({IF r.heir # NoAddress THEN r.heir ELSE r.id} \cap saved)
    OBVIOUS
  <2>2. PICK q : q = [r EXCEPT !.held = held, !.pc = "commit", !.flag = f]
    OBVIOUS
  <2>3. r.pc \in {"write", "mark"} /\ req' = [req EXCEPT ![p] = q]
    BY <1>0, <1>1, <1>8, <2>1, <2>2 DEF Book!Write, Requests
  <2>4. /\ q \in Requests /\ q.kind = r.kind /\ q.pc = "commit" /\ q.unset = r.unset /\ q.flag = f
        /\ q.wasDefault = r.wasDefault /\ q.id = r.id /\ q.heir = r.heir
    BY <1>1, <2>1, <2>2 DEF Requests, Book!Flags
  <2>5. ~mixed => MatchesAll(q) /\ Inherits(q)
    BY <1>1, <2>1, <2>3, <2>4 DEF MatchesAll, Inherits, Setting
  <2>6. QED
    BY <1>3, <1>4, <2>3, <2>4, <2>5
<1>9. CASE Book!Delete(p)
  <2>1. PICK pc : pc = IF r.wasDefault THEN "heir" ELSE "commit"
    OBVIOUS
  <2>2. PICK q : q = [r EXCEPT !.held = {r.id} \cap saved, !.pc = pc]
    OBVIOUS
  <2>3. r.pc = "delete" /\ req' = [req EXCEPT ![p] = q]
    BY <1>0, <1>1, <1>9, <2>1, <2>2 DEF Book!Delete, Requests
  <2>4. /\ q \in Requests /\ q.kind = r.kind /\ q.pc = pc
        /\ q.wasDefault = r.wasDefault /\ q.id = r.id /\ q.heir = r.heir
    BY <1>1, <2>1, <2>2 DEF Requests
  <2>5. ~mixed => MatchesAll(q) /\ Inherits(q)
    BY <1>1, <2>1, <2>3, <2>4 DEF MatchesAll, Inherits, Setting
  <2>6. QED
    BY <1>3, <1>4, <2>3, <2>4, <2>5
<1>10. CASE Book!ChooseHeir(p)
  <2>1. PICK h \in Addresses \cup {NoAddress}, pc \in {"commit", "mark"} :
          /\ r.pc = "heir" /\ (pc = "commit" => h = r.heir)
          /\ req' = [req EXCEPT ![p] = [r EXCEPT !.heir = h, !.pc = pc]]
    <3>1. CASE Book!Heirs(p) = {}
      <4>1. req' = [req EXCEPT ![p].pc = "commit"] /\ r.pc = "heir"
        BY <1>0, <1>10, <3>1 DEF Book!ChooseHeir, Book!Goto
      <4>2. [r EXCEPT !.pc = "commit"] = [r EXCEPT !.heir = r.heir, !.pc = "commit"]
        BY <1>1 DEF Requests
      <4>3. r.heir \in Addresses \cup {NoAddress}
        BY <1>1 DEF Requests
      <4>4. req' = [req EXCEPT ![p] = [r EXCEPT !.heir = r.heir, !.pc = "commit"]]
        BY <1>0, <1>1, <4>1, <4>2
      <4>5. QED
        BY <4>1, <4>3, <4>4
    <3>2. CASE Book!Heirs(p) # {}
      <4>1. PICK h \in Book!Heirs(p) : req' = [req EXCEPT ![p].heir = h, ![p].pc = "mark"]
        BY <1>10, <3>2 DEF Book!ChooseHeir
      <4>2. r.pc = "heir" /\ h \in Addresses
        BY <1>0, <1>1, <1>10, <4>1 DEF Book!ChooseHeir, Book!Heirs
      <4>3. req' = [req EXCEPT ![p] = [r EXCEPT !.heir = h, !.pc = "mark"]]
        BY <1>0, <1>1, <4>1 DEF Requests
      <4>4. QED
        BY <4>2, <4>3
    <3>3. QED
      BY <3>1, <3>2
  <2>2. PICK q : q = [r EXCEPT !.heir = h, !.pc = pc]
    OBVIOUS
  <2>3. /\ q \in Requests /\ q.kind = r.kind /\ q.pc = pc
        /\ q.wasDefault = r.wasDefault /\ q.id = r.id /\ q.heir = h
    BY <1>1, <2>1, <2>2 DEF Requests
  <2>4. ~mixed => MatchesAll(q) /\ Inherits(q)
    BY <1>1, <2>1, <2>3 DEF MatchesAll, Inherits, Setting
  <2>5. QED
    BY <1>3, <1>4, <2>1, <2>2, <2>3, <2>4
<1>11. QED
  BY <1>5, <1>6, <1>7, <1>8, <1>9, <1>10

\* A request ends without a write.
LEMMA RollsBack ==
  ASSUME BookInv, NEW p \in Pages, Book!Rollback(p)
  PROVE  BookInv'
<1>1. UNCHANGED <<saved, default, mixed>> /\ req' = [req EXCEPT ![p] = Book!NoRequest]
  BY DEF Book!Rollback
<1>2. \A s \in Pages : req'[s] = IF s = p THEN Book!NoRequest ELSE req[s]
  BY <1>1 DEF BookInv, Rows
<1>3. /\ Book!NoRequest \in Requests /\ Book!NoRequest.pc = "idle" /\ Book!NoRequest.kind = "none"
      /\ Book!NoRequest.heir = NoAddress
  BY DEF Book!NoRequest, Requests, Book!Flags
<1>4. Rows'
  BY <1>1, <1>2, <1>3 DEF BookInv, Rows, Book!Open
<1>5. ASSUME ~mixed
      PROVE  OneMarked' /\ Overlaps' /\ Requested'
  <2>1. OneMarked' /\ Overlaps'
    BY <1>1, <1>2, <1>3, <1>5 DEF BookInv, OneMarked, Overlaps, Book!Open
  <2>2. MatchesAll(Book!NoRequest) /\ Inherits(Book!NoRequest)
    BY <1>3 DEF MatchesAll, Inherits
  <2>3. ASSUME NEW s \in Pages
        PROVE  MatchesAll(req[s])' /\ Inherits(req[s])'
    <3>1. MatchesAll(req'[s]) /\ Inherits(req'[s])
      BY <1>2, <1>5, <2>2 DEF BookInv, Requested
    <3>2. QED
      BY <1>1, <3>1 DEF MatchesAll, Inherits, Setting
  <2>4. QED
    BY <2>1, <2>3 DEF Requested
<1>6. QED
  BY <1>1, <1>4, <1>5 DEF BookInv

\* The rows a transaction leaves: a setter has unset every other one, and an
\* heir follows the only one marked.
LEMMA Commits ==
  ASSUME BookInv, NEW p \in Pages, Book!Commit(p)
  PROVE  BookInv'
<1>0. PICK r : r = req[p]
  OBVIOUS
<1>1. /\ req \in [Pages -> Requests] /\ r \in Requests /\ saved \subseteq Addresses
      /\ default \subseteq saved /\ r.pc = "commit" /\ r.kind \in Book!Kinds
  <2>1. req \in [Pages -> Requests] /\ saved \subseteq Addresses /\ default \subseteq saved
        /\ r.pc = "commit" /\ r.kind # "none"
    BY <1>0 DEF BookInv, Rows, Book!Commit, Book!Open
  <2>2. QED
    BY <1>0, <2>1 DEF Requests
<1>2. /\ saved' = IF r.kind = "create" THEN saved \cup {r.id}
                  ELSE IF r.kind = "remove" THEN saved \ {r.id} ELSE saved
      /\ default' = ((default \ Book!Unmarked(p)) \cup Book!Marked(p)) \cap saved'
      /\ req' = [req EXCEPT ![p] = Book!NoRequest] /\ mixed' = mixed
  BY <1>0 DEF Book!Commit
<1>3. \A s \in Pages : req'[s] = IF s = p THEN Book!NoRequest ELSE req[s]
  BY <1>1, <1>2
<1>4. /\ Book!NoRequest \in Requests /\ Book!NoRequest.pc = "idle" /\ Book!NoRequest.kind = "none"
      /\ Book!NoRequest.heir = NoAddress
  BY DEF Book!NoRequest, Requests, Book!Flags
<1>5. Rows'
  <2>1. saved' \subseteq Addresses
    <3>1. r.id \in Addresses
      BY <1>0, <1>1 DEF BookInv, Rows, Book!Open, Book!Kinds
    <3>2. QED
      BY <1>1, <1>2, <3>1
  <2>2. QED
    BY <1>1, <1>2, <1>3, <1>4, <2>1 DEF BookInv, Rows, Book!Open
<1>6. ASSUME ~mixed
      PROVE  OneMarked' /\ Overlaps' /\ Requested'
  <2>1. MatchesAll(r) /\ Inherits(r) /\ OneMarked /\ Overlaps
    BY <1>0, <1>6 DEF BookInv, Requested
  <2>2. OneMarked'
    <3>1. CASE Setting(r)
      <4>1. default \subseteq r.unset
        BY <1>1, <2>1, <3>1 DEF MatchesAll
      <4>2. default \ Book!Unmarked(p) = {}
        BY <1>0, <4>1 DEF Book!Unmarked
      <4>3. Book!Marked(p) \subseteq {r.id}
        BY <1>0, <2>1, <3>1 DEF Book!Marked, Inherits, Setting
      <4>4. QED
        BY <1>2, <4>2, <4>3 DEF OneMarked
    <3>2. CASE ~Setting(r) /\ r.kind # "remove"
      <4>1. Book!Marked(p) = {}
        BY <1>0, <3>2 DEF Book!Marked, Setting
      <4>2. QED
        BY <1>2, <2>1, <4>1 DEF OneMarked
    <3>3. CASE r.kind = "remove" /\ r.heir = NoAddress
      <4>1. saved' = saved \ {r.id} /\ Book!Marked(p) \subseteq {r.id}
        BY <1>0, <1>2, <3>3 DEF Book!Marked
      <4>2. default' \subseteq default
        BY <1>2, <4>1
      <4>3. QED
        BY <2>1, <4>2 DEF OneMarked
    <3>4. CASE r.kind = "remove" /\ r.heir # NoAddress
      <4>1. saved' = saved \ {r.id} /\ Book!Marked(p) \subseteq {r.heir}
        BY <1>0, <1>2, <3>4 DEF Book!Marked
      <4>2. default \subseteq {r.id}
        BY <2>1, <3>4 DEF Inherits, OneMarked
      <4>3. default' \subseteq {r.heir}
        BY <1>2, <4>1, <4>2
      <4>4. QED
        BY <4>3 DEF OneMarked
    <3>5. QED
      BY <3>1, <3>2, <3>3, <3>4
  <2>3. Overlaps'
    BY <1>3, <1>4, <2>1 DEF Overlaps, Book!Open
  <2>4. ASSUME NEW s \in Pages
        PROVE  MatchesAll(req[s])' /\ Inherits(req[s])'
    <3>1. CASE s = p
      BY <1>3, <1>4, <3>1 DEF MatchesAll, Inherits
    <3>2. CASE s # p /\ ~Book!Open(s)
      <4>1. req'[s] = req[s] /\ req[s].pc = "idle" /\ req[s].kind = "none"
        BY <1>3, <3>2 DEF BookInv, Rows, Book!Open
      <4>2. Inherits(req[s])
        BY <1>6 DEF BookInv, Requested
      <4>3. QED
        BY <4>1, <4>2 DEF MatchesAll, Inherits
    <3>3. CASE s # p /\ Book!Open(s)
      <4>1. Book!Open(p)
        BY <1>0, <1>1 DEF Book!Open, Book!Kinds
      <4>2. r.kind \in {"update", "setDefault"} /\ req[s].kind \in {"update", "setDefault"}
        BY <1>0, <2>1, <3>3, <4>1 DEF Overlaps
      <4>3. req'[s] = req[s] /\ saved' = saved /\ MatchesAll(req[s]) /\ Inherits(req[s])
        BY <1>2, <1>3, <1>6, <3>3, <4>2 DEF BookInv, Requested
      <4>4. QED
        BY <4>2, <4>3 DEF MatchesAll, Inherits, Setting
    <3>4. QED
      BY <3>1, <3>2, <3>3
  <2>5. QED
    BY <2>2, <2>3, <2>4 DEF Requested
<1>7. QED
  BY <1>2, <1>5, <1>6 DEF BookInv

\* A checkout inserts an address, which is no default.
LEMMA OrderPlaced ==
  ASSUME BookInv, NEW id \in Addresses, Book!PlaceOrder(id)
  PROVE  BookInv'
<1>1. /\ saved' = saved \cup {id} /\ UNCHANGED <<default, req>>
      /\ mixed' = (mixed \/ (id \notin saved /\ \E p \in Pages : Book!Open(p)))
  BY DEF Book!PlaceOrder
<1>2. Rows'
  BY <1>1 DEF BookInv, Rows, Book!Open
<1>3. ASSUME ~mixed'
      PROVE  OneMarked' /\ Overlaps' /\ Requested'
  <2>1. OneMarked' /\ Overlaps'
    BY <1>1, <1>3 DEF BookInv, OneMarked, Overlaps, Book!Open
  <2>2. ASSUME NEW s \in Pages
        PROVE  MatchesAll(req[s])' /\ Inherits(req[s])'
    <3>1. MatchesAll(req[s]) /\ Inherits(req[s])
      BY <1>1, <1>3 DEF BookInv, Requested
    <3>2. saved' = saved \/ req[s].pc = "idle"
      BY <1>1, <1>3 DEF BookInv, Rows
    <3>3. QED
      BY <1>1, <3>1, <3>2 DEF MatchesAll, Inherits, Setting
  <2>3. QED
    BY <2>1, <2>2 DEF Requested
<1>4. QED
  BY <1>2, <1>3 DEF BookInv

LEMMA BookInit == Book!Init => BookInv
<1> SUFFICES ASSUME Book!Init
             PROVE  BookInv
  OBVIOUS
<1>1. /\ Book!NoRequest \in Requests /\ Book!NoRequest.pc = "idle" /\ Book!NoRequest.kind = "none"
      /\ Book!NoRequest.heir = NoAddress
  BY DEF Book!NoRequest, Requests, Book!Flags
<1>2. Rows
  BY <1>1 DEF Book!Init, Rows, Book!Open
<1>3. OneMarked /\ Overlaps
  BY <1>1 DEF Book!Init, OneMarked, Overlaps, Book!Open
<1>4. Requested
  BY <1>1 DEF Book!Init, Requested, MatchesAll, Inherits
<1>5. QED
  BY <1>2, <1>3, <1>4 DEF BookInv

LEMMA SameCardinality == \A S : Book!Cardinality(S) = Cardinality(S)
BY DEF Book!Cardinality, Cardinality

\* Requests of any number of pages that set a default address, overlapping in
\* any way, leave one row marked at most (AddressesService).
THEOREM DefaultsAreUnique == Book!Spec => []DefaultsStayUnique
<1>1. BookInv /\ [Book!Next]_Book!vars => BookInv'
  <2> SUFFICES ASSUME BookInv, [Book!Next]_Book!vars
               PROVE  BookInv'
    OBVIOUS
  <2>1. ASSUME NEW p \in Pages, Book!UnsetStart(p) \/ Book!Unset(p) \/ Book!Check(p) \/ Book!Write(p)
                                 \/ Book!Delete(p) \/ Book!ChooseHeir(p)
        PROVE  BookInv'
    BY <2>1, Works
  <2>2. CASE UNCHANGED Book!vars
    <3>1. UNCHANGED <<saved, default, req, mixed>>
      BY <2>2 DEF Book!vars
    <3>2. Rows' /\ (OneMarked' = OneMarked) /\ (Overlaps' = Overlaps) /\ (Requested' = Requested)
      BY <3>1 DEF BookInv, Rows, OneMarked, Overlaps, Requested, MatchesAll, Inherits, Setting, Book!Open
    <3>3. QED
      BY <3>1, <3>2 DEF BookInv
  <2>3. QED
    BY <2>1, <2>2, Begins, Commits, RollsBack, OrderPlaced DEF Book!Next
<1>2. BookInv => DefaultsStayUnique
  <2> SUFFICES ASSUME BookInv, ~mixed
               PROVE  Cardinality(default) <= 1
    BY SameCardinality DEF DefaultsStayUnique, Book!DefaultsStayUnique
  <2>1. CASE default = {}
    BY <2>1, FS_EmptySet
  <2>2. ASSUME NEW x \in default
        PROVE  Cardinality(default) <= 1
    <3>1. default = {x}
      BY DEF BookInv, OneMarked
    <3>2. Cardinality({x}) = 1
      BY FS_Singleton
    <3>3. QED
      BY <3>1, <3>2
  <2>3. QED
    BY <2>1, <2>2
<1>3. QED
  BY <1>1, <1>2, BookInit, PTL DEF Book!Spec

-----------------------------------------------------------------------------
(* CartReminders: an event, a claim and rows that are due are each paid for *)
(* by a change of their own.                                                *)

CartRow == [there : BOOLEAN, sent : BOOLEAN, idle : BOOLEAN]
Scans == [pc : {"idle", "claim", "compose"}, claimed : SUBSET Items, idleCart : BOOLEAN]

Composing(j) == job[j].pc = "compose"
Busy == \E j \in Instances : Composing(j)
Due == \E i \in Reminders!Claimable : Reminders!Unlocked(i)

\* One claim at a time holds rows, which are not marked before it commits.
Claims ==
  \A j \in Instances :
    /\ Composing(j) => /\ job[j].claimed # {} /\ job[j].claimed \subseteq Reminders!Claimable
                       /\ \A i \in Instances : Composing(i) => i = j
    /\ ~Composing(j) => job[j].claimed = {}

Paid ==
  /\ events <= changes
  /\ Busy \/ Due => events + 1 <= changes
  /\ Busy /\ Due => events + 2 <= changes

RemindTypes ==
  /\ rows \in [Items -> CartRow] /\ job \in [Instances -> Scans]
  /\ events \in Nat /\ changes \in Nat

RemindInv == RemindTypes /\ Claims /\ Paid

\* A change of rows that no claim holds.
LEMMA CartChanges ==
  ASSUME RemindInv, NEW new \in [Items -> CartRow], Reminders!Change(new),
         \A i \in Items : ~Reminders!Unlocked(i) => new[i] = rows[i]
  PROVE  RemindInv'
<1>1. rows' = new /\ changes' = changes + 1 /\ UNCHANGED <<job, events>>
  BY DEF Reminders!Change
<1>2. RemindTypes'
  BY <1>1 DEF RemindInv, RemindTypes
<1>3. Claims'
  <2> SUFFICES ASSUME NEW j \in Instances, Composing(j)
               PROVE  job[j].claimed \subseteq Reminders!Claimable'
    BY <1>1 DEF RemindInv, Claims, Composing
  <2>1. ASSUME NEW i \in job[j].claimed
        PROVE  i \in Reminders!Claimable'
    <3>1. i \in Reminders!Claimable /\ ~Reminders!Unlocked(i)
      BY DEF RemindInv, Claims, Reminders!Unlocked
    <3>2. new[i] = rows[i]
      BY <3>1 DEF Reminders!Claimable, Reminders!InCart
    <3>3. QED
      BY <1>1, <3>1, <3>2 DEF Reminders!Claimable, Reminders!InCart
  <2>2. QED
    BY <2>1
<1>4. Paid'
  BY <1>1 DEF RemindInv, RemindTypes, Paid, Busy, Composing
<1>5. QED
  BY <1>2, <1>3, <1>4 DEF RemindInv

\* The customer, and the time that passes.
LEMMA CustomerActs ==
  ASSUME RemindInv,
         \/ \E i \in Items : \/ Reminders!AddItem(i) \/ Reminders!UpdateItem(i) \/ Reminders!RemoveItem(i)
                             \/ Reminders!ProductChanges(i)
         \/ Reminders!ClearCart \/ Reminders!HoursPass
  PROVE  RemindInv'
<1>1. Reminders!Fresh \in CartRow /\ Reminders!NoRow \in CartRow /\ rows \in [Items -> CartRow]
  BY DEF Reminders!Fresh, Reminders!NoRow, CartRow, RemindInv, RemindTypes
<1>2. ASSUME NEW i \in Items, Reminders!AddItem(i) \/ Reminders!UpdateItem(i)
      PROVE  RemindInv'
  <2>1. PICK new : new = [rows EXCEPT ![i] = Reminders!Fresh]
    OBVIOUS
  <2>2. Reminders!Change(new) /\ Reminders!Unlocked(i)
    BY <1>2, <2>1 DEF Reminders!AddItem, Reminders!UpdateItem
  <2>3. new \in [Items -> CartRow] /\ \A n \in Items : n # i => new[n] = rows[n]
    BY <1>1, <2>1
  <2>4. QED
    BY <2>2, <2>3, CartChanges
<1>3. ASSUME NEW i \in Items, Reminders!RemoveItem(i)
      PROVE  RemindInv'
  <2>1. PICK new : new = [rows EXCEPT ![i] = Reminders!NoRow]
    OBVIOUS
  <2>2. Reminders!Change(new) /\ Reminders!Unlocked(i)
    BY <1>3, <2>1 DEF Reminders!RemoveItem
  <2>3. new \in [Items -> CartRow] /\ \A n \in Items : n # i => new[n] = rows[n]
    BY <1>1, <2>1
  <2>4. QED
    BY <2>2, <2>3, CartChanges
<1>4. CASE Reminders!ClearCart
  <2>1. PICK new : new = [i \in Items |-> Reminders!NoRow]
    OBVIOUS
  <2>2. Reminders!Change(new) /\ \A i \in Reminders!InCart : Reminders!Unlocked(i)
    BY <1>4, <2>1 DEF Reminders!ClearCart
  <2>3. new \in [Items -> CartRow]
    BY <1>1, <2>1
  <2>4. \A i \in Items : ~Reminders!Unlocked(i) => i \in Reminders!InCart
    <3>1. \A i \in Items : ~Reminders!Unlocked(i) => \E j \in Instances : i \in job[j].claimed
      BY DEF Reminders!Unlocked
    <3>2. QED
      BY <3>1 DEF RemindInv, Claims, Reminders!Claimable
  <2>5. QED
    BY <2>2, <2>3, <2>4, CartChanges
<1>5. CASE Reminders!HoursPass
  <2>1. /\ rows' = [i \in Items |-> [rows[i] EXCEPT !.idle = rows[i].there]]
        /\ UNCHANGED <<job, events, changes>>
    BY <1>5 DEF Reminders!HoursPass
  <2>2. \A i \in Items : /\ rows'[i] \in CartRow /\ rows'[i].there = rows[i].there
                         /\ rows'[i].sent = rows[i].sent
    BY <1>1, <2>1 DEF CartRow
  <2>3. Reminders!Claimable' = Reminders!Claimable
    BY <2>2 DEF Reminders!Claimable, Reminders!InCart
  <2>4. RemindTypes'
    BY <2>1, <2>2 DEF RemindInv, RemindTypes
  <2>5. Claims' /\ Paid'
    BY <2>1, <2>3 DEF RemindInv, Claims, Paid, Busy, Due, Composing, Reminders!Unlocked
  <2>6. QED
    BY <2>4, <2>5 DEF RemindInv
<1>6. ASSUME NEW i \in Items, Reminders!ProductChanges(i)
      PROVE  RemindInv'
  <2>1. UNCHANGED <<rows, job, events, changes>>
    BY <1>6 DEF Reminders!ProductChanges
  <2>2. QED
    BY <2>1 DEF RemindInv, RemindTypes, Claims, Paid, Busy, Due, Composing, Reminders!Unlocked,
                Reminders!Claimable, Reminders!InCart
<1>7. QED
  BY <1>2, <1>3, <1>4, <1>5, <1>6

\* Instance j goes on as q, without a claim of its own before and after.
LEMMA Unclaimed ==
  ASSUME RemindInv, NEW j \in Instances, NEW q \in Scans, job' = [job EXCEPT ![j] = q],
         ~Composing(j), q.pc # "compose", q.claimed = {}, UNCHANGED <<rows, events, changes>>
  PROVE  RemindInv'
<1>1. \A i \in Instances : job'[i] = IF i = j THEN q ELSE job[i]
  BY DEF RemindInv, RemindTypes
<1>2. RemindTypes' /\ Reminders!Claimable' = Reminders!Claimable
  BY DEF RemindInv, RemindTypes, Reminders!Claimable, Reminders!InCart
<1>3. \A i \in Instances : Composing(i)' = Composing(i) /\ job'[i].claimed = job[i].claimed
  BY <1>1 DEF RemindInv, Claims, Composing
<1>4. \A i \in Items : Reminders!Unlocked(i)' <=> Reminders!Unlocked(i)
  BY <1>3 DEF Reminders!Unlocked
<1>5. Claims'
  BY <1>2, <1>3 DEF RemindInv, Claims
<1>6. Busy' => Busy
  BY <1>3 DEF Busy
<1>7. Due' => Due
  BY <1>2, <1>4 DEF Due, Reminders!Claimable, Reminders!InCart
<1>8. Paid'
  BY <1>6, <1>7 DEF RemindInv, Paid
<1>9. QED
  BY <1>2, <1>5, <1>8 DEF RemindInv

\* The job.
LEMMA JobRuns ==
  ASSUME RemindInv, NEW j \in Instances,
         Reminders!Scan(j) \/ Reminders!Claim(j) \/ Reminders!Notify(j) \/ Reminders!Abort(j)
  PROVE  RemindInv'
<1>0. /\ Reminders!NoJob \in Scans /\ Reminders!NoJob.pc = "idle" /\ Reminders!NoJob.claimed = {}
      /\ job \in [Instances -> Scans] /\ rows \in [Items -> CartRow] /\ events \in Nat /\ changes \in Nat
  BY DEF Reminders!NoJob, Scans, RemindInv, RemindTypes
<1>1. CASE Reminders!Scan(j)
  <2>1. PICK q : q = [job[j] EXCEPT !.pc = "claim"]
    OBVIOUS
  <2>2. /\ job' = [job EXCEPT ![j] = q] /\ job[j].pc = "idle"
        /\ UNCHANGED <<rows, events, changes>>
    BY <1>0, <1>1, <2>1 DEF Reminders!Scan
  <2>3. q \in Scans /\ q.pc = "claim" /\ q.claimed = job[j].claimed
    BY <1>0, <2>1 DEF Scans
  <2>4. q.claimed = {} /\ ~Composing(j)
    BY <2>2, <2>3 DEF RemindInv, Claims, Composing
  <2>5. QED
    BY <2>2, <2>3, <2>4, Unclaimed
<1>2. CASE Reminders!Claim(j) /\ Reminders!Claimable = {}
  <2>1. /\ job' = [job EXCEPT ![j] = Reminders!NoJob] /\ ~Composing(j)
        /\ UNCHANGED <<rows, events, changes>>
    BY <1>2 DEF Reminders!Claim, Composing
  <2>2. QED
    BY <1>0, <2>1, Unclaimed
<1>3. CASE Reminders!Claim(j) /\ Reminders!Claimable # {}
  <2>1. PICK idle \in BOOLEAN : idle = \A i \in Reminders!InCart : rows[i].idle
    OBVIOUS
  <2>2. PICK q : q = [pc |-> "compose", claimed |-> Reminders!Claimable, idleCart |-> idle]
    OBVIOUS
  <2>3. /\ job' = [job EXCEPT ![j] = q] /\ job[j].pc = "claim"
        /\ \A i \in Reminders!Claimable : Reminders!Unlocked(i)
        /\ UNCHANGED <<rows, events, changes>>
    BY <1>3, <2>1, <2>2 DEF Reminders!Claim
  <2>4. q \in Scans /\ q.pc = "compose" /\ q.claimed = Reminders!Claimable
    BY <2>1, <2>2 DEF Scans, Reminders!Claimable, Reminders!InCart
  <2>5. \A i \in Instances : job'[i] = IF i = j THEN q ELSE job[i]
    BY <1>0, <2>3
  <2>6. ~Busy
    BY <2>3 DEF Busy, RemindInv, Claims, Reminders!Unlocked
  <2>7. RemindTypes' /\ Reminders!Claimable' = Reminders!Claimable
    BY <2>3, <2>4 DEF RemindInv, RemindTypes, Reminders!Claimable, Reminders!InCart
  <2>8. Claims'
    BY <1>3, <2>4, <2>5, <2>6, <2>7 DEF RemindInv, Claims, Busy, Composing
  <2>9. Due
    BY <1>3, <2>3 DEF Due
  <2>10. ~Due'
    BY <2>4, <2>5, <2>7 DEF Due, Reminders!Unlocked
  <2>11. Paid'
    BY <2>3, <2>9, <2>10 DEF RemindInv, Paid
  <2>12. QED
    BY <2>7, <2>8, <2>11 DEF RemindInv
<1>4. CASE Reminders!Notify(j)
  <2>1. PICK claimed : claimed = job[j].claimed
    OBVIOUS
  <2>2. /\ job' = [job EXCEPT ![j] = Reminders!NoJob] /\ Composing(j) /\ changes' = changes
        /\ rows' = [i \in Items |-> IF i \in claimed THEN [rows[i] EXCEPT !.sent = TRUE, !.idle = FALSE]
                                    ELSE rows[i]]
    BY <1>4, <2>1 DEF Reminders!Notify, Composing
  <2>12. (events' = events \/ events' = events + 1) /\ changes' = changes
    BY <1>4 DEF Reminders!Notify
  <2>3. \A i \in Instances : job'[i] = IF i = j THEN Reminders!NoJob ELSE job[i]
    BY <1>0, <2>2
  <2>4. \A i \in Items : /\ rows'[i] \in CartRow /\ rows'[i].there = rows[i].there
                         /\ i \in claimed => rows'[i].sent
                         /\ i \notin claimed => rows'[i] = rows[i]
    BY <1>0, <2>2 DEF CartRow
  <2>5. RemindTypes'
    <3>1. rows' \in [Items -> CartRow]
      BY <2>2, <2>4
    <3>4. events' \in Nat
      BY <1>0, <2>12
    <3>2. job' \in [Instances -> Scans]
      BY <1>0, <2>2
    <3>3. QED
      BY <1>0, <2>2, <3>1, <3>2, <3>4 DEF RemindTypes
  <2>6. \A i \in Instances : ~Composing(i)' /\ job'[i].claimed = {}
    BY <1>0, <2>2, <2>3 DEF RemindInv, Claims, Composing
  <2>7. Claims' /\ ~Busy'
    BY <2>6 DEF Claims, Busy
  <2>8. Due' => Due
    <3> SUFFICES ASSUME Due'
                 PROVE  Due
      OBVIOUS
    <3>1. PICK i \in Items : rows'[i].there /\ ~rows'[i].sent
      BY DEF Due, Reminders!Claimable, Reminders!InCart
    <3>2. i \in Reminders!Claimable /\ i \notin claimed
      BY <2>4, <3>1 DEF Reminders!Claimable, Reminders!InCart
    <3>3. Reminders!Unlocked(i)
      BY <2>1, <2>2, <3>2 DEF RemindInv, Claims, Reminders!Unlocked
    <3>4. QED
      BY <3>2, <3>3 DEF Due
  <2>9. Busy
    BY <2>2 DEF Busy
  <2>10. Paid'
    <3>1. events + 1 <= changes /\ (Due' => events + 2 <= changes)
      BY <2>8, <2>9 DEF RemindInv, Paid
    <3>2. events' <= changes'
      BY <1>0, <2>12, <3>1
    <3>3. ASSUME Due'
          PROVE  events' + 1 <= changes'
      BY <1>0, <2>12, <3>1, <3>3
    <3>4. QED
      BY <2>7, <3>2, <3>3 DEF Paid
  <2>11. QED
    BY <2>5, <2>7, <2>10 DEF RemindInv
<1>5. CASE Reminders!Abort(j) /\ ~Composing(j)
  <2>1. /\ job' = [job EXCEPT ![j] = Reminders!NoJob]
        /\ UNCHANGED <<rows, events, changes>>
    BY <1>5 DEF Reminders!Abort
  <2>2. QED
    BY <1>0, <1>5, <2>1, Unclaimed
<1>6. CASE Reminders!Abort(j) /\ Composing(j)
  <2>1. /\ job' = [job EXCEPT ![j] = Reminders!NoJob]
        /\ UNCHANGED <<rows, events, changes>>
    BY <1>6 DEF Reminders!Abort
  <2>2. \A i \in Instances : job'[i] = IF i = j THEN Reminders!NoJob ELSE job[i]
    BY <1>0, <2>1
  <2>3. RemindTypes'
    BY <1>0, <2>1 DEF RemindTypes
  <2>4. \A i \in Instances : ~Composing(i)' /\ job'[i].claimed = {}
    BY <1>0, <1>6, <2>2 DEF RemindInv, Claims, Composing
  <2>5. Claims' /\ ~Busy'
    BY <2>4 DEF Claims, Busy
  <2>6. Busy
    BY <1>6 DEF Busy
  <2>7. Paid'
    BY <1>0, <2>1, <2>5, <2>6 DEF RemindInv, Paid
  <2>8. QED
    BY <2>3, <2>5, <2>7 DEF RemindInv
<1>7. QED
  BY <1>1, <1>2, <1>3, <1>4, <1>5, <1>6

LEMMA RemindInit == Reminders!Init => RemindInv
<1> SUFFICES ASSUME Reminders!Init
             PROVE  RemindInv
  OBVIOUS
<1>1. /\ rows = [i \in Items |-> Reminders!NoRow] /\ job = [j \in Instances |-> Reminders!NoJob]
      /\ events = 0 /\ changes = 0
  BY DEF Reminders!Init
<1>2. RemindTypes
  BY <1>1 DEF RemindTypes, Reminders!NoRow, Reminders!NoJob, CartRow, Scans
<1>3. \A j \in Instances : ~Composing(j) /\ job[j].claimed = {}
  BY <1>1 DEF Composing, Reminders!NoJob
<1>4. Reminders!Claimable = {}
  BY <1>1 DEF Reminders!Claimable, Reminders!InCart, Reminders!NoRow
<1>5. Claims
  BY <1>3 DEF Claims
<1>6. ~Busy /\ ~Due
  BY <1>3, <1>4 DEF Busy, Due
<1>7. Paid
  BY <1>1, <1>6 DEF Paid
<1>8. QED
  BY <1>2, <1>5, <1>7 DEF RemindInv

\* However many instances scan together, crash or scan again, a cart that is
\* not changed is reminded of once (AbandonedCartProcessor).
THEOREM RemindersAreUnique == Reminders!Spec => []RemindedOncePerChange
<1>1. RemindInv /\ [Reminders!Next]_Reminders!vars => RemindInv'
  <2> SUFFICES ASSUME RemindInv, [Reminders!Next]_Reminders!vars
               PROVE  RemindInv'
    OBVIOUS
  <2>1. CASE UNCHANGED Reminders!vars
    <3>1. UNCHANGED <<rows, job, events, changes>>
      BY <2>1 DEF Reminders!vars
    <3>2. QED
      BY <3>1 DEF RemindInv, RemindTypes, Claims, Paid, Busy, Due, Composing, Reminders!Unlocked,
                  Reminders!Claimable, Reminders!InCart
  <2>2. QED
    BY <2>1, CustomerActs, JobRuns DEF Reminders!Next
<1>2. RemindInv => RemindedOncePerChange
  BY DEF RemindInv, Paid, RemindedOncePerChange, Reminders!RemindedOncePerChange
<1>3. QED
  BY <1>1, <1>2, RemindInit, PTL DEF Reminders!Spec

-----------------------------------------------------------------------------
(* Catalogue: the entries of the cache, and the variants that were ordered. *)

Copies == [row : Int, variants : Int, category : Int, stock : Int, id : Int, variantStock : Int]
Callers ==
  [pc : {"idle", "get", "row", "variants", "set", "write", "invalidate"}, key : Shelf!Keys,
   goal : {"look", "save", "delete"}, seen : Copies, form : Copies]
Products == [deleted : BOOLEAN, category : Int, stock : Int, placed : Int, supply : Int]
Variants == [id : Int, stock : Int, placed : Int, supply : Int]

Excuses == {"none", "late", "failed"}

ShelfTypes ==
  /\ version \in [Shelf!Keys -> Nat] /\ entry \in [Shelf!Keys -> Copies]
  /\ excused \in [Shelf!Keys -> Excuses] /\ client \in [Clients -> Callers]
  /\ product \in Products /\ variant \in Variants

Shown == \A k \in Shelf!Keys :
           entry[k] # Shelf!NoCopy /\ ~Shelf!IsCurrent(k, entry[k]) =>
             excused[k] # "none" \/ Shelf!Coming(k)

\* A variant keeps its balance, and its row once it was ordered.
Balanced == ordered \subseteq {variant.id} /\ variant.stock + variant.placed = variant.supply

ShelfInv == ShelfTypes /\ Shown /\ Balanced

\* A request that has committed nothing goes on as q.
LEMMA CallerMoves ==
  ASSUME ShelfInv, NEW c \in Clients, NEW q \in Callers, client' = [client EXCEPT ![c] = q],
         client[c].pc # "invalidate",
         UNCHANGED <<version, entry, excused, product, variant, ordered>>
  PROVE  ShelfInv'
<1>1. \A b \in Clients : client'[b] = IF b = c THEN q ELSE client[b]
  BY DEF ShelfInv, ShelfTypes
<1>2. ShelfTypes' /\ Balanced'
  BY DEF ShelfInv, ShelfTypes, Balanced
<1>3. \A k \in Shelf!Keys : Shelf!Coming(k) => Shelf!Coming(k)'
  BY <1>1 DEF Shelf!Coming
<1>4. Shown'
  BY <1>3 DEF ShelfInv, Shown, Shelf!IsCurrent
<1>5. QED
  BY <1>2, <1>4 DEF ShelfInv

\* Sales change neither entries nor requests.
LEMMA RowsMove ==
  ASSUME ShelfInv, product' \in Products, variant' \in Variants, Balanced',
         UNCHANGED <<version, entry, excused, client>>
  PROVE  ShelfInv'
<1>1. ShelfTypes'
  BY DEF ShelfInv, ShelfTypes
<1>2. Shown'
  BY DEF ShelfInv, Shown, Shelf!IsCurrent, Shelf!Coming
<1>3. QED
  BY <1>1, <1>2 DEF ShelfInv

\* A request goes on as q after it committed an edit: its DEL is coming.
LEMMA EditMade ==
  ASSUME ShelfInv, NEW c \in Clients, NEW q \in Callers, client' = [client EXCEPT ![c] = q],
         client[c].pc # "invalidate", q.pc = "invalidate",
         version' = [version EXCEPT ![q.key] = @ + 1],
         UNCHANGED <<entry, excused>>, product' \in Products, variant' \in Variants, Balanced'
  PROVE  ShelfInv'
<1>1. \A b \in Clients : client'[b] = IF b = c THEN q ELSE client[b]
  BY DEF ShelfInv, ShelfTypes
<1>2. q.key \in Shelf!Keys
  BY DEF Callers
<1>3. \A k \in Shelf!Keys : version'[k] = IF k = q.key THEN version[k] + 1 ELSE version[k]
  BY DEF ShelfInv, ShelfTypes
<1>4. ShelfTypes'
  BY <1>2 DEF ShelfInv, ShelfTypes
<1>5. Shelf!Coming(q.key)' /\ \A k \in Shelf!Keys : Shelf!Coming(k) => Shelf!Coming(k)'
  BY <1>1 DEF Shelf!Coming
<1>6. Shown'
  <2>1. ASSUME NEW k \in Shelf!Keys, entry'[k] # Shelf!NoCopy, ~Shelf!IsCurrent(k, entry[k])'
        PROVE  excused'[k] # "none" \/ Shelf!Coming(k)'
    <3>1. CASE k = q.key
      BY <1>5, <3>1
    <3>2. CASE k # q.key
      BY <1>3, <1>5, <2>1, <3>2 DEF ShelfInv, Shown, Shelf!IsCurrent
    <3>3. QED
      BY <3>1, <3>2
  <2>2. QED
    BY <2>1 DEF Shown
<1>7. QED
  BY <1>4, <1>6 DEF ShelfInv

LEMMA CallersTyped ==
  /\ Shelf!NoCopy \in Copies /\ Shelf!NoClient \in Callers /\ Shelf!NoClient.pc = "idle"
  /\ "product" \in Shelf!Keys /\ "categories" \in Shelf!Keys
BY DEF Shelf!NoCopy, Shelf!NoClient, Copies, Callers, Shelf!Keys

\* What a request becomes when it is answered.
LEMMA AnswersTyped ==
  ASSUME ShelfTypes, NEW c \in Clients, NEW copy \in Copies
  PROVE  Shelf!Answered(c, copy) \in Callers /\ Shelf!Failed(c) \in Callers
<1>1. client[c] \in Callers
  BY DEF ShelfTypes
<1>2. [client[c] EXCEPT !.pc = "write", !.seen = Shelf!NoCopy] \in Callers
  BY <1>1, CallersTyped DEF Callers
<1>3. PICK kept, zero : zero = 0 /\ kept = [copy EXCEPT !.row = zero, !.variants = zero, !.category = zero]
  OBVIOUS
<1>4. kept \in Copies
  <2>1. zero \in Int
    BY <1>3
  <2>2. QED
    BY <1>3, <2>1 DEF Copies
<1>5. [Shelf!NoClient EXCEPT !.form = kept] \in Callers
  BY <1>4, CallersTyped DEF Callers
<1>6. client[c].form \in Copies
  BY <1>1 DEF Callers
<1>7. [Shelf!NoClient EXCEPT !.form = client[c].form] \in Callers
  BY <1>6, CallersTyped DEF Callers
<1>8. Shelf!Answered(c, copy) \in Callers
  BY <1>2, <1>3, <1>5, CallersTyped DEF Shelf!Answered
<1>9. QED
  BY <1>7, <1>8 DEF Shelf!Failed

\* Reading through the cache.
LEMMA Reads ==
  ASSUME ShelfInv, NEW c \in Clients,
         \/ \E k \in Shelf!Keys, goal \in {"look", "save", "delete"} : Shelf!Ask(c, k, goal)
         \/ Shelf!Get(c) \/ Shelf!ReadRow(c) \/ Shelf!ReadVariants(c) \/ Shelf!SaveFails(c)
         \/ Shelf!SaveSwallowed(c)
  PROVE  ShelfInv'
<1>0. PICK r : r = client[c]
  OBVIOUS
<1>1. /\ client \in [Clients -> Callers] /\ r \in Callers /\ ShelfTypes /\ entry \in [Shelf!Keys -> Copies]
      /\ r.key \in Shelf!Keys /\ r.form \in Copies /\ r.seen \in Copies
  BY <1>0 DEF ShelfInv, ShelfTypes, Callers
<1>2. UNCHANGED <<version, entry, excused, product, variant, ordered>>
  BY DEF Shelf!Ask, Shelf!Get, Shelf!ReadRow, Shelf!ReadVariants, Shelf!SaveFails, Shelf!SaveSwallowed,
         Shelf!rows
<1>3. r.pc # "invalidate"
  BY <1>0 DEF Shelf!Ask, Shelf!Get, Shelf!ReadRow, Shelf!ReadVariants, Shelf!SaveFails, Shelf!SaveSwallowed
<1> SUFFICES \E q \in Callers : client' = [client EXCEPT ![c] = q]
  BY <1>0, <1>2, <1>3, CallerMoves
<1>4. ASSUME NEW k \in Shelf!Keys, NEW goal \in {"look", "save", "delete"}, Shelf!Ask(c, k, goal)
      PROVE  \E q \in Callers : client' = [client EXCEPT ![c] = q]
  <2>1. PICK form \in Copies : form = IF goal = "save" THEN r.form ELSE Shelf!NoCopy
    BY <1>1, CallersTyped
  <2>2. client' = [client EXCEPT ![c] = [r EXCEPT !.pc = "get", !.key = k, !.goal = goal, !.form = form]]
    BY <1>0, <1>1, <1>4, <2>1 DEF Shelf!Ask, Callers
  <2>3. [r EXCEPT !.pc = "get", !.key = k, !.goal = goal, !.form = form] \in Callers
    BY <1>1, <2>1 DEF Callers
  <2>4. QED
    BY <2>2, <2>3
<1>5. CASE Shelf!Get(c)
  <2>1. [r EXCEPT !.pc = "row"] \in Callers /\ entry[r.key] \in Copies
    BY <1>1 DEF Callers
  <2>2. \/ client' = [client EXCEPT ![c] = Shelf!Answered(c, entry[r.key])]
        \/ client' = [client EXCEPT ![c] = [r EXCEPT !.pc = "row"]]
    BY <1>0, <1>1, <1>5 DEF Shelf!Get
  <2>3. Shelf!Answered(c, entry[r.key]) \in Callers
    BY <1>1, <2>1, AnswersTyped
  <2>4. QED
    BY <2>1, <2>2, <2>3
<1>6. CASE Shelf!ReadRow(c)
  <2>1. PICK listed, row : /\ listed = [Shelf!NoCopy EXCEPT !.row = version[r.key], !.variants = version[r.key]]
                           /\ row = [Shelf!NoCopy EXCEPT !.row = version[r.key], !.category = product.category,
                                                         !.stock = product.stock]
    OBVIOUS
  <2>2. version[r.key] \in Int /\ product.stock \in Int /\ product.category \in Int
    BY <1>1 DEF ShelfTypes, Products
  <2>3. listed \in Copies /\ row \in Copies
    BY <2>1, <2>2, CallersTyped DEF Copies
  <2>4. /\ [r EXCEPT !.pc = "set", !.seen = listed] \in Callers
        /\ [r EXCEPT !.pc = "variants", !.seen = row] \in Callers
    BY <1>1, <2>3 DEF Callers
  <2>5. Shelf!Failed(c) \in Callers
    BY <1>1, <2>3, AnswersTyped
  <2>6. \/ client' = [client EXCEPT ![c] = [r EXCEPT !.pc = "set", !.seen = listed]]
        \/ client' = [client EXCEPT ![c] = Shelf!Failed(c)]
        \/ client' = [client EXCEPT ![c] = [r EXCEPT !.pc = "variants", !.seen = row]]
    BY <1>0, <1>6, <2>1 DEF Shelf!ReadRow
  <2>7. QED
    BY <2>4, <2>5, <2>6
<1>7. CASE Shelf!ReadVariants(c)
  <2>1. PICK seen : seen = [r.seen EXCEPT !.variants = version["product"], !.id = variant.id,
                                          !.variantStock = variant.stock]
    OBVIOUS
  <2>2. version["product"] \in Int /\ variant.id \in Int /\ variant.stock \in Int
    BY <1>1, CallersTyped DEF ShelfTypes, Variants
  <2>3. seen \in Copies
    BY <1>1, <2>1, <2>2 DEF Copies
  <2>4. [r EXCEPT !.pc = "set", !.seen = seen] \in Callers
    BY <1>1, <2>3 DEF Callers
  <2>5. client' = [client EXCEPT ![c] = [r EXCEPT !.pc = "set", !.seen = seen]]
    BY <1>0, <1>1, <1>7, <2>1 DEF Shelf!ReadVariants, Callers
  <2>6. QED
    BY <2>4, <2>5
<1>8. CASE Shelf!SaveFails(c)
  BY <1>1, <1>8, AnswersTyped, CallersTyped DEF Shelf!SaveFails
<1>9. CASE Shelf!SaveSwallowed(c)
  <2>1. client' = [client EXCEPT ![c] = [r EXCEPT !.pc = "invalidate", !.form = Shelf!NoCopy]]
    BY <1>0, <1>1, <1>9 DEF Shelf!SaveSwallowed, Callers
  <2>2. [r EXCEPT !.pc = "invalidate", !.form = Shelf!NoCopy] \in Callers
    BY <1>1, CallersTyped DEF Callers
  <2>3. QED
    BY <2>1, <2>2
<1>10. QED
  BY <1>4, <1>5, <1>6, <1>7, <1>8, <1>9

\* What fills the cache, and what empties it.
LEMMA EntryMoves ==
  ASSUME ShelfInv, NEW k \in Shelf!Keys,
         entry' \in [Shelf!Keys -> Copies], excused' \in [Shelf!Keys -> Excuses],
         client' \in [Clients -> Callers],
         \/ entry'[k] = Shelf!NoCopy \/ Shelf!IsCurrent(k, entry'[k])
         \/ excused'[k] # "none",
         \A i \in Shelf!Keys : i # k => /\ entry'[i] = entry[i] /\ excused'[i] = excused[i]
                                        /\ Shelf!Coming(i) => Shelf!Coming(i)',
         UNCHANGED <<version, product, variant, ordered>>
  PROVE  ShelfInv'
<1>1. ShelfTypes' /\ Balanced'
  BY DEF ShelfInv, ShelfTypes, Balanced
<1>2. ASSUME NEW i \in Shelf!Keys, entry'[i] # Shelf!NoCopy, ~Shelf!IsCurrent(i, entry[i])'
      PROVE  excused'[i] # "none" \/ Shelf!Coming(i)'
  <2>1. CASE i = k
    BY <1>2, <2>1 DEF Shelf!IsCurrent
  <2>2. CASE i # k
    BY <1>2, <2>2 DEF ShelfInv, Shown, Shelf!IsCurrent
  <2>3. QED
    BY <2>1, <2>2
<1>3. QED
  BY <1>1, <1>2 DEF ShelfInv, Shown

LEMMA CacheMoves ==
  ASSUME ShelfInv,
         \/ \E c \in Clients : Shelf!Set(c) \/ Shelf!Invalidate(c)
         \/ \E k \in Shelf!Keys : Shelf!Expire(k)
  PROVE  ShelfInv'
<1>1. /\ ShelfTypes /\ client \in [Clients -> Callers] /\ entry \in [Shelf!Keys -> Copies]
      /\ excused \in [Shelf!Keys -> Excuses]
  BY DEF ShelfInv, ShelfTypes
<1>2. ASSUME NEW k \in Shelf!Keys, Shelf!Expire(k)
      PROVE  ShelfInv'
  <2>1. /\ entry' = [entry EXCEPT ![k] = Shelf!NoCopy] /\ excused' = [excused EXCEPT ![k] = "none"]
        /\ UNCHANGED <<version, client, product, variant, ordered>>
    BY <1>2 DEF Shelf!Expire, Shelf!rows
  <2>2. client' \in [Clients -> Callers] /\ \A i \in Shelf!Keys : Shelf!Coming(i)' = Shelf!Coming(i)
    BY <1>1, <2>1 DEF Shelf!Coming
  <2>3. entry' \in [Shelf!Keys -> Copies] /\ excused' \in [Shelf!Keys -> Excuses] /\ entry'[k] = Shelf!NoCopy
    BY <1>1, <2>1, CallersTyped DEF Excuses
  <2>4. \A i \in Shelf!Keys : i # k => entry'[i] = entry[i] /\ excused'[i] = excused[i]
    BY <1>1, <2>1
  <2>5. QED
    BY <2>1, <2>2, <2>3, <2>4, EntryMoves
<1>3. ASSUME NEW c \in Clients, Shelf!Set(c)
      PROVE  ShelfInv'
  <2>1. PICK k, copy, q : k = client[c].key /\ copy = client[c].seen /\ q = Shelf!Answered(c, copy)
    OBVIOUS
  <2>2. k \in Shelf!Keys /\ copy \in Copies /\ q \in Callers
    <3>1. client[c] \in Callers
      BY <1>1
    <3>2. k \in Shelf!Keys /\ copy \in Copies
      BY <2>1, <3>1 DEF Callers
    <3>3. QED
      BY <1>1, <2>1, <3>2, AnswersTyped
  <2>3. /\ client[c].pc = "set" /\ client' = [client EXCEPT ![c] = q]
        /\ UNCHANGED <<version, product, variant, ordered>>
        /\ \/ /\ entry' = [entry EXCEPT ![k] = copy]
              /\ excused' = [excused EXCEPT ![k] = IF Shelf!IsCurrent(k, copy) THEN "none" ELSE "late"]
           \/ UNCHANGED <<entry, excused>>
    BY <1>3, <2>1 DEF Shelf!Set, Shelf!rows
  <2>4. CASE UNCHANGED <<entry, excused>>
    BY <2>2, <2>3, <2>4, CallerMoves
  <2>5. ASSUME entry' = [entry EXCEPT ![k] = copy],
               excused' = [excused EXCEPT ![k] = IF Shelf!IsCurrent(k, copy) THEN "none" ELSE "late"]
        PROVE  ShelfInv'
    <3>1. \A b \in Clients : client'[b] = IF b = c THEN q ELSE client[b]
      BY <1>1, <2>3
    <3>2. client' \in [Clients -> Callers] /\ \A i \in Shelf!Keys : Shelf!Coming(i) => Shelf!Coming(i)'
      BY <1>1, <2>2, <2>3, <3>1 DEF Shelf!Coming
    <3>3. /\ entry' \in [Shelf!Keys -> Copies] /\ excused' \in [Shelf!Keys -> Excuses]
          /\ entry'[k] = copy /\ (Shelf!IsCurrent(k, copy) \/ excused'[k] # "none")
      BY <1>1, <2>2, <2>5 DEF Excuses
    <3>4. \A i \in Shelf!Keys : i # k => entry'[i] = entry[i] /\ excused'[i] = excused[i]
      BY <1>1, <2>5
    <3>5. QED
      BY <2>2, <2>3, <3>2, <3>3, <3>4, EntryMoves
  <2>6. QED
    BY <2>3, <2>4, <2>5
<1>4. ASSUME NEW c \in Clients, Shelf!Invalidate(c)
      PROVE  ShelfInv'
  <2>1. PICK k : k = client[c].key
    OBVIOUS
  <2>2. k \in Shelf!Keys
    BY <1>1, <2>1 DEF Callers
  <2>3. /\ client' = [client EXCEPT ![c] = Shelf!NoClient]
        /\ UNCHANGED <<version, product, variant, ordered>>
        /\ \/ entry' = [entry EXCEPT ![k] = Shelf!NoCopy] /\ excused' = [excused EXCEPT ![k] = "none"]
           \/ /\ UNCHANGED entry
              /\ excused' = [excused EXCEPT ![k] =
                   IF entry[k] = Shelf!NoCopy \/ Shelf!IsCurrent(k, entry[k]) THEN @ ELSE "failed"]
    BY <1>4, <2>1 DEF Shelf!Invalidate, Shelf!rows
  <2>4. \A b \in Clients : client'[b] = IF b = c THEN Shelf!NoClient ELSE client[b]
    BY <1>1, <2>3
  <2>5. client' \in [Clients -> Callers]
    BY <1>1, <2>3, CallersTyped
  <2>6. \A i \in Shelf!Keys : i # k => (Shelf!Coming(i) => Shelf!Coming(i)')
    BY <2>1, <2>4 DEF Shelf!Coming
  <2>7. \A i \in Shelf!Keys : i # k => entry'[i] = entry[i] /\ excused'[i] = excused[i]
    BY <1>1, <2>3
  <2>8. /\ entry' \in [Shelf!Keys -> Copies] /\ excused' \in [Shelf!Keys -> Excuses]
        /\ \/ entry'[k] = Shelf!NoCopy \/ Shelf!IsCurrent(k, entry'[k])
           \/ excused'[k] # "none"
    BY <1>1, <2>2, <2>3, CallersTyped DEF Excuses
  <2>9. QED
    BY <2>2, <2>3, <2>5, <2>6, <2>7, <2>8, EntryMoves
<1>5. QED
  BY <1>2, <1>3, <1>4

\* The edits: the rows of an ordered variant are not deleted.
LEMMA Edits ==
  ASSUME ShelfInv, NEW c \in Clients,
         \/ \E more \in {0, 1} : Shelf!Save(c, more) \/ Shelf!SaveVariants(c, more)
         \/ Shelf!Delete(c) \/ Shelf!EditCategories(c) \/ Shelf!ReviewsChange(c)
  PROVE  ShelfInv'
<1>0. PICK r : r = client[c]
  OBVIOUS
<1>1. /\ client \in [Clients -> Callers] /\ r \in Callers
      /\ r.key \in Shelf!Keys /\ r.form \in Copies
      /\ product \in Products /\ variant \in Variants /\ version \in [Shelf!Keys -> Nat]
  BY <1>0 DEF ShelfInv, ShelfTypes, Callers
<1>2. ASSUME Shelf!Committed(c), r.pc # "invalidate", UNCHANGED <<entry, excused>>,
             product' \in Products, variant' \in Variants, Balanced'
      PROVE  ShelfInv'
  <2>1. PICK q : q = [r EXCEPT !.pc = "invalidate", !.form = Shelf!NoCopy]
    OBVIOUS
  <2>2. q \in Callers /\ q.pc = "invalidate" /\ q.key = r.key
    BY <1>1, <2>1, CallersTyped DEF Callers
  <2>3. client' = [client EXCEPT ![c] = q] /\ version' = [version EXCEPT ![q.key] = @ + 1]
    BY <1>0, <1>1, <1>2, <2>1, <2>2 DEF Shelf!Committed, Callers
  <2>4. QED
    BY <1>0, <1>2, <2>2, <2>3, EditMade
<1>3. ASSUME NEW more \in {0, 1}, Shelf!Save(c, more)
      PROVE  ShelfInv'
  <2>1. PICK stock, supply : stock = r.form.stock + more /\ supply = product.supply + more
    OBVIOUS
  <2>2. stock \in Int /\ supply \in Int
    BY <1>1, <2>1 DEF Copies, Products
  <2>3. product' = [product EXCEPT !.stock = stock, !.supply = supply]
    BY <1>0, <1>1, <1>3, <2>1 DEF Shelf!Save, Shelf!SavedStock, Products
  <2>4. product' \in Products
    BY <1>1, <2>2, <2>3 DEF Products
  <2>5. UNCHANGED <<entry, excused, variant, ordered>> /\ Shelf!Committed(c) /\ r.pc = "write"
    BY <1>0, <1>3 DEF Shelf!Save
  <2>6. Balanced' /\ variant' \in Variants
    BY <1>1, <2>5 DEF ShelfInv, Balanced
  <2>7. QED
    BY <1>2, <2>4, <2>5, <2>6
<1>4. ASSUME NEW more \in {0, 1}, Shelf!SaveVariants(c, more)
      PROVE  ShelfInv'
  <2>1. PICK id, stock, base :
          /\ id = version["product"] + 2 /\ stock = Shelf!VariantStock(c, more)
          /\ base = Shelf!SavedStock(c, 0)
    OBVIOUS
  <2>2. id \in Int /\ stock \in Int /\ base \in Int
    <3>1. version["product"] \in Nat
      BY <1>1, CallersTyped
    <3>2. client[c].form.variantStock \in Int /\ client[c].form.stock \in Int
      BY <1>0, <1>1 DEF Copies
    <3>3. QED
      BY <2>1, <3>1, <3>2 DEF Shelf!VariantStock, Shelf!SavedStock
  <2>3. /\ product' = [product EXCEPT !.stock = base]
        /\ variant' = [id |-> id, stock |-> stock, placed |-> 0, supply |-> stock]
        /\ variant.id \notin ordered /\ ordered' = ordered
        /\ UNCHANGED <<entry, excused>> /\ Shelf!Committed(c) /\ r.pc = "write"
    BY <1>0, <1>4, <2>1 DEF Shelf!SaveVariants, Shelf!Deletable
  <2>4. product' \in Products /\ variant' \in Variants
    BY <1>1, <2>2, <2>3 DEF Products, Variants
  <2>5. ordered' = {}
    BY <2>3 DEF ShelfInv, Balanced
  <2>6. variant'.stock + variant'.placed = variant'.supply
    BY <2>2, <2>3
  <2>7. Balanced'
    BY <2>5, <2>6 DEF Balanced
  <2>8. QED
    BY <1>2, <2>3, <2>4, <2>7
<1>5. CASE Shelf!Delete(c)
  <2>1. /\ product' = [product EXCEPT !.deleted = TRUE] /\ Shelf!Committed(c) /\ r.pc = "write"
        /\ UNCHANGED <<entry, excused, variant, ordered>>
    BY <1>0, <1>5 DEF Shelf!Delete
  <2>2. product' \in Products
    BY <1>1, <2>1 DEF Products
  <2>3. Balanced' /\ variant' \in Variants
    BY <1>1, <2>1 DEF ShelfInv, Balanced
  <2>4. QED
    BY <1>2, <2>1, <2>2, <2>3
<1>6. CASE Shelf!EditCategories(c)
  <2>1. PICK q : q = [Shelf!NoClient EXCEPT !.pc = "invalidate", !.key = "categories"]
    OBVIOUS
  <2>2. q \in Callers /\ q.pc = "invalidate" /\ q.key = "categories"
    BY <2>1, CallersTyped DEF Callers
  <2>3. /\ client' = [client EXCEPT ![c] = q] /\ version' = [version EXCEPT ![q.key] = @ + 1]
        /\ client[c].pc = "idle" /\ UNCHANGED <<entry, excused, variant, ordered>>
    BY <1>6, <2>1, <2>2 DEF Shelf!EditCategories
  <2>4. PICK category : \E own \in {0, 1} : /\ category = product.category + own
                                             /\ product' = [product EXCEPT !.category = category]
    BY <1>1, <1>6 DEF Shelf!EditCategories, Products
  <2>5. category \in Int /\ product' = [product EXCEPT !.category = category]
    BY <1>1, <2>4 DEF Products
  <2>6. Balanced' /\ product' \in Products /\ variant' \in Variants
    BY <1>1, <2>3, <2>5 DEF ShelfInv, Balanced, Products
  <2>7. QED
    BY <2>2, <2>3, <2>6, EditMade
<1>7. CASE Shelf!ReviewsChange(c)
  <2>1. PICK q : q = [Shelf!NoClient EXCEPT !.pc = "invalidate"]
    OBVIOUS
  <2>2. q \in Callers /\ q.pc = "invalidate" /\ q.key = "product"
    BY <2>1, CallersTyped DEF Callers, Shelf!NoClient
  <2>3. /\ client' = [client EXCEPT ![c] = q] /\ version' = [version EXCEPT ![q.key] = @ + 1]
        /\ client[c].pc = "idle" /\ UNCHANGED <<entry, excused, product, variant, ordered>>
    BY <1>7, <2>1, <2>2 DEF Shelf!ReviewsChange, Shelf!rows
  <2>4. Balanced' /\ product' \in Products /\ variant' \in Variants
    BY <1>1, <2>3 DEF ShelfInv, Balanced
  <2>5. QED
    BY <2>2, <2>3, <2>4, EditMade
<1>8. QED
  BY <1>3, <1>4, <1>5, <1>6, <1>7

\* Carts, sales and cancellations.
LEMMA Sales ==
  ASSUME ShelfInv, Shelf!AddToCart \/ Shelf!Buy \/ Shelf!BuyVariant \/ Shelf!CancelSale
  PROVE  ShelfInv'
<1>1. UNCHANGED <<version, entry, excused, client>>
  BY DEF Shelf!AddToCart, Shelf!Buy, Shelf!BuyVariant, Shelf!CancelSale
<1>2. product \in Products /\ variant \in Variants /\ Balanced
  BY DEF ShelfInv, ShelfTypes
<1>3. Shelf!Sold(product) \in Products /\ Shelf!Restocked(product) \in Products
  <2>1. product.stock \in Int /\ product.placed \in Int
    BY <1>2 DEF Products
  <2>2. PICK a, b, d, e : /\ a = product.stock - 1 /\ b = product.placed + 1
                          /\ d = product.stock + 1 /\ e = product.placed - 1
    OBVIOUS
  <2>3. a \in Int /\ b \in Int /\ d \in Int /\ e \in Int
    BY <2>1, <2>2
  <2>4. /\ [product EXCEPT !.stock = a, !.placed = b] \in Products
        /\ [product EXCEPT !.stock = d, !.placed = e] \in Products
    BY <1>2, <2>3 DEF Products
  <2>5. /\ Shelf!Sold(product) = [product EXCEPT !.stock = a, !.placed = b]
        /\ Shelf!Restocked(product) = [product EXCEPT !.stock = d, !.placed = e]
    BY <1>2, <2>2 DEF Shelf!Sold, Shelf!Restocked, Products
  <2>6. QED
    BY <2>4, <2>5
<1>4. PICK a, b, d, e : /\ a = variant.stock - 1 /\ b = variant.placed + 1
                        /\ d = variant.stock + 1 /\ e = variant.placed - 1
  OBVIOUS
<1>5. /\ a \in Int /\ b \in Int /\ d \in Int /\ e \in Int
      /\ a + b = variant.supply /\ d + e = variant.supply
  BY <1>2, <1>4 DEF Variants, Balanced
<1>6. /\ Shelf!Sold(variant) = [variant EXCEPT !.stock = a, !.placed = b]
      /\ Shelf!Restocked(variant) = [variant EXCEPT !.stock = d, !.placed = e]
  BY <1>2, <1>4 DEF Shelf!Sold, Shelf!Restocked, Variants
<1>7. ASSUME NEW v, v = Shelf!Sold(variant) \/ v = Shelf!Restocked(variant)
      PROVE  v \in Variants /\ v.id = variant.id /\ v.stock + v.placed = v.supply
  <2>1. CASE v = [variant EXCEPT !.stock = a, !.placed = b]
    BY <1>2, <1>5, <2>1 DEF Variants
  <2>2. CASE v = [variant EXCEPT !.stock = d, !.placed = e]
    BY <1>2, <1>5, <2>2 DEF Variants
  <2>3. QED
    BY <1>6, <1>7, <2>1, <2>2
<1>8. CASE Shelf!AddToCart
  BY <1>1, <1>2, <1>8, RowsMove DEF Shelf!AddToCart, Balanced
<1>9. CASE Shelf!Buy
  BY <1>1, <1>2, <1>3, <1>9, RowsMove DEF Shelf!Buy, Balanced
<1>10. CASE Shelf!BuyVariant
  <2>1. variant' = Shelf!Sold(variant) /\ ordered' = ordered \cup {variant.id} /\ product' = product
    BY <1>10 DEF Shelf!BuyVariant
  <2>2. variant' \in Variants /\ variant'.id = variant.id /\ variant'.stock + variant'.placed = variant'.supply
    BY <1>7, <2>1
  <2>3. Balanced'
    BY <1>2, <2>1, <2>2 DEF Balanced
  <2>4. QED
    BY <1>1, <1>2, <2>1, <2>2, <2>3, RowsMove
<1>11. CASE Shelf!CancelSale
  <2>1. /\ ordered' = ordered
        /\ \/ product' = Shelf!Restocked(product) /\ variant' = variant
           \/ product' = product /\ variant' = Shelf!Restocked(variant)
    BY <1>11 DEF Shelf!CancelSale
  <2>2. CASE variant' = variant /\ product' = Shelf!Restocked(product)
    BY <1>1, <1>2, <1>3, <2>1, <2>2, RowsMove DEF Balanced
  <2>3. CASE variant' = Shelf!Restocked(variant) /\ product' = product
    <3>1. variant' \in Variants /\ variant'.id = variant.id /\ variant'.stock + variant'.placed = variant'.supply
      BY <1>7, <2>3
    <3>2. Balanced'
      BY <1>2, <2>1, <3>1 DEF Balanced
    <3>3. QED
      BY <1>1, <1>2, <2>3, <3>1, <3>2, RowsMove
  <2>4. QED
    BY <2>1, <2>2, <2>3
<1>12. QED
  BY <1>8, <1>9, <1>10, <1>11

LEMMA ShelfInit == Shelf!Init => ShelfInv
<1> SUFFICES ASSUME Shelf!Init
             PROVE  ShelfInv
  OBVIOUS
<1>1. PICK id \in {0, 1} : variant = [id |-> id, stock |-> 1, placed |-> 0, supply |-> 1]
  BY DEF Shelf!Init
<1>2. /\ version = [k \in Shelf!Keys |-> 0] /\ entry = [k \in Shelf!Keys |-> Shelf!NoCopy]
      /\ client = [c \in Clients |-> Shelf!NoClient] /\ excused = [k \in Shelf!Keys |-> "none"]
      /\ product = [deleted |-> FALSE, category |-> 0, stock |-> 1, placed |-> 0, supply |-> 1] /\ ordered = {}
  BY DEF Shelf!Init
<1>3. product \in Products /\ variant \in Variants
  BY <1>1, <1>2 DEF Products, Variants
<1>4. ShelfTypes
  BY <1>2, <1>3, CallersTyped DEF ShelfTypes, Excuses
<1>5. Shown
  BY <1>2 DEF Shown
<1>6. Balanced
  BY <1>1, <1>2 DEF Balanced
<1>7. QED
  BY <1>4, <1>5, <1>6 DEF ShelfInv

LEMMA ShelfInvariance == Shelf!Spec => []ShelfInv
<1>1. ShelfInv /\ [Shelf!Next]_Shelf!vars => ShelfInv'
  <2> SUFFICES ASSUME ShelfInv, [Shelf!Next]_Shelf!vars
               PROVE  ShelfInv'
    OBVIOUS
  <2>1. CASE UNCHANGED Shelf!vars
    <3>1. UNCHANGED <<version, entry, client, product, variant, ordered, excused>>
      BY <2>1 DEF Shelf!vars
    <3>2. product' \in Products /\ variant' \in Variants /\ Balanced'
      BY <3>1 DEF ShelfInv, ShelfTypes, Balanced
    <3>3. QED
      BY <3>1, <3>2, RowsMove
  <2>2. CASE Shelf!Next
    <3>1. "product" \in Shelf!Keys /\ "categories" \in Shelf!Keys
          /\ "look" \in {"look", "save", "delete"}
      BY CallersTyped
    <3>2. QED
      BY <2>2, <3>1, Reads, CacheMoves, Edits, Sales DEF Shelf!Next
  <2>3. QED
    BY <2>1, <2>2
<1>2. QED
  BY <1>1, ShelfInit, PTL DEF Shelf!Spec

\* An entry that lacks an edit of the product, its variants or its reviews, or
\* of the list of categories, has a DEL on its way, was written after the edit by
\* a request that had read before it, or its DEL failed (the caches of
\* ProductsService and CategoriesService; the renaming of a product's category is
\* an edit of the list alone).
THEOREM EditsComeThrough == Shelf!Spec => []EditsAreShown
<1>1. ShelfInv => EditsAreShown
  BY DEF ShelfInv, Shown, EditsAreShown, Shelf!EditsAreShown
<1>2. QED
  BY <1>1, ShelfInvariance, PTL

\* Whatever forms of whatever age are saved, an ordered variant keeps its row,
\* and its stock is what was supplied less what is sold (ProductsStore).
THEOREM OrderedVariantsStay == Shelf!Spec => []SoldVariantsStay
<1>1. ShelfInv => SoldVariantsStay
  BY DEF ShelfInv, Balanced, SoldVariantsStay, Shelf!SoldVariantsStay
<1>2. QED
  BY <1>1, ShelfInvariance, PTL

-----------------------------------------------------------------------------
(* RequestLimits: a window that Redis counts began when its key was made;   *)
(* what the account's limit accepted since, and what it accepted before,    *)
(* are a limit's worth each.                                                *)

Ages == 0 .. TTL
Counters == [hits : Nat, left : -1 .. TTL, block : -1 .. TTL]
Histories == [Ages -> 0 .. 2]

\* The accepted requests m that counter c allows for: none after a block began,
\* a limit's worth since the key was made, and another before that.
Window(c, m) ==
  /\ c.block >= 0 => /\ Total(Ages, m) <= 4
                     /\ \A n \in Ages : n < TTL - c.block => m[n] = 0
  /\ c.block < 0 /\ c.left >= 0 =>
       /\ Total(0 .. (TTL - c.left), m) <= c.hits /\ Total(0 .. (TTL - c.left), m) <= 2
       /\ Total((TTL - c.left + 1) .. TTL, m) <= 2
  /\ c.block < 0 /\ c.left < 0 => m[0] = 0 /\ Total(Ages, m) <= 2

\* Who was refused after waiting meets a block that outlasts the hits.
Patient(c, r) == r = 2 => c.left <= c.block

AccountKey == <<"account", Account>>

LimitTypes ==
  /\ counter \in [Limits!Names \X (Clients \cup {Account}) -> Counters]
  /\ asking \in [Clients -> {"nothing", "default", "account", "both"}]
  /\ recent \in Histories /\ refusals \in 0 .. 2

LimitInv ==
  LimitTypes /\ Window(counter[AccountKey], recent) /\ Patient(counter[AccountKey], refusals)

LEMMA SameUnits == \A I, n : Limits!Total(I, n) = Total(I, n)
BY DEF Limits!Total, Limits!UnitsOf, Limits!Cardinality, Total, UnitsOf, Cardinality

LEMMA Setup == TTL \in Nat /\ TTL >= 1 /\ Limits!Limit("account") = 2 /\ Limits!Ages = Ages
BY Assumptions DEF Limits!Limit, Limits!Ages, Ages

\* Sums over a part of the history, over two parts, and over its start.
LEMMA Parts ==
  ASSUME NEW m \in Histories, NEW a \in Nat, NEW b \in Int, b <= TTL
  PROVE  /\ IsFiniteSet(a .. b) /\ Total(a .. b, m) \in Nat
         /\ \A n \in a .. b : m[n] \in Nat
         /\ Total(a .. b, m) <= Total(Ages, m) /\ Total(Ages, m) \in Nat
<1>1. TTL \in Nat
  BY Setup
<1>2. IsFiniteSet(a .. b) /\ IsFiniteSet(Ages)
  BY <1>1, FS_Interval DEF Ages
<1>3. (a .. b) \subseteq Ages /\ \A n \in Ages : m[n] \in Nat
  BY <1>1 DEF Ages, Histories
<1>4. QED
  BY <1>2, <1>3, TotalType, TotalSubset

LEMMA Wholes ==
  ASSUME NEW m \in Histories
  PROVE  /\ Total(Ages, m) \in Nat
         /\ \A a \in 0 .. (TTL + 1) : Total(a .. TTL, m) \in Nat /\ Total(a .. TTL, m) <= Total(Ages, m)
         /\ \A b \in -1 .. TTL : Total(0 .. b, m) \in Nat
<1>1. TTL \in Nat
  BY Setup
<1>2. 0 \in Nat /\ TTL \in Int /\ TTL <= TTL
  BY <1>1
<1>3. ASSUME NEW a \in 0 .. (TTL + 1)
      PROVE  Total(a .. TTL, m) \in Nat /\ Total(a .. TTL, m) <= Total(Ages, m)
  <2>1. a \in Nat
    BY <1>1
  <2>2. QED
    BY <1>2, <2>1, Parts
<1>4. ASSUME NEW b \in -1 .. TTL
      PROVE  Total(0 .. b, m) \in Nat
  <2>1. b \in Int /\ b <= TTL
    BY <1>1
  <2>2. QED
    BY <1>2, <2>1, Parts
<1>5. Total(Ages, m) \in Nat
  BY <1>2, Parts
<1>6. QED
  BY <1>3, <1>4, <1>5

LEMMA Split ==
  ASSUME NEW m \in Histories, NEW b \in Int, -1 <= b, b <= TTL
  PROVE  Total(Ages, m) = Total(0 .. b, m) + Total((b + 1) .. TTL, m)
<1>1. TTL \in Nat
  BY Setup
<1>2. Ages = (0 .. b) \cup ((b + 1) .. TTL) /\ (0 .. b) \cap ((b + 1) .. TTL) = {}
  BY <1>1 DEF Ages
<1>3. /\ IsFiniteSet(0 .. b) /\ IsFiniteSet((b + 1) .. TTL)
      /\ \A n \in (0 .. b) \cup ((b + 1) .. TTL) : m[n] \in Nat
  BY <1>1, Parts
<1>4. PICK I, J : I = 0 .. b /\ J = (b + 1) .. TTL
  OBVIOUS
<1>5. Total(I \cup J, m) = Total(I, m) + Total(J, m)
  <2>1. IsFiniteSet(I) /\ IsFiniteSet(J) /\ I \cap J = {} /\ \A n \in I \cup J : m[n] \in Nat
    BY <1>2, <1>3, <1>4
  <2>2. QED
    BY <2>1, TotalUnion
<1>6. Ages = I \cup J
  BY <1>2, <1>4
<1>7. QED
  BY <1>4, <1>5, <1>6

LEMMA Starts ==
  ASSUME NEW m \in Histories, NEW b \in 0 .. TTL
  PROVE  Total(0 .. b, m) = m[0] + Total(1 .. b, m) /\ Total(1 .. b, m) \in Nat
<1>1. TTL \in Nat
  BY Setup
<1>2. 0 .. b = (1 .. b) \cup {0} /\ 0 \notin 1 .. b
  BY <1>1
<1>3. IsFiniteSet(1 .. b) /\ (\A n \in 0 .. b : m[n] \in Nat) /\ Total(1 .. b, m) \in Nat
  BY <1>1, Parts
<1>4. Total((1 .. b) \cup {0}, m) = Total(1 .. b, m) + m[0]
  BY <1>2, <1>3, TotalInsert
<1>5. m[0] \in Nat
  BY <1>1, <1>3
<1>6. Total(0 .. b, m) = Total(1 .. b, m) + m[0]
  BY <1>2, <1>4
<1>7. QED
  BY <1>3, <1>5, <1>6

\* One more request is accepted now.
LEMMA OneMore ==
  ASSUME NEW m \in Histories, NEW mm, mm = [m EXCEPT ![0] = @ + 1], m[0] + 1 <= 2
  PROVE  /\ mm \in Histories /\ mm[0] = m[0] + 1
         /\ \A b \in 0 .. TTL : Total(0 .. b, mm) = Total(0 .. b, m) + 1
         /\ \A a \in 1 .. (TTL + 1) : Total(a .. TTL, mm) = Total(a .. TTL, m)
<1>1. TTL \in Nat /\ 0 \in Ages /\ m[0] \in 0 .. 2
  BY Setup DEF Ages, Histories
<1>2. mm \in Histories /\ mm[0] = m[0] + 1 /\ \A n \in Ages : n # 0 => mm[n] = m[n]
  BY <1>1 DEF Histories
<1>3. ASSUME NEW a \in Nat, a >= 1, NEW b \in Int, b <= TTL
      PROVE  Total(a .. b, mm) = Total(a .. b, m)
  <2>1. \A n \in a .. b : mm[n] = m[n]
    BY <1>1, <1>2, <1>3 DEF Ages
  <2>2. QED
    BY <2>1, TotalAgrees
<1>4. ASSUME NEW b \in 0 .. TTL
      PROVE  Total(0 .. b, mm) = Total(0 .. b, m) + 1
  <2>1. Total(0 .. b, mm) = mm[0] + Total(1 .. b, mm) /\ Total(0 .. b, m) = m[0] + Total(1 .. b, m)
    BY <1>2, Starts
  <2>2. Total(1 .. b, mm) = Total(1 .. b, m) /\ Total(1 .. b, m) \in Nat
    <3>1. 1 \in Nat /\ 1 >= 1 /\ b \in Int /\ b <= TTL
      BY <1>1
    <3>2. QED
      BY <1>3, <3>1, Starts
  <2>3. QED
    BY <1>1, <1>2, <2>1, <2>2
<1>5. ASSUME NEW a \in 1 .. (TTL + 1)
      PROVE  Total(a .. TTL, mm) = Total(a .. TTL, m)
  <2>1. a \in Nat /\ a >= 1 /\ TTL \in Int /\ TTL <= TTL
    BY <1>1
  <2>2. QED
    BY <1>3, <2>1
<1>6. QED
  BY <1>2, <1>4, <1>5

\* A tick later, everything is one tick older, and the oldest is forgotten.
LEMMA OneOlder ==
  ASSUME NEW m \in Histories, NEW mm, mm = [n \in Ages |-> IF n = 0 THEN 0 ELSE m[n - 1]]
  PROVE  /\ mm \in Histories /\ mm[0] = 0
         /\ \A a \in Nat, b \in Int : b < TTL => Total((a + 1) .. (b + 1), mm) = Total(a .. b, m)
<1>1. TTL \in Nat /\ 0 \in Ages
  BY Setup DEF Ages
<1>2. mm[0] = 0 /\ \A n \in Ages : n # 0 => mm[n] = m[n - 1]
  BY <1>1
<1>3. mm \in Histories
  <2>1. \A n \in Ages : n # 0 => n - 1 \in Ages
    BY <1>1 DEF Ages
  <2>2. \A n \in Ages : mm[n] \in 0 .. 2
    BY <1>2, <2>1 DEF Histories
  <2>3. QED
    BY <2>2 DEF Histories
<1>4. ASSUME NEW a \in Nat, NEW b \in Int, b < TTL
      PROVE  Total((a + 1) .. (b + 1), mm) = Total(a .. b, m)
  <2>1. PICK f : f = [n \in a .. b |-> n + 1]
    OBVIOUS
  <2>2. f \in Bijection(a .. b, (a + 1) .. (b + 1))
    <3>1. f \in [a .. b -> (a + 1) .. (b + 1)]
      BY <2>1
    <3>2. \A x, y \in a .. b : f[x] = f[y] => x = y
      BY <2>1
    <3>3. \A y \in (a + 1) .. (b + 1) : \E x \in a .. b : f[x] = y
      <4>1. ASSUME NEW y \in (a + 1) .. (b + 1)
            PROVE  \E x \in a .. b : f[x] = y
        <5>1. y - 1 \in a .. b /\ (y - 1) + 1 = y
          OBVIOUS
        <5>2. f[y - 1] = y
          BY <2>1, <5>1
        <5>3. QED
          BY <5>1, <5>2
      <4>2. QED
        BY <4>1
    <3>4. QED
      BY <3>1, <3>2, <3>3 DEF Bijection, Injection, Surjection, IsInjective
  <2>3. \A n \in a .. b : mm[f[n]] = m[n]
    <3>1. ASSUME NEW n \in a .. b
          PROVE  mm[f[n]] = m[n]
      <4>1. f[n] = n + 1 /\ n + 1 \in Ages /\ n + 1 # 0 /\ (n + 1) - 1 = n
        BY <1>1, <1>4, <2>1 DEF Ages
      <4>2. QED
        BY <1>2, <4>1
    <3>2. QED
      BY <3>1
  <2>4. IsFiniteSet(a .. b) /\ \A n \in a .. b : m[n] \in Nat
    BY <1>1, <1>4, Parts
  <2>5. QED
    BY <2>2, <2>3, <2>4, TotalRenamed
<1>5. QED
  BY <1>2, <1>3, <1>4

\* What the script makes of a counter.
LEMMA CountedIs ==
  ASSUME NEW name \in Limits!Names, NEW c \in Counters, NEW d, d = Limits!Counted(name, c)
  PROVE  /\ d \in Counters
         /\ c.block > 0 => d.block = c.block
         /\ c.block = 0 => d.hits = 1 /\ d.left = TTL /\ d.block = -1
         /\ c.block < 0 => /\ d.left = (IF c.left <= 0 THEN TTL ELSE c.left)
                           /\ d.block \in {TTL, -1}
         /\ name = "account" /\ c.block < 0 =>
              LET hits == (IF c.left < 0 THEN 0 ELSE c.hits) + 1 IN
              d.block = (IF hits > 2 THEN TTL ELSE -1) /\ (hits <= 2 => d.hits = hits)
<1>1. PICK hits, limit, left, kept :
        /\ hits = (IF c.left < 0 THEN 0 ELSE c.hits) + 1 /\ limit = Limits!Limit(name)
        /\ left = (IF c.left <= 0 THEN TTL ELSE c.left)
        /\ kept = IF hits > limit THEN limit + 1 ELSE hits
  OBVIOUS
<1>2. /\ c.hits \in Nat /\ c.left \in -1 .. TTL /\ c.block \in -1 .. TTL /\ TTL \in Nat /\ TTL >= 1
      /\ hits \in Nat /\ hits >= 1 /\ limit \in {2, 3} /\ left \in -1 .. TTL /\ kept \in Nat
      /\ name = "account" => limit = 2
  <2>1. c.hits \in Nat /\ c.left \in -1 .. TTL /\ c.block \in -1 .. TTL
    BY DEF Counters
  <2>2. limit \in {2, 3} /\ (name = "account" => limit = 2)
    BY <1>1 DEF Limits!Limit
  <2>3. hits \in Nat /\ hits >= 1 /\ left \in -1 .. TTL
    BY <1>1, <2>1, Setup
  <2>4. QED
    BY <1>1, <2>1, <2>2, <2>3, Setup
<1>3. PICK next : next = [c EXCEPT !.hits = kept, !.left = left]
  OBVIOUS
<1>4. next \in Counters /\ next.block = c.block /\ next.left = left /\ next.hits = kept
  BY <1>2, <1>3 DEF Counters
<1>5. PICK block : block = IF hits > limit THEN TTL ELSE -1
  OBVIOUS
<1>6. block \in -1 .. TTL
  BY <1>2, <1>5
<1>7. PICK blocked : blocked = [next EXCEPT !.block = block]
  OBVIOUS
<1>8. blocked \in Counters /\ blocked.block = block /\ blocked.left = left /\ blocked.hits = kept
  BY <1>4, <1>6, <1>7 DEF Counters
<1>9. d = CASE c.block > 0 -> next
            [] c.block = 0 -> [hits |-> 1, left |-> TTL, block |-> -1]
            [] OTHER -> blocked
  BY <1>1, <1>3, <1>5, <1>7 DEF Limits!Counted, Limits!Left
<1>10. CASE c.block > 0
  <2>1. d = next
    BY <1>2, <1>9, <1>10
  <2>2. QED
    BY <1>2, <1>4, <1>10, <2>1
<1>11. CASE c.block = 0
  <2>1. d = [hits |-> 1, left |-> TTL, block |-> -1]
    BY <1>2, <1>9, <1>11
  <2>2. d \in Counters /\ d.hits = 1 /\ d.left = TTL /\ d.block = -1
    BY <1>2, <2>1 DEF Counters
  <2>3. QED
    BY <1>2, <1>11, <2>2
<1>12. CASE c.block < 0
  <2>1. d = blocked
    BY <1>2, <1>9, <1>12
  <2>2. block \in {TTL, -1} /\ (limit = 2 => block = (IF hits > 2 THEN TTL ELSE -1))
        /\ (limit = 2 /\ hits <= 2 => kept = hits)
    BY <1>1, <1>2, <1>5
  <2>3. QED
    BY <1>1, <1>2, <1>8, <1>12, <2>1, <2>2
<1>13. QED
  BY <1>2, <1>10, <1>11, <1>12

\* What a counter allows for, in one sum.
LEMMA WindowBound ==
  ASSUME NEW c \in Counters, NEW m \in Histories, Window(c, m)
  PROVE  Total(Ages, m) <= 4 /\ (c.block < 0 /\ c.left <= 0 => Total(Ages, m) <= 2)
<1>1. c.left \in -1 .. TTL /\ c.block \in -1 .. TTL /\ TTL \in Nat
  BY Setup DEF Counters
<1>2. CASE c.block >= 0 \/ c.left < 0
  BY <1>1, <1>2, Wholes DEF Window
<1>3. CASE c.block < 0 /\ c.left >= 0
  <2>1. PICK b : b = TTL - c.left
    OBVIOUS
  <2>2. b \in 0 .. TTL
    BY <1>1, <1>3, <2>1
  <2>3. Total(Ages, m) = Total(0 .. b, m) + Total((b + 1) .. TTL, m)
    BY <1>1, <2>2, Split
  <2>4. Total(0 .. b, m) \in Nat /\ Total((b + 1) .. TTL, m) \in Nat
    <3>1. b \in -1 .. TTL /\ b + 1 \in 0 .. (TTL + 1)
      BY <1>1, <2>2
    <3>2. QED
      BY <3>1, Wholes
  <2>5. Total(0 .. b, m) <= 2 /\ Total((b + 1) .. TTL, m) <= 2
    BY <1>3, <2>1 DEF Window
  <2>6. c.left <= 0 => Total(Ages, m) <= 2
    <3>1. c.left <= 0 => 0 .. b = Ages
      BY <1>1, <1>3, <2>1 DEF Ages
    <3>2. QED
      BY <2>5, <3>1
  <2>7. QED
    BY <2>3, <2>4, <2>5, <2>6
<1>4. QED
  BY <1>1, <1>2, <1>3

\* The limit refuses: the history stays.
LEMMA Refuses ==
  ASSUME NEW c \in Counters, NEW m \in Histories, Window(c, m),
         NEW d, d = Limits!Counted("account", c), d.block >= 0,
         NEW r \in 0 .. 2, Patient(c, r), NEW s, s = IF c.block > 0 THEN 1 ELSE r + 1
  PROVE  Window(d, m) /\ s \in 0 .. 2 /\ Patient(d, s)
<1>1. c.left \in -1 .. TTL /\ c.block \in -1 .. TTL /\ c.hits \in Nat /\ TTL \in Nat
  BY Setup DEF Counters
<1>2. /\ d \in Counters /\ (c.block > 0 => d.block = c.block) /\ c.block # 0
      /\ c.block < 0 => d.block = TTL /\ c.left >= 0
  <2>1. "account" \in Limits!Names
    BY DEF Limits!Names
  <2>2. QED
    BY <1>1, <2>1, CountedIs
<1>3. d.left \in -1 .. TTL /\ d.block \in -1 .. TTL
  BY <1>2 DEF Counters
<1>4. Window(d, m)
  <2>1. \A n \in Ages : n < TTL - d.block => m[n] = 0
    <3>1. CASE c.block > 0
      BY <1>1, <1>2, <3>1 DEF Window
    <3>2. CASE c.block < 0
      BY <1>1, <1>2, <3>2 DEF Ages
    <3>3. QED
      BY <1>1, <1>2, <3>1, <3>2
  <2>2. Total(Ages, m) <= 4
    BY WindowBound
  <2>3. QED
    BY <1>3, <2>1, <2>2 DEF Window
<1>5. s \in 0 .. 2 /\ Patient(d, s)
  <2>1. CASE c.block > 0
    BY <2>1 DEF Patient
  <2>2. CASE c.block < 0
    BY <1>1, <1>2, <1>3, <2>2 DEF Patient
  <2>3. QED
    BY <1>1, <1>2, <2>1, <2>2
<1>6. QED
  BY <1>4, <1>5

\* The limit accepts: one more request, in a window that has room for it.
LEMMA Accepts ==
  ASSUME NEW c \in Counters, NEW m \in Histories, Window(c, m),
         NEW d, d = Limits!Counted("account", c), d.block < 0,
         NEW mm, mm = [m EXCEPT ![0] = @ + 1]
  PROVE  mm \in Histories /\ Window(d, mm)
<1>1. /\ c.left \in -1 .. TTL /\ c.block \in -1 .. TTL /\ c.hits \in Nat /\ TTL \in Nat /\ TTL >= 1
      /\ 0 \in Ages /\ \A n \in Ages : m[n] \in 0 .. 2
  BY Setup DEF Counters, Ages, Histories
<1>2. "account" \in Limits!Names
  BY DEF Limits!Names
<1>3. d \in Counters /\ d.block = -1 /\ c.block <= 0
  BY <1>1, <1>2, CountedIs
\* The window begins now, or goes on.
<1>4. ASSUME m[0] + 1 <= d.hits, d.hits <= 2, d.left = TTL, Total(1 .. TTL, m) <= 2
      PROVE  mm \in Histories /\ Window(d, mm)
  <2>1. /\ mm \in Histories /\ Total(0 .. 0, mm) = Total(0 .. 0, m) + 1
        /\ Total(1 .. TTL, mm) = Total(1 .. TTL, m)
    <3>1. m[0] + 1 <= 2 /\ 0 \in 0 .. TTL /\ 1 \in 1 .. (TTL + 1)
      <4>1. d.hits \in Nat
        BY <1>3 DEF Counters
      <4>2. QED
        BY <1>1, <1>4, <4>1
    <3>2. QED
      BY <3>1, OneMore
  <2>2. Total(0 .. 0, m) = m[0]
    <3>0. 1 .. 0 = {} /\ 0 \in 0 .. TTL
      BY <1>1
    <3>1. Total(0 .. 0, m) = m[0] + Total(1 .. 0, m)
      BY <3>0, Starts
    <3>2. Total({}, m) = 0
      BY TotalNone
    <3>3. Total(0 .. 0, m) = m[0] + 0
      BY <3>0, <3>1, <3>2
    <3>4. QED
      BY <1>1, <3>3
  <2>3. TTL - d.left = 0 /\ TTL - d.left + 1 = 1
    BY <1>1, <1>4
  <2>4. Total(0 .. 0, mm) <= d.hits /\ Total(0 .. 0, mm) <= 2
    <3>1. d.hits \in Nat
      BY <1>3 DEF Counters
    <3>2. QED
      BY <1>1, <1>4, <2>1, <2>2, <3>1
  <2>5. Total(1 .. TTL, mm) <= 2 /\ d.left >= 0
    BY <1>1, <1>4, <2>1
  <2>6. /\ Total(0 .. (TTL - d.left), mm) <= d.hits /\ Total(0 .. (TTL - d.left), mm) <= 2
        /\ Total((TTL - d.left + 1) .. TTL, mm) <= 2
    BY <2>3, <2>4, <2>5
  <2>7. d.block < 0 /\ ~(d.block >= 0) /\ ~(d.left < 0)
    BY <1>1, <1>3, <1>4
  <2>8. QED
    BY <2>1, <2>6, <2>7 DEF Window
<1>5. CASE c.block = 0
  <2>1. m[0] = 0
    BY <1>1, <1>5 DEF Window
  <2>2. d.hits = 1 /\ d.left = TTL
    BY <1>2, <1>5, CountedIs
  <2>3. Total(1 .. TTL, m) <= 2
    <3>1. PICK b : b = TTL - 1
      OBVIOUS
    <3>2. b \in Int /\ 0 <= b /\ b <= TTL /\ b + 1 = TTL
      BY <1>1, <3>1
    <3>3. \A n \in 0 .. b : m[n] = 0
      BY <1>1, <1>5, <3>1 DEF Window, Ages
    <3>4. Total(0 .. b, m) = 0
      BY <3>3, TotalNone
    <3>5. Total(Ages, m) = 0 + Total(TTL .. TTL, m)
      <4>1. Total(Ages, m) = Total(0 .. b, m) + Total((b + 1) .. TTL, m)
        BY <3>2, Split
      <4>2. QED
        BY <3>2, <3>4, <4>1
    <3>6. Total(TTL .. TTL, m) <= 2
      <4>1. TTL .. TTL = {} \cup {TTL} /\ TTL \notin {} /\ m[TTL] \in 0 .. 2
        BY <1>1 DEF Ages
      <4>2. Total({} \cup {TTL}, m) = Total({}, m) + m[TTL]
        BY <4>1, FS_EmptySet, TotalInsert
      <4>3. Total({}, m) = 0
        BY TotalNone
      <4>4. Total(TTL .. TTL, m) = 0 + m[TTL]
        BY <4>1, <4>2, <4>3
      <4>5. QED
        BY <4>1, <4>4
    <3>7. Total(1 .. TTL, m) <= Total(Ages, m) /\ Total(Ages, m) \in Nat /\ Total(1 .. TTL, m) \in Nat
          /\ Total(TTL .. TTL, m) \in Nat
      <4>1. 1 \in 0 .. (TTL + 1) /\ TTL \in 0 .. (TTL + 1)
        BY <1>1
      <4>2. QED
        BY <4>1, Wholes
    <3>8. QED
      BY <3>5, <3>6, <3>7
  <2>4. QED
    BY <1>4, <2>1, <2>2, <2>3
<1>6. CASE c.block < 0 /\ c.left <= 0
  <2>1. Total(Ages, m) <= 2 /\ Total(Ages, m) \in Nat
    BY <1>6, WindowBound, Wholes
  <2>2. Total(1 .. TTL, m) <= 2
    <3>1. Total(1 .. TTL, m) <= Total(Ages, m) /\ Total(1 .. TTL, m) \in Nat
      <4>1. 1 \in 0 .. (TTL + 1)
        BY <1>1
      <4>2. QED
        BY <4>1, Wholes
    <3>2. QED
      BY <2>1, <3>1
  <2>3. PICK hits : hits = (IF c.left < 0 THEN 0 ELSE c.hits) + 1
    OBVIOUS
  <2>4. d.block = (IF hits > 2 THEN TTL ELSE -1) /\ (hits <= 2 => d.hits = hits) /\ d.left = TTL
    BY <1>2, <1>6, <2>3, CountedIs
  <2>5. hits \in Nat /\ hits <= 2 /\ d.hits = hits
    BY <1>1, <1>3, <2>3, <2>4
  <2>6. m[0] + 1 <= hits
    <3>1. CASE c.left < 0
      BY <1>1, <1>6, <2>3, <3>1 DEF Window
    <3>2. CASE c.left = 0
      <4>1. TTL - c.left = TTL /\ hits = c.hits + 1 /\ TTL \in 0 .. TTL
        BY <1>1, <2>3, <3>2
      <4>2. Total(0 .. TTL, m) <= c.hits
        BY <1>6, <3>2, <4>1 DEF Window
      <4>3. Total(0 .. TTL, m) = m[0] + Total(1 .. TTL, m) /\ Total(1 .. TTL, m) \in Nat
        BY <4>1, Starts
      <4>4. QED
        BY <1>1, <4>1, <4>2, <4>3
    <3>3. QED
      BY <1>1, <1>6, <3>1, <3>2
  <2>7. QED
    BY <1>4, <2>2, <2>4, <2>5, <2>6
<1>7. CASE c.block < 0 /\ c.left > 0
  <2>1. PICK b : b = TTL - c.left
    OBVIOUS
  <2>2. /\ b \in 0 .. TTL /\ b + 1 \in 1 .. (TTL + 1)
        /\ Total(0 .. b, m) <= c.hits /\ Total((b + 1) .. TTL, m) <= 2
    BY <1>1, <1>7, <2>1 DEF Window
  <2>3. /\ d.block = (IF c.hits + 1 > 2 THEN TTL ELSE -1)
        /\ c.hits + 1 <= 2 => d.hits = c.hits + 1
        /\ d.left = c.left
    BY <1>1, <1>2, <1>7, CountedIs
  <2>4. c.hits + 1 <= 2 /\ d.hits = c.hits + 1
    BY <1>1, <1>3, <2>3
  <2>5. Total(0 .. b, m) = m[0] + Total(1 .. b, m) /\ Total(1 .. b, m) \in Nat
    BY <2>2, Starts
  <2>6. m[0] + 1 <= 2
    BY <1>1, <2>2, <2>4, <2>5
  <2>7. /\ mm \in Histories /\ Total(0 .. b, mm) = Total(0 .. b, m) + 1
        /\ Total((b + 1) .. TTL, mm) = Total((b + 1) .. TTL, m)
    BY <2>2, <2>6, OneMore
  <2>8. Total(0 .. b, m) \in Nat
    BY <1>1, <2>5
  <2>9. TTL - d.left = b /\ Total(0 .. b, mm) <= d.hits /\ Total(0 .. b, mm) <= 2
    <3>1. TTL - d.left = b
      BY <2>1, <2>3
    <3>2. PICK x : x = Total(0 .. b, m)
      OBVIOUS
    <3>3. x \in Nat /\ x <= c.hits /\ Total(0 .. b, mm) = x + 1
      BY <2>2, <2>7, <2>8, <3>2
    <3>4. Total(0 .. b, mm) <= d.hits /\ Total(0 .. b, mm) <= 2
      BY <1>1, <2>4, <3>3
    <3>5. QED
      BY <3>1, <3>4
  <2>10. QED
    BY <1>1, <1>3, <1>7, <2>2, <2>3, <2>7, <2>9 DEF Window
<1>8. QED
  BY <1>1, <1>3, <1>5, <1>6, <1>7

LEMMA LessIs ==
  ASSUME NEW left \in -1 .. TTL
  PROVE  /\ Limits!Less(left) \in -1 .. TTL
         /\ Limits!Less(left) = (IF left < 0 THEN -1 ELSE left - 1)
BY Setup DEF Limits!Less

\* A tick: keys lose time, and the history gets older.
LEMMA TimePasses ==
  ASSUME NEW c \in Counters, NEW m \in Histories, Window(c, m),
         NEW d, d = [hits |-> IF c.left <= 0 THEN 0 ELSE c.hits,
                     left |-> Limits!Less(c.left), block |-> Limits!Less(c.block)],
         NEW mm, mm = [n \in Ages |-> IF n = 0 THEN 0 ELSE m[n - 1]]
  PROVE  mm \in Histories /\ Window(d, mm) /\ \A r \in 0 .. 2 : Patient(c, r) => Patient(d, r)
<1>1. /\ c.left \in -1 .. TTL /\ c.block \in -1 .. TTL /\ c.hits \in Nat /\ TTL \in Nat /\ TTL >= 1
      /\ 0 \in Ages /\ \A n \in Ages : m[n] \in 0 .. 2
  BY Setup DEF Counters, Ages, Histories
<1>2. /\ d.left = (IF c.left < 0 THEN -1 ELSE c.left - 1)
      /\ d.block = (IF c.block < 0 THEN -1 ELSE c.block - 1)
      /\ c.left > 0 => d.hits = c.hits
      /\ d.hits \in Nat
  BY <1>1, LessIs
<1>3. /\ mm \in Histories /\ mm[0] = 0
      /\ \A a \in Nat, b \in Int : b < TTL => Total((a + 1) .. (b + 1), mm) = Total(a .. b, m)
  BY OneOlder
<1>4. \A n \in Ages : n # 0 => mm[n] = m[n - 1] /\ n - 1 \in Ages
  BY <1>1 DEF Ages
\* What was accepted up to b ticks ago.
<1>5. ASSUME NEW b \in 0 .. TTL
      PROVE  Total(0 .. b, mm) = Total(0 .. (b - 1), m) /\ Total(0 .. (b - 1), m) \in Nat
  <2>1. Total(0 .. b, mm) = mm[0] + Total(1 .. b, mm) /\ Total(1 .. b, mm) \in Nat
    BY <1>3, Starts
  <2>2. 0 \in Nat /\ b - 1 \in Int /\ b - 1 < TTL /\ 0 + 1 = 1 /\ (b - 1) + 1 = b
    BY <1>1
  <2>3. Total((0 + 1) .. ((b - 1) + 1), mm) = Total(0 .. (b - 1), m)
    BY <1>3, <2>2
  <2>4. Total(1 .. b, mm) = Total(0 .. (b - 1), m)
    BY <2>2, <2>3
  <2>5. QED
    BY <1>3, <2>1, <2>4
<1>6. Total(Ages, mm) <= Total(Ages, m) /\ Total(Ages, mm) \in Nat /\ Total(Ages, m) \in Nat
  <2>1. TTL \in 0 .. TTL
    BY <1>1
  <2>2. Total(Ages, mm) = Total(0 .. (TTL - 1), m)
    BY <1>5, <2>1 DEF Ages
  <2>3. Total(0 .. (TTL - 1), m) <= Total(Ages, m) /\ Total(Ages, m) \in Nat
        /\ Total(0 .. (TTL - 1), m) \in Nat
    <3>1. 0 \in Nat /\ TTL - 1 \in Int /\ TTL - 1 <= TTL
      BY <1>1
    <3>2. QED
      BY <3>1, Parts
  <2>4. QED
    BY <2>2, <2>3
<1>7. CASE c.block > 0
  <2>1. d.block = c.block - 1 /\ d.block >= 0
    BY <1>1, <1>2, <1>7
  <2>2. \A n \in Ages : n < TTL - d.block => mm[n] = 0
    <3>1. ASSUME NEW n \in Ages, n < TTL - d.block, n # 0
          PROVE  mm[n] = 0
      <4>1. n - 1 \in Ages /\ mm[n] = m[n - 1] /\ n - 1 < TTL - c.block
        BY <1>1, <1>4, <2>1, <3>1 DEF Ages
      <4>2. QED
        BY <1>1, <1>7, <4>1 DEF Window
    <3>2. QED
      BY <1>3, <3>1
  <2>3. Total(Ages, mm) <= 4
    BY <1>1, <1>6, <1>7 DEF Window
  <2>7. ~(d.block < 0)
    BY <1>1, <1>7, <2>1
  <2>4. Window(d, mm)
    BY <2>2, <2>3, <2>7 DEF Window
  <2>5. \A r \in 0 .. 2 : Patient(c, r) => Patient(d, r)
    BY <1>1, <1>2 DEF Patient
  <2>6. QED
    BY <1>3, <2>4, <2>5
<1>8. CASE c.block = 0
  <2>1. d.block = -1
    BY <1>2, <1>8
  <2>2. \A n \in Ages : mm[n] = 0
    <3>1. ASSUME NEW n \in Ages, n # 0
          PROVE  mm[n] = 0
      <4>1. n - 1 \in Ages /\ mm[n] = m[n - 1] /\ n - 1 < TTL - c.block
        BY <1>1, <1>4, <1>8, <3>1 DEF Ages
      <4>2. QED
        BY <1>1, <1>8, <4>1 DEF Window
    <3>2. QED
      BY <1>3, <3>1
  <2>3. \A a \in Nat, b \in Int : b <= TTL => Total(a .. b, mm) = 0
    <3>1. ASSUME NEW a \in Nat, NEW b \in Int, b <= TTL
          PROVE  Total(a .. b, mm) = 0
      <4>1. \A n \in a .. b : mm[n] = 0
        BY <1>1, <2>2, <3>1 DEF Ages
      <4>2. QED
        BY <4>1, TotalNone
    <3>2. QED
      BY <3>1
  <2>4. Total(Ages, mm) = 0
    BY <2>2, TotalNone
  <2>5. d.left >= 0 => /\ Total(0 .. (TTL - d.left), mm) = 0
                       /\ Total((TTL - d.left + 1) .. TTL, mm) = 0
    <3>1. d.left >= 0 => /\ TTL - d.left \in Int /\ TTL - d.left <= TTL /\ TTL - d.left + 1 \in Nat
                         /\ 0 \in Nat /\ TTL \in Int /\ TTL <= TTL
      BY <1>1, <1>2
    <3>2. QED
      BY <2>3, <3>1
  <2>6. Window(d, mm)
    BY <1>2, <1>3, <2>1, <2>4, <2>5 DEF Window
  <2>7. \A r \in 0 .. 2 : Patient(c, r) => Patient(d, r)
    BY <1>1, <1>2 DEF Patient
  <2>8. QED
    BY <1>3, <2>6, <2>7
<1>9. CASE c.block < 0 /\ c.left <= 0
  <2>1. d.block = -1 /\ d.left = -1
    BY <1>1, <1>2, <1>9
  <2>2. Total(Ages, m) <= 2
    BY <1>9, WindowBound
  <2>3. Total(Ages, mm) <= 2
    BY <1>6, <2>2
  <2>4. Window(d, mm)
    BY <1>3, <2>1, <2>3 DEF Window
  <2>5. \A r \in 0 .. 2 : Patient(c, r) => Patient(d, r)
    BY <2>1 DEF Patient
  <2>6. QED
    BY <1>3, <2>4, <2>5
<1>10. CASE c.block < 0 /\ c.left > 0
  <2>1. PICK b : b = TTL - c.left
    OBVIOUS
  <2>2. /\ b \in 0 .. TTL /\ b + 1 \in 0 .. TTL /\ b + 2 \in 0 .. (TTL + 1) /\ b + 1 \in Nat
        /\ d.block = -1 /\ d.left >= 0 /\ TTL - d.left = b + 1 /\ TTL - d.left + 1 = b + 2
        /\ (b + 1) - 1 = b /\ (b + 1) + 1 = b + 2 /\ (TTL - 1) + 1 = TTL
        /\ TTL - 1 \in Int /\ TTL - 1 < TTL /\ d.hits = c.hits
    BY <1>1, <1>2, <1>10, <2>1
  <2>3. Total(0 .. b, m) <= c.hits /\ Total(0 .. b, m) <= 2 /\ Total((b + 1) .. TTL, m) <= 2
    BY <1>1, <1>10, <2>1 DEF Window
  <2>4. Total(0 .. (b + 1), mm) = Total(0 .. b, m)
    BY <1>5, <2>2
  <2>5. Total((b + 2) .. TTL, mm) = Total((b + 1) .. (TTL - 1), m)
    <3>1. Total(((b + 1) + 1) .. ((TTL - 1) + 1), mm) = Total((b + 1) .. (TTL - 1), m)
      BY <1>3, <2>2
    <3>2. QED
      BY <2>2, <3>1
  <2>6. Total((b + 1) .. (TTL - 1), m) <= 2
    <3>1. IsFiniteSet((b + 1) .. TTL) /\ \A n \in (b + 1) .. TTL : m[n] \in Nat
      <4>1. TTL \in Int /\ TTL <= TTL
        BY <1>1
      <4>2. QED
        BY <2>2, <4>1, Parts
    <3>2. PICK I, J : I = (b + 1) .. (TTL - 1) /\ J = (b + 1) .. TTL
      OBVIOUS
    <3>3. I \subseteq J
      BY <1>1, <2>2, <3>2
    <3>4. Total(I, m) <= Total(J, m)
      BY <3>1, <3>2, <3>3, TotalSubset
    <3>5. Total(I, m) \in Nat /\ Total(J, m) \in Nat
      <4>1. \A n \in I : m[n] \in Nat
        BY <3>1, <3>2, <3>3
      <4>2. IsFiniteSet(I) /\ IsFiniteSet(J)
        BY <3>1, <3>2, <3>3, FS_Subset
      <4>3. QED
        BY <3>1, <3>2, <4>1, <4>2, TotalType
    <3>6. QED
      BY <2>3, <3>2, <3>4, <3>5
  <2>7. /\ Total(0 .. (TTL - d.left), mm) <= d.hits /\ Total(0 .. (TTL - d.left), mm) <= 2
        /\ Total((TTL - d.left + 1) .. TTL, mm) <= 2
    BY <2>2, <2>3, <2>4, <2>5, <2>6
  <2>11. d.block < 0 /\ ~(d.block >= 0) /\ ~(d.left < 0)
    BY <1>1, <1>2, <1>10, <2>2
  <2>8. Window(d, mm)
    BY <2>7, <2>11 DEF Window
  <2>9. \A r \in 0 .. 2 : Patient(c, r) => Patient(d, r)
    BY <1>1, <1>2 DEF Patient
  <2>10. QED
    BY <1>3, <2>8, <2>9
<1>11. QED
  BY <1>1, <1>7, <1>8, <1>9, <1>10

LEMMA LimitInit == Limits!Init => LimitInv
<1> SUFFICES ASSUME Limits!Init
             PROVE  LimitInv
  OBVIOUS
<1>1. /\ counter = [k \in Limits!Names \X (Clients \cup {Account}) |-> Limits!NoCounter]
      /\ asking = [c \in Clients |-> "nothing"] /\ recent = [n \in Ages |-> 0] /\ refusals = 0
  BY Setup DEF Limits!Init
<1>2. /\ Limits!NoCounter \in Counters /\ Limits!NoCounter.left = -1 /\ Limits!NoCounter.block = -1
  BY Setup DEF Limits!NoCounter, Counters
<1>3. AccountKey \in Limits!Names \X (Clients \cup {Account}) /\ 0 \in Ages
  BY Setup DEF AccountKey, Limits!Names, Ages
<1>4. LimitTypes
  BY <1>1, <1>2 DEF LimitTypes, Histories
<1>5. counter[AccountKey] = Limits!NoCounter
  BY <1>1, <1>3
<1>6. Total(Ages, recent) = 0 /\ recent[0] = 0
  BY <1>1, <1>3, TotalNone
<1>7. Window(counter[AccountKey], recent) /\ Patient(counter[AccountKey], refusals)
  BY <1>1, <1>2, <1>5, <1>6 DEF Window, Patient
<1>8. QED
  BY <1>4, <1>7 DEF LimitInv

\* One answer of Redis, to a request about the account or about the address.
LEMMA Counts ==
  ASSUME LimitInv, NEW c \in Clients, Limits!Increment(c)
  PROVE  LimitInv'
<1>1. PICK name, k, before, after :
        /\ name = Limits!Asked(c) /\ k = Limits!Counter(name, c) /\ before = counter[k]
        /\ after = Limits!Counted(name, before)
  OBVIOUS
<1>2. /\ counter' = [counter EXCEPT ![k] = after]
      /\ asking' = [asking EXCEPT ![c] = IF Limits!IsRefused(after) THEN "nothing" ELSE Limits!Accepted(c)]
      /\ IF name = "account" THEN Limits!Record(before, after) ELSE UNCHANGED <<recent, refusals>>
  BY <1>1 DEF Limits!Increment
<1>3. LimitTypes /\ Window(counter[AccountKey], recent) /\ Patient(counter[AccountKey], refusals)
  BY DEF LimitInv
<1>4. /\ name \in Limits!Names /\ k \in Limits!Names \X (Clients \cup {Account})
      /\ name = "account" => k = AccountKey
      /\ name # "account" => k # AccountKey
      /\ AccountKey \in Limits!Names \X (Clients \cup {Account})
  BY <1>1 DEF Limits!Asked, Limits!Counter, Limits!Tracker, Limits!Names, AccountKey
<1>5. before \in Counters /\ after \in Counters
  BY <1>1, <1>3, <1>4, CountedIs DEF LimitTypes
<1>6. asking' \in [Clients -> {"nothing", "default", "account", "both"}]
  BY <1>2, <1>3 DEF LimitTypes, Limits!Accepted
<1>7. counter' \in [Limits!Names \X (Clients \cup {Account}) -> Counters]
  BY <1>2, <1>3, <1>5 DEF LimitTypes
<1>8. CASE name # "account"
  <2>1. counter'[AccountKey] = counter[AccountKey] /\ UNCHANGED <<recent, refusals>>
    BY <1>2, <1>3, <1>4, <1>8 DEF LimitTypes
  <2>2. LimitTypes'
    BY <1>3, <1>6, <1>7, <2>1 DEF LimitTypes
  <2>3. Window(counter'[AccountKey], recent') /\ Patient(counter'[AccountKey], refusals')
    BY <1>3, <2>1
  <2>4. QED
    BY <2>2, <2>3 DEF LimitInv, AccountKey
<1>9. CASE name = "account"
  <2>1. counter'[AccountKey] = after /\ before = counter[AccountKey]
    BY <1>1, <1>2, <1>3, <1>4, <1>9 DEF LimitTypes
  <2>2. PICK m, r : m = recent /\ r = refusals
    OBVIOUS
  <2>3. m \in Histories /\ r \in 0 .. 2 /\ Window(before, m) /\ Patient(before, r)
    BY <1>3, <2>1, <2>2 DEF LimitTypes
  <2>4. recent' \in Histories /\ refusals' \in 0 .. 2 /\ Window(after, recent') /\ Patient(after, refusals')
    <3>1. CASE after.block >= 0
      <4>1. PICK s : s = IF before.block > 0 THEN 1 ELSE r + 1
        OBVIOUS
      <4>2. recent' = m /\ refusals' = s
        BY <1>2, <1>9, <2>2, <3>1, <4>1 DEF Limits!Record, Limits!IsRefused
      <4>3. Window(after, m) /\ s \in 0 .. 2 /\ Patient(after, s)
        BY <1>1, <1>5, <1>9, <2>3, <3>1, <4>1, Refuses
      <4>4. QED
        BY <2>3, <4>2, <4>3
    <3>2. CASE after.block < 0
      <4>1. recent' = [m EXCEPT ![0] = @ + 1] /\ refusals' = 0
        <5>1. ~Limits!IsRefused(after)
          BY <1>5, <3>2 DEF Limits!IsRefused, Counters
        <5>2. QED
          BY <1>2, <1>9, <2>2, <5>1 DEF Limits!Record
      <4>2. recent' \in Histories /\ Window(after, recent')
        BY <1>1, <1>5, <1>9, <2>3, <3>2, <4>1, Accepts
      <4>3. QED
        BY <4>1, <4>2 DEF Patient
    <3>3. QED
      BY <1>5, <3>1, <3>2 DEF Counters
  <2>5. LimitTypes'
    BY <1>6, <1>7, <2>4 DEF LimitTypes
  <2>6. Window(counter'[AccountKey], recent') /\ Patient(counter'[AccountKey], refusals')
    BY <2>1, <2>4
  <2>7. QED
    BY <2>5, <2>6 DEF LimitInv, AccountKey
<1>10. QED
  BY <1>8, <1>9

LEMMA Ticks ==
  ASSUME LimitInv, Limits!Tick
  PROVE  LimitInv'
<1>1. LimitTypes /\ Window(counter[AccountKey], recent) /\ Patient(counter[AccountKey], refusals)
  BY DEF LimitInv
<1>2. AccountKey \in Limits!Names \X (Clients \cup {Account})
  BY DEF AccountKey, Limits!Names
<1>3. PICK c, m, r : c = counter[AccountKey] /\ m = recent /\ r = refusals
  OBVIOUS
<1>4. PICK d, mm :
        /\ d = [hits |-> IF c.left <= 0 THEN 0 ELSE c.hits,
                left |-> Limits!Less(c.left), block |-> Limits!Less(c.block)]
        /\ mm = [n \in Ages |-> IF n = 0 THEN 0 ELSE m[n - 1]]
  OBVIOUS
<1>5. DOMAIN counter = Limits!Names \X (Clients \cup {Account})
  BY <1>1 DEF LimitTypes
<1>6. /\ counter' = [k \in Limits!Names \X (Clients \cup {Account}) |->
                       [hits |-> IF counter[k].left <= 0 THEN 0 ELSE counter[k].hits,
                        left |-> Limits!Less(counter[k].left), block |-> Limits!Less(counter[k].block)]]
      /\ recent' = mm /\ UNCHANGED <<asking, refusals>>
  BY <1>3, <1>4, <1>5, Setup DEF Limits!Tick
<1>7. counter'[AccountKey] = d
  BY <1>2, <1>3, <1>4, <1>6
<1>8. c \in Counters /\ m \in Histories /\ r \in 0 .. 2 /\ Window(c, m) /\ Patient(c, r)
  BY <1>1, <1>2, <1>3 DEF LimitTypes
<1>9. mm \in Histories /\ Window(d, mm) /\ Patient(d, r)
  BY <1>4, <1>8, TimePasses
<1>10. counter' \in [Limits!Names \X (Clients \cup {Account}) -> Counters]
  <2>1. ASSUME NEW k \in Limits!Names \X (Clients \cup {Account})
        PROVE  counter'[k] \in Counters
    <3>1. PICK b : b = counter[k]
      OBVIOUS
    <3>2. b.hits \in Nat /\ b.left \in -1 .. TTL /\ b.block \in -1 .. TTL
      BY <1>1, <3>1 DEF LimitTypes, Counters
    <3>3. Limits!Less(b.left) \in -1 .. TTL /\ Limits!Less(b.block) \in -1 .. TTL
      BY <3>2, LessIs
    <3>4. counter'[k] = [hits |-> IF b.left <= 0 THEN 0 ELSE b.hits,
                         left |-> Limits!Less(b.left), block |-> Limits!Less(b.block)]
      BY <1>6, <3>1
    <3>5. QED
      BY <3>2, <3>3, <3>4 DEF Counters
  <2>2. QED
    BY <1>6, <2>1
<1>11. LimitTypes'
  BY <1>1, <1>6, <1>9, <1>10 DEF LimitTypes
<1>12. Window(counter'[AccountKey], recent') /\ Patient(counter'[AccountKey], refusals')
  BY <1>3, <1>6, <1>7, <1>9
<1>13. QED
  BY <1>11, <1>12 DEF LimitInv, AccountKey

LEMMA LimitInvariance == Limits!Spec => []LimitInv
<1>1. LimitInv /\ [Limits!Next]_Limits!vars => LimitInv'
  <2> SUFFICES ASSUME LimitInv, [Limits!Next]_Limits!vars
               PROVE  LimitInv'
    OBVIOUS
  <2>1. ASSUME UNCHANGED <<counter, recent, refusals>>,
               asking' \in [Clients -> {"nothing", "default", "account", "both"}]
        PROVE  LimitInv'
    <3>1. LimitTypes'
      BY <2>1 DEF LimitInv, LimitTypes
    <3>2. Window(counter'[AccountKey], recent') /\ Patient(counter'[AccountKey], refusals')
      BY <2>1 DEF LimitInv
    <3>3. QED
      BY <3>1, <3>2 DEF LimitInv, AccountKey
  <2>2. asking \in [Clients -> {"nothing", "default", "account", "both"}]
    BY DEF LimitInv, LimitTypes
  <2>3. ASSUME NEW c \in Clients, NEW identified \in BOOLEAN, Limits!Request(c, identified)
        PROVE  LimitInv'
    BY <2>1, <2>2, <2>3 DEF Limits!Request
  <2>4. ASSUME NEW c \in Clients, Limits!Fallback(c)
        PROVE  LimitInv'
    BY <2>1, <2>2, <2>4 DEF Limits!Fallback, Limits!Accepted
  <2>5. CASE UNCHANGED Limits!vars
    BY <2>1, <2>2, <2>5 DEF Limits!vars
  <2>6. QED
    BY <2>3, <2>4, <2>5, Counts, Ticks DEF Limits!Next
<1>2. QED
  BY <1>1, LimitInit, PTL DEF Limits!Spec

\* However many addresses ask about an account, for a window of any length, two
\* limits' worth of them pass in any window at most (ThrottlerStorageRedisService).
THEOREM LimitsBoundAnyWindow == Limits!Spec => []RollingBound
<1>1. LimitInv => RollingBound
  <2> SUFFICES ASSUME LimitInv
               PROVE  Limits!Total(Limits!Ages, recent) <= 2 * Limits!Limit("account")
    BY DEF RollingBound, Limits!RollingBound
  <2>1. counter[AccountKey] \in Counters /\ recent \in Histories /\ Window(counter[AccountKey], recent)
    BY DEF LimitInv, LimitTypes, AccountKey, Limits!Names
  <2>2. Total(Ages, recent) <= 4
    BY <2>1, WindowBound
  <2>3. QED
    BY <2>2, SameUnits, Setup
<1>2. QED
  BY <1>1, LimitInvariance, PTL

\* Who waits as long as the refusal says is refused once more at most.
THEOREM PatienceIsServed == Limits!Spec => []PatientIsServed
<1>1. LimitInv => PatientIsServed
  BY DEF LimitInv, LimitTypes, PatientIsServed, Limits!PatientIsServed
<1>2. QED
  BY <1>1, LimitInvariance, PTL

-----------------------------------------------------------------------------

\* The run explores these four specifications: each behaviour of it is one of each.
THEOREM RunIsOfAll == Spec => Book!Spec /\ Reminders!Spec /\ Shelf!Spec /\ Limits!Spec
<1>1. Init => Book!Init /\ Reminders!Init /\ Shelf!Init /\ Limits!Init
  BY DEF Init
<1>2. [Next]_vars => /\ [Book!Next]_Book!vars /\ [Reminders!Next]_Reminders!vars
                     /\ [Shelf!Next]_Shelf!vars /\ [Limits!Next]_Limits!vars
  <2> SUFFICES ASSUME [Next]_vars
               PROVE  /\ [Book!Next]_Book!vars /\ [Reminders!Next]_Reminders!vars
                      /\ [Shelf!Next]_Shelf!vars /\ [Limits!Next]_Limits!vars
    OBVIOUS
  <2>1. /\ Book!Next \/ UNCHANGED book
        /\ Reminders!Next \/ UNCHANGED reminders
        /\ Shelf!Next \/ UNCHANGED shelf
        /\ Limits!Next \/ UNCHANGED limits
    BY DEF Next, vars
  <2>2. QED
    BY <2>1 DEF book, reminders, shelf, limits, Book!vars, Reminders!vars, Shelf!vars, Limits!vars
<1>3. QED
  BY <1>1, <1>2, PTL DEF Spec, Book!Spec, Reminders!Spec, Shelf!Spec, Limits!Spec

=============================================================================
