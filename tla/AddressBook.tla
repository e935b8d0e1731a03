----------------------------- MODULE AddressBook -----------------------------
(***************************************************************************)
(* The saved addresses of one customer: AddressesService as concurrent      *)
(* PostgreSQL transactions at READ COMMITTED, requested by open pages.         *)
(*                                                                          *)
(* `saved' and `default' are the committed rows.  A transaction remembers   *)
(* the rows it has locked by writing them, what it will write, and what it  *)
(* read before: its writes become visible when it commits.                  *)
(***************************************************************************)
EXTENDS Integers, FiniteSets

CONSTANTS
  Addresses,  \* identifiers of addresses: the bound on the rows ever inserted
  Pages,      \* open address pages, each with at most one request in progress
  NoAddress   \* no address

VARIABLES
  saved,    \* ids of the rows of the customer
  default,  \* those with is_default
  ordered,  \* those an order refers to (foreign key of orders)
  req,      \* req[p]: the request page p has in progress
  mixed     \* history: an insertion or a removal overlapped another request

vars == <<saved, default, ordered, req, mixed>>

Kinds == {"create", "update", "remove", "setDefault"}
Flags == {"yes", "no", "keep"}  \* isDefault of the request: true, false, absent

NoRequest == [kind |-> "none", pc |-> "idle", id |-> NoAddress, flag |-> "keep",
              wasDefault |-> FALSE, matched |-> {}, held |-> {}, unset |-> {},
              heir |-> NoAddress]

Init ==
  /\ saved = {} /\ default = {} /\ ordered = {}
  /\ req = [p \in Pages |-> NoRequest]
  /\ mixed = FALSE

Open(p) == req[p].kind # "none"
Goto(p, pc) == req' = [req EXCEPT ![p].pc = pc]
InsertsOrDeletes(kind) == kind \in {"create", "remove"}

\* No other transaction holds the locks of these rows.
Free(p, rows) == \A q \in Pages \ {p} : req[q].held \cap rows = {}

-----------------------------------------------------------------------------
(* The page *)

\* A request of a page, whose list may be older than the rows: it may name any
\* row and carry any flag.  findOne, outside the transaction, requires the row
\* to exist; a removal remembers its default flag.
Begin(p, kind, id, flag) ==
  /\ ~Open(p)
  /\ IF kind = "create"
     THEN id \notin saved /\ \A q \in Pages : ~(req[q].kind = "create" /\ req[q].id = id)
     ELSE id \in saved
  /\ req' = [req EXCEPT ![p] =
       [NoRequest EXCEPT !.kind = kind, !.id = id, !.flag = flag,
          !.wasDefault = id \in default,
          !.pc = IF kind = "remove" THEN "delete"
                 ELSE IF kind = "setDefault" \/ flag = "yes" THEN "unset"
                 ELSE IF kind = "create" THEN "check" ELSE "write"]]
  /\ mixed' = (mixed \/ \E q \in Pages : Open(q) /\ (InsertsOrDeletes(kind) \/ InsertsOrDeletes(req[q].kind)))
  /\ UNCHANGED <<saved, default, ordered>>

-----------------------------------------------------------------------------
(* The transaction *)

\* The rows an UPDATE of unsetDefaultByUserId matches: those committed when
\* the statement starts, whatever their flag.
Matched_Defaults == default
Matched == saved

UnsetStart(p) ==
  /\ req[p].pc = "unset"
  /\ req' = [req EXCEPT ![p].pc = "lock", ![p].matched = Matched]
  /\ UNCHANGED <<saved, default, ordered, mixed>>

\* It waits for their locks, and skips the rows deleted meanwhile.
Unset(p) ==
  LET rows == req[p].matched \cap saved IN
  /\ req[p].pc = "lock"
  /\ Free(p, rows)
  /\ req' = [req EXCEPT ![p].held = rows, ![p].unset = rows,
               ![p].pc = CASE req[p].kind = "create" -> "check"
                           [] req[p].kind = "update" -> "write"
                           [] OTHER -> "mark"]
  /\ UNCHANGED <<saved, default, ordered, mixed>>

\* checkHasAddresses: a first address becomes the default.
Check(p) ==
  /\ req[p].pc = "check"
  /\ req' = [req EXCEPT ![p].pc = "commit",
               ![p].flag = IF saved = {} \/ req[p].flag = "yes" THEN "yes" ELSE "no"]
  /\ UNCHANGED <<saved, default, ordered, mixed>>

\* updateAddress, or setAddressAsDefault of the request's row or of the heir.
Write(p) ==
  LET row == IF req[p].heir # NoAddress THEN req[p].heir ELSE req[p].id IN
  /\ req[p].pc \in {"write", "mark"}
  /\ Free(p, {row})
  /\ req' = [req EXCEPT ![p].held = @ \cup ({row} \cap saved), ![p].pc = "commit",
               ![p].flag = IF req[p].pc = "mark" THEN "yes" ELSE @]
  /\ UNCHANGED <<saved, default, ordered, mixed>>

\* removeAddress.
Delete(p) ==
  /\ req[p].pc = "delete"
  /\ Free(p, {req[p].id})
  /\ req[p].id \notin ordered
  /\ req' = [req EXCEPT ![p].held = {req[p].id} \cap saved,
               ![p].pc = IF req[p].wasDefault THEN "heir" ELSE "commit"]
  /\ UNCHANGED <<saved, default, ordered, mixed>>

\* getFirstAddressIdByUserId has no ORDER BY: any other row inherits.
Heirs(p) == saved \ {req[p].id}
ChooseHeir(p) ==
  /\ req[p].pc = "heir"
  /\ IF Heirs(p) = {} THEN Goto(p, "commit")
     ELSE \E h \in Heirs(p) : req' = [req EXCEPT ![p].heir = h, ![p].pc = "mark"]
  /\ UNCHANGED <<saved, default, ordered, mixed>>

\* The row the transaction leaves with is_default set, if any, and unset.
Marked(p) ==
  LET r == req[p] IN
  IF r.flag # "yes" THEN {} ELSE IF r.heir # NoAddress THEN {r.heir} ELSE {r.id}
Unmarked(p) ==
  LET r == req[p] IN r.unset \cup (IF r.flag = "no" THEN {r.id} ELSE {})

\* COMMIT; the row of a creation is inserted by the transaction's last
\* statement, and a page refetches after a success.
Commit(p) ==
  LET r == req[p] IN
  /\ r.pc = "commit"
  /\ saved' = IF r.kind = "create" THEN saved \cup {r.id}
              ELSE IF r.kind = "remove" THEN saved \ {r.id} ELSE saved
  /\ default' = ((default \ Unmarked(p)) \cup Marked(p)) \cap saved'
  /\ req' = [req EXCEPT ![p] = NoRequest]
  /\ UNCHANGED <<ordered, mixed>>

\* An error, a crash, a deadlock or the foreign key of the orders (a removal
\* is then answered with a message of its own).
Rollback(p) ==
  /\ Open(p)
  /\ req' = [req EXCEPT ![p] = NoRequest]
  /\ UNCHANGED <<saved, default, ordered, mixed>>

\* createOrderFromCart: the order refers to a saved address (findAddress), or
\* to one inserted for it, which is no default even when it is the first.
PlaceOrder(id) ==
  /\ id \notin ordered
  /\ \A p \in Pages : req[p].kind \in {"create", "remove"} => req[p].id # id
  /\ saved' = saved \cup {id}
  /\ ordered' = ordered \cup {id}
  /\ mixed' = (mixed \/ (id \notin saved /\ \E p \in Pages : Open(p)))
  /\ UNCHANGED <<default, req>>

Next ==
  \/ \E p \in Pages :
       \/ UnsetStart(p) \/ Unset(p) \/ Check(p) \/ Write(p)
       \/ Delete(p) \/ ChooseHeir(p) \/ Commit(p) \/ Rollback(p)
       \/ \E k \in Kinds, id \in Addresses, f \in Flags : Begin(p, k, id, f)
  \/ \E id \in Addresses : PlaceOrder(id)

Spec == Init /\ [][Next]_vars
-----------------------------------------------------------------------------
(* Properties *)

\* "If setting as default, unset others first": requests that set a default
\* may overlap each other, and still leave at most one (the second UPDATE
\* locks every row of the customer, also one marked while it waited).
DefaultsStayUnique == ~mixed => Cardinality(default) <= 1

\* The promises of the comments that overlapping requests break.
OneDefault == Cardinality(default) <= 1
SomeDefault == saved # {} /\ (\A p \in Pages : ~Open(p)) => default # {}
=============================================================================
