---------------------------- MODULE StorefrontProofs --------------------------
(***************************************************************************)
(* What the tabs of a customer show once all is quiet, and what a checkout  *)
(* page orders, for any number of tabs, handlers and messages.              *)
(***************************************************************************)
EXTENDS Storefront, SequenceTheorems, TLAPS

Kinds == Changes \cup {"none", "order", "load", "change", "promo", "again", "pay"}
ThreadRows == [pc : {"idle", "send", "done", "get", "got", "validate", "pay"}, kind : Kinds,
               value : Nat, current : BOOLEAN, mount : Nat, form : Nat]
TabRows == [shown : Nat, promo : BOOLEAN, discountOf : Nat, loading : BOOLEAN,
            page : {"shop", "checkout"}, mount : Nat, processing : BOOLEAN, form : Nat]
Messages == [kind : {"CART_UPDATED", "CART_CLEARED"}, by : Tabs]

Types ==
  /\ cart \in Nat /\ orders \in [1..MaxKeys -> [units : Nat, by : Nat, form : Nat]]
  /\ tab \in [Tabs -> TabRows] /\ thread \in [Tabs -> [Threads -> ThreadRows]]
  /\ sent \in Seq(Messages) /\ last \in [Tabs -> Nat] /\ misled \in [Tabs -> BOOLEAN]
  /\ keys \in Nat /\ \A t \in Tabs : last[t] <= Len(sent)

\* The handlers of a tab: one fetch at most is wanted, and an order that is sent
\* carries the key of the page that submitted it.
RowOK(row) ==
  /\ \A k \in Threads : row[k].current => row[k].pc \in {"get", "got"}
  /\ \A j, k \in Threads : row[j].current /\ row[k].current => j = k
  /\ \A k \in Threads : row[k].pc = "send" /\ row[k].kind = "order" => row[k].value = row[k].mount

\* The tab shows the cart, or will once the fetch that is wanted is answered.
Fresh(row, units) ==
  /\ \A k \in Threads : row[k].current => row[k].pc = "get" \/ row[k].value = cart
  /\ (\A k \in Threads : ~row[k].current) => units = cart

\* A change of the cart whose answer this tab awaits, or will yet announce.
Speaking(r) == r.pc = "done" \/ (r.kind = "change" /\ r.pc \in {"get", "got"})
Awaits(row) == \E k \in Threads : row[k].pc = "done"
Speaks(row) == \E k \in Threads : Speaking(row[k])

\* A tab that does not show the cart will hear of it, or cannot know.
Covered(t) ==
  \/ misled[t] \/ Fresh(thread[t], tab[t].shown) \/ Pending(t) # {}
  \/ Awaits(thread[t]) \/ \E u \in Tabs \ {t} : Speaks(thread[u])

\* An order names the page whose key it was made under.
Named == \A k \in 1..MaxKeys : orders[k] # NoOrder => orders[k].by = k

Inv ==
  /\ Types /\ Named
  /\ \A t \in Tabs : RowOK(thread[t]) /\ Covered(t)

-----------------------------------------------------------------------------

LEMMA IdleIs ==
  /\ Idle \in ThreadRows /\ ~Idle.current /\ Idle.pc = "idle"
  /\ \A kind \in {"load", "change"} :
       /\ Fetch(kind) \in ThreadRows /\ Fetch(kind).current
       /\ Fetch(kind).pc = "get" /\ Fetch(kind).kind = kind
BY DEF Idle, Fetch, ThreadRows, Kinds

\* A handler goes on that fetches nothing that is wanted.
LEMMA HandlerGoesOn ==
  ASSUME NEW row \in [Threads -> ThreadRows], RowOK(row), NEW k \in Threads, NEW r \in ThreadRows,
         ~row[k].current, ~r.current, r.pc = "send" /\ r.kind = "order" => r.value = r.mount,
         NEW new, new = [row EXCEPT ![k] = r]
  PROVE  /\ new \in [Threads -> ThreadRows] /\ RowOK(new)
         /\ \A n : Fresh(row, n) => Fresh(new, n)
         /\ Awaits(row) /\ row[k].pc # "done" => Awaits(new)
         /\ Speaks(row) /\ ~Speaking(row[k]) => Speaks(new)
         /\ Speaking(r) => Speaks(new)
         /\ r.pc = "done" => Awaits(new)
<1>1. /\ new \in [Threads -> ThreadRows] /\ new[k] = r
      /\ \A j \in Threads : j # k => new[j] = row[j]
  OBVIOUS
<1>2. RowOK(new)
  BY <1>1 DEF RowOK
<1>3. ASSUME NEW n, Fresh(row, n) PROVE Fresh(new, n)
  BY <1>1, <1>3 DEF Fresh
<1>4. /\ Awaits(row) /\ row[k].pc # "done" => Awaits(new)
      /\ Speaks(row) /\ ~Speaking(row[k]) => Speaks(new)
      /\ Speaking(r) => Speaks(new)
      /\ r.pc = "done" => Awaits(new)
  BY <1>1 DEF Awaits, Speaks
<1>5. QED
  BY <1>1, <1>2, <1>3, <1>4

\* A fetch starts, or the store is reset: what was being fetched is not wanted.
LEMMA HandlersOutdated ==
  ASSUME NEW t \in Tabs, thread[t] \in [Threads -> ThreadRows], RowOK(thread[t])
  PROVE  /\ Outdated(t) \in [Threads -> ThreadRows] /\ RowOK(Outdated(t))
         /\ \A k \in Threads : ~Outdated(t)[k].current
         /\ \A k \in Threads : Outdated(t)[k].pc = thread[t][k].pc
                               /\ Outdated(t)[k].kind = thread[t][k].kind
         /\ Speaks(thread[t]) => Speaks(Outdated(t))
<1>1. \A k \in Threads : /\ Outdated(t)[k] = [thread[t][k] EXCEPT !.current = FALSE]
                         /\ Outdated(t)[k] \in ThreadRows
  BY DEF Outdated, ThreadRows
<1>2. \A k \in Threads :
        /\ ~Outdated(t)[k].current
        /\ Outdated(t)[k].pc = thread[t][k].pc /\ Outdated(t)[k].kind = thread[t][k].kind
        /\ Outdated(t)[k].value = thread[t][k].value /\ Outdated(t)[k].mount = thread[t][k].mount
  BY <1>1 DEF ThreadRows
<1>3. Outdated(t) \in [Threads -> ThreadRows]
  BY <1>1 DEF Outdated
<1>4. RowOK(Outdated(t))
  BY <1>2 DEF RowOK
<1>5. Speaks(thread[t]) => Speaks(Outdated(t))
  BY <1>2 DEF Speaks, Speaking
<1>6. QED
  BY <1>2, <1>3, <1>4, <1>5

LEMMA FetchStarts ==
  ASSUME NEW t \in Tabs, thread[t] \in [Threads -> ThreadRows], RowOK(thread[t]),
         NEW k \in Threads, NEW kind \in {"load", "change"},
         NEW new, new = [Outdated(t) EXCEPT ![k] = Fetch(kind)]
  PROVE  /\ new \in [Threads -> ThreadRows] /\ RowOK(new)
         /\ \A n : Fresh(new, n)
         /\ Speaks(thread[t]) /\ (~Speaking(thread[t][k]) \/ kind = "change") => Speaks(new)
<1>1. /\ new \in [Threads -> ThreadRows] /\ new[k] = Fetch(kind)
      /\ \A j \in Threads : j # k => new[j] = Outdated(t)[j]
  BY HandlersOutdated, IdleIs
<1>2. RowOK(new)
  BY <1>1, HandlersOutdated, IdleIs DEF RowOK
<1>3. \A n : Fresh(new, n)
  BY <1>1, HandlersOutdated, IdleIs DEF Fresh
<1>4. kind = "change" => Speaks(new)
  BY <1>1, IdleIs DEF Speaks, Speaking
<1>5. Speaks(thread[t]) /\ ~Speaking(thread[t][k]) => Speaks(new)
  BY <1>1, HandlersOutdated DEF Speaks, Speaking
<1>6. QED
  BY <1>1, <1>2, <1>3, <1>4, <1>5

LEMMA StoreResets ==
  ASSUME NEW row \in [Threads -> ThreadRows], \A k \in Threads : ~row[k].current, cart = 0
  PROVE  Fresh(row, 0)
BY DEF Fresh

-----------------------------------------------------------------------------
(* A step of one tab *)

\* What is broadcast comes after what was.
LEMMA MessagesStay ==
  ASSUME Types, NEW u \in Tabs, NEW new, new \in Seq(Messages), Len(new) >= Len(sent),
         \A n \in 1..Len(sent) : new[n] = sent[n], sent' = new, last'[u] = last[u]
  PROVE  /\ Pending(u) # {} => Pending(u)' # {}
         /\ \A n \in 1..Len(new) : n > Len(sent) /\ new[n].by # u => Pending(u)' # {}
<1>1. /\ last[u] \in Nat /\ last[u] <= Len(sent) /\ Len(sent) \in Nat /\ Len(new) \in Nat
  BY DEF Types
<1>2. ASSUME NEW n \in Pending(u) PROVE Pending(u)' # {}
  <2>1. n \in 1..Len(sent) /\ n \in (last[u] + 1)..Len(new) /\ new[n].by # u
    BY <1>1 DEF Pending
  <2>2. n \in Pending(u)'
    BY <2>1 DEF Pending
  <2>3. QED
    BY <2>2
<1>3. ASSUME NEW n \in 1..Len(new), n > Len(sent), new[n].by # u PROVE Pending(u)' # {}
  <2>1. n \in (last[u] + 1)..Len(new)
    BY <1>1, <1>3
  <2>2. n \in Pending(u)'
    BY <1>3, <2>1 DEF Pending
  <2>3. QED
    BY <2>2
<1>4. QED
  BY <1>2, <1>3

\* Tab t takes a step: it keeps what covered it or shows the cart, and the other
\* tabs hear of what it spoke of.
LEMMA TabSteps ==
  ASSUME Inv, NEW t \in Tabs, NEW row \in [Threads -> ThreadRows], RowOK(row), NEW q \in TabRows,
         NEW messages \in Seq(Messages), Len(messages) >= Len(sent),
         \A n \in 1..Len(sent) : messages[n] = sent[n],
         thread' = [thread EXCEPT ![t] = row], tab' = [tab EXCEPT ![t] = q], sent' = messages,
         UNCHANGED <<cart, orders>>, keys' \in Nat, last' \in [Tabs -> Nat],
         last'[t] <= Len(messages), \A u \in Tabs \ {t} : last'[u] = last[u],
         misled' \in [Tabs -> BOOLEAN], \A u \in Tabs \ {t} : misled[u] => misled'[u],
         \/ misled'[t] \/ Fresh(row, q.shown)
         \/ /\ Fresh(thread[t], tab[t].shown) => Fresh(row, q.shown)
            /\ Awaits(thread[t]) => Awaits(row)
            /\ misled[t] => misled'[t]
            /\ last'[t] = last[t],
         \/ Speaks(thread[t]) => Speaks(row)
         \/ \E n \in 1..Len(messages) : n > Len(sent) /\ messages[n].by = t
         \/ \A u \in Tabs \ {t} : misled'[u]
  PROVE  Inv'
<1>1. Types /\ Named /\ \A u \in Tabs : RowOK(thread[u]) /\ Covered(u)
  BY DEF Inv
<1>2. /\ thread'[t] = row /\ tab'[t] = q
      /\ \A u \in Tabs \ {t} : thread'[u] = thread[u] /\ tab'[u] = tab[u]
  BY <1>1 DEF Types
<1>3. Types'
  <2>1. thread' \in [Tabs -> [Threads -> ThreadRows]] /\ tab' \in [Tabs -> TabRows]
    BY <1>1 DEF Types
  <2>2. \A u \in Tabs : last'[u] <= Len(sent')
    BY <1>1 DEF Types
  <2>3. QED
    BY <1>1, <2>1, <2>2 DEF Types
<1>4. Named'
  BY <1>1 DEF Named
<1>5. \A u \in Tabs : RowOK(thread'[u])
  BY <1>1, <1>2
<1>6. \A r, n : Fresh(r, n) <=> Fresh(r, n)'
  BY DEF Fresh
<1>7. Covered(t)'
  <2>1. CASE misled'[t]
    BY <2>1 DEF Covered
  <2>2. CASE Fresh(row, q.shown)
    BY <1>2, <1>6, <2>2 DEF Covered
  <2>3. CASE /\ Fresh(thread[t], tab[t].shown) => Fresh(row, q.shown)
             /\ Awaits(thread[t]) => Awaits(row)
             /\ misled[t] => misled'[t]
             /\ last'[t] = last[t]
    <3>1. Pending(t) # {} => Pending(t)' # {}
      BY <1>1, <2>3, MessagesStay
    <3>2. (\E u \in Tabs \ {t} : Speaks(thread[u])) => \E u \in Tabs \ {t} : Speaks(thread'[u])
      BY <1>2
    <3>3. CASE Fresh(thread[t], tab[t].shown)
      BY <2>2, <2>3, <3>3
    <3>4. CASE ~Fresh(thread[t], tab[t].shown)
      BY <1>1, <1>2, <2>3, <3>1, <3>2, <3>4 DEF Covered
    <3>5. QED
      BY <3>3, <3>4
  <2>4. QED
    BY <2>1, <2>2, <2>3
<1>8. ASSUME NEW u \in Tabs \ {t} PROVE Covered(u)'
  <2>1. Pending(u) # {} => Pending(u)' # {}
    BY <1>1, MessagesStay
  <2>2. CASE \E v \in Tabs \ {u} : Speaks(thread[v])
    <3>1. PICK v \in Tabs \ {u} : Speaks(thread[v])
      BY <2>2
    <3>2. CASE v # t
      BY <1>2, <3>1, <3>2 DEF Covered
    <3>3. CASE v = t /\ Speaks(row)
      BY <1>2, <3>3 DEF Covered
    <3>4. CASE \E n \in 1..Len(messages) : n > Len(sent) /\ messages[n].by = t
      BY <1>1, <3>4, MessagesStay DEF Covered
    <3>5. CASE misled'[u]
      BY <3>5 DEF Covered
    <3>6. QED
      BY <3>1, <3>2, <3>3, <3>4, <3>5
  <2>3. CASE Fresh(thread[u], tab[u].shown)
    BY <1>2, <1>6, <2>3 DEF Covered
  <2>4. CASE misled[u] \/ Pending(u) # {} \/ Awaits(thread[u])
    BY <1>2, <2>1, <2>4 DEF Covered
  <2>5. QED
    BY <1>1, <2>2, <2>3, <2>4 DEF Covered
<1>9. QED
  BY <1>3, <1>4, <1>5, <1>7, <1>8 DEF Inv

LEMMA Broadcasts ==
  ASSUME Types, NEW t \in Tabs, NEW kind \in {"CART_UPDATED", "CART_CLEARED"}, Broadcast(t, kind)
  PROVE  /\ sent' \in Seq(Messages) /\ Len(sent') = Len(sent) + 1 /\ last' = last
         /\ \A n \in 1..Len(sent) : sent'[n] = sent[n]
         /\ sent'[Len(sent) + 1].by = t
<1>1. [kind |-> kind, by |-> t] \in Messages /\ sent \in Seq(Messages)
  BY DEF Types, Messages
<1>2. sent' = Append(sent, [kind |-> kind, by |-> t]) /\ last' = last
  BY DEF Broadcast
<1>3. QED
  BY <1>1, <1>2

Announcing(t) == \E kind \in {"CART_UPDATED", "CART_CLEARED"} : Broadcast(t, kind)

\* The same, for a tab that receives nothing.
LEMMA TabMoves ==
  ASSUME Inv, NEW t \in Tabs, NEW row \in [Threads -> ThreadRows], RowOK(row), NEW q \in TabRows,
         thread' = [thread EXCEPT ![t] = row], tab' = [tab EXCEPT ![t] = q],
         UNCHANGED <<cart, orders>>, keys' \in Nat,
         UNCHANGED channel \/ Announcing(t),
         misled' \in [Tabs -> BOOLEAN], \A u \in Tabs \ {t} : misled[u] => misled'[u],
         \/ misled'[t] \/ Fresh(row, q.shown)
         \/ /\ Fresh(thread[t], tab[t].shown) => Fresh(row, q.shown)
            /\ Awaits(thread[t]) => Awaits(row)
            /\ misled[t] => misled'[t],
         \/ Speaks(thread[t]) => Speaks(row)
         \/ Announcing(t)
         \/ \A u \in Tabs \ {t} : misled'[u]
  PROVE  Inv'
<1>1. Types
  BY DEF Inv
<1>2. /\ sent \in Seq(Messages) /\ last \in [Tabs -> Nat] /\ Len(sent) \in Nat
      /\ last[t] <= Len(sent)
  BY <1>1 DEF Types
<1>3. CASE UNCHANGED channel /\ ~Announcing(t)
  <2>1. sent' = sent /\ last' = last
    BY <1>3 DEF channel
  <2>2. /\ sent' \in Seq(Messages) /\ Len(sent') >= Len(sent) /\ last' \in [Tabs -> Nat]
        /\ \A n \in 1..Len(sent) : sent'[n] = sent[n]
        /\ last'[t] <= Len(sent') /\ last'[t] = last[t] /\ \A u \in Tabs \ {t} : last'[u] = last[u]
    BY <1>2, <2>1
  <2>3. (Speaks(thread[t]) => Speaks(row)) \/ \A u \in Tabs \ {t} : misled'[u]
    BY <1>3
  <2>4. QED
    BY <2>2, <2>3, TabSteps
<1>4. CASE Announcing(t)
  <2>1. /\ sent' \in Seq(Messages) /\ Len(sent') = Len(sent) + 1 /\ last' = last
        /\ \A n \in 1..Len(sent) : sent'[n] = sent[n]
        /\ sent'[Len(sent) + 1].by = t
    BY <1>1, <1>4, Broadcasts DEF Announcing
  <2>2. Len(sent') >= Len(sent) /\ last'[t] <= Len(sent')
    BY <1>2, <2>1
  <2>3. \E n \in 1..Len(sent') : n > Len(sent) /\ sent'[n].by = t
    BY <1>2, <2>1
  <2>4. QED
    BY <1>2, <2>1, <2>2, <2>3, TabSteps
<1>5. QED
  BY <1>3, <1>4

\* What is known of a tab.
LEMMA TabRow ==
  ASSUME Inv, NEW t \in Tabs
  PROVE  /\ tab[t] \in TabRows /\ thread[t] \in [Threads -> ThreadRows] /\ RowOK(thread[t])
         /\ thread = [thread EXCEPT ![t] = thread[t]] /\ tab = [tab EXCEPT ![t] = tab[t]]
         /\ misled \in [Tabs -> BOOLEAN] /\ cart \in Nat /\ keys \in Nat
         /\ \A k \in Threads : /\ thread[t][k] \in ThreadRows
                               /\ thread[t][k].current => thread[t][k].pc \in {"get", "got"}
BY DEF Inv, Types, RowOK

-----------------------------------------------------------------------------
(* Pages *)

LEMMA PagesChange ==
  ASSUME Inv, NEW t \in Tabs, OpenCheckout(t) \/ EditForm(t) \/ RemovePromo(t)
  PROVE  Inv'
<1>0. Inv
  OBVIOUS
<1>1. /\ thread' = [thread EXCEPT ![t] = thread[t]] /\ UNCHANGED <<cart, orders, misled>>
      /\ keys' \in Nat
  BY TabRow DEF OpenCheckout, EditForm, RemovePromo, server
<1>2. UNCHANGED channel \/ Announcing(t)
  BY DEF OpenCheckout, EditForm, RemovePromo, Announcing
<1>3. PICK q \in TabRows : tab' = [tab EXCEPT ![t] = q] /\ q.shown = tab[t].shown
  <2>1. tab[t] \in TabRows /\ keys \in Nat
    BY TabRow
  <2>2. CASE OpenCheckout(t)
    <3>1. keys + 1 \in Nat /\ "checkout" \in {"shop", "checkout"}
      BY <2>1
    <3>2. [tab[t] EXCEPT !.page = "checkout", !.mount = keys + 1] \in TabRows
      BY <2>1, <3>1 DEF TabRows
    <3>3. QED
      BY <2>1, <2>2, <3>2 DEF OpenCheckout, TabRows
  <2>3. CASE EditForm(t)
    <3>1. [tab[t] EXCEPT !.form = 1] \in TabRows /\ tab' = [tab EXCEPT ![t] = [tab[t] EXCEPT !.form = 1]]
      BY <2>1, <2>3 DEF TabRows, EditForm
    <3>2. QED
      BY <2>1, <3>1 DEF TabRows
  <2>4. CASE RemovePromo(t)
    <3>1. /\ [tab[t] EXCEPT !.promo = FALSE, !.discountOf = 0] \in TabRows
          /\ tab' = [tab EXCEPT ![t] = [tab[t] EXCEPT !.promo = FALSE, !.discountOf = 0]]
      BY <2>1, <2>4 DEF TabRows, RemovePromo
    <3>2. QED
      BY <2>1, <3>1 DEF TabRows
  <2>5. QED
    BY <2>2, <2>3, <2>4
<1>4. QED
  BY <1>0, <1>1, <1>2, <1>3, TabRow, TabMoves

-----------------------------------------------------------------------------
(* Handlers *)

\* A handler that is not fetching goes on, and the tab shows the same.
LEMMA HandlerMoves ==
  ASSUME Inv, NEW t \in Tabs, NEW k \in Threads, NEW r \in ThreadRows, NEW q \in TabRows,
         thread' = [thread EXCEPT ![t][k] = r], tab' = [tab EXCEPT ![t] = q],
         q.shown = tab[t].shown, ~thread[t][k].current, ~r.current,
         r.pc = "send" /\ r.kind = "order" => r.value = r.mount,
         UNCHANGED <<cart, orders>>, keys' \in Nat, UNCHANGED channel \/ Announcing(t),
         misled' \in [Tabs -> BOOLEAN], \A u \in Tabs : misled[u] => misled'[u],
         thread[t][k].pc = "done" => \A u \in Tabs : misled'[u],
         \/ ~Speaking(thread[t][k]) \/ Speaking(r) \/ Announcing(t)
         \/ \A u \in Tabs \ {t} : misled'[u]
  PROVE  Inv'
<1> DEFINE row == [thread[t] EXCEPT ![k] = r]
<1>1. thread[t] \in [Threads -> ThreadRows] /\ RowOK(thread[t])
  BY TabRow
<1>2. /\ row \in [Threads -> ThreadRows] /\ RowOK(row)
      /\ \A n : Fresh(thread[t], n) => Fresh(row, n)
      /\ Awaits(thread[t]) /\ thread[t][k].pc # "done" => Awaits(row)
      /\ Speaks(thread[t]) /\ ~Speaking(thread[t][k]) => Speaks(row)
      /\ Speaking(r) => Speaks(row)
  BY <1>1, HandlerGoesOn
<1>3. thread' = [thread EXCEPT ![t] = row]
  BY DEF Inv, Types
<1> HIDE DEF row
<1>4. \/ misled'[t]
      \/ /\ Fresh(thread[t], tab[t].shown) => Fresh(row, q.shown)
         /\ Awaits(thread[t]) => Awaits(row)
         /\ misled[t] => misled'[t]
  BY <1>2
<1>5. \/ Speaks(thread[t]) => Speaks(row)
      \/ Announcing(t)
      \/ \A u \in Tabs \ {t} : misled'[u]
  BY <1>2
<1>6. QED
  BY <1>2, <1>3, <1>4, <1>5, TabMoves

\* A fetch starts.
LEMMA TabFetches ==
  ASSUME Inv, NEW t \in Tabs, NEW k \in Threads, NEW kind \in {"load", "change"}, NEW q \in TabRows,
         StartFetch(t, k, kind), tab' = [tab EXCEPT ![t] = q],
         UNCHANGED <<cart, orders>>, keys' \in Nat, UNCHANGED channel,
         misled' \in [Tabs -> BOOLEAN], \A u \in Tabs \ {t} : misled[u] => misled'[u],
         \/ ~Speaking(thread[t][k]) \/ kind = "change"
         \/ \A u \in Tabs \ {t} : misled'[u]
  PROVE  Inv'
<1> DEFINE row == [Outdated(t) EXCEPT ![k] = Fetch(kind)]
<1>1. thread[t] \in [Threads -> ThreadRows] /\ RowOK(thread[t])
  BY TabRow
<1>2. /\ row \in [Threads -> ThreadRows] /\ RowOK(row) /\ \A n : Fresh(row, n)
      /\ Speaks(thread[t]) /\ (~Speaking(thread[t][k]) \/ kind = "change") => Speaks(row)
  BY <1>1, FetchStarts
<1>3. thread' = [thread EXCEPT ![t] = row]
  BY DEF StartFetch
<1> HIDE DEF row
<1>4. Fresh(row, q.shown)
  BY <1>2
<1>5. (Speaks(thread[t]) => Speaks(row)) \/ \A u \in Tabs \ {t} : misled'[u]
  BY <1>2
<1>6. QED
  BY <1>2, <1>3, <1>4, <1>5, TabMoves

LEMMA Asks ==
  ASSUME Inv, NEW t \in Tabs, NEW k \in Threads, NEW kind \in Changes, NEW n \in 0..MaxUnits,
         Ask(t, k, kind, n)
  PROVE  Inv'
<1> DEFINE r == [Idle EXCEPT !.pc = "send", !.kind = kind, !.value = n]
           q == [tab[t] EXCEPT !.loading = TRUE]
<1>0. n \in Nat
  BY StorefrontAssumption
<1>1. r \in ThreadRows /\ ~r.current /\ r.kind # "order"
  BY <1>0 DEF Idle, ThreadRows, Kinds, Changes
<1>2. q \in TabRows /\ q.shown = tab[t].shown
  BY TabRow DEF TabRows
<1>3. ~thread[t][k].current /\ ~Speaking(thread[t][k]) /\ thread[t][k].pc # "done"
  BY TabRow DEF Ask, Doing, Speaking
<1>4. /\ thread' = [thread EXCEPT ![t][k] = r] /\ tab' = [tab EXCEPT ![t] = q]
      /\ UNCHANGED <<cart, orders>> /\ keys' \in Nat /\ UNCHANGED channel /\ misled' = misled
  BY TabRow DEF Ask, server
<1> HIDE DEF r, q
<1>5. misled' \in [Tabs -> BOOLEAN]
  BY <1>4, TabRow
<1>6. QED
  BY <1>1, <1>2, <1>3, <1>4, <1>5, HandlerMoves

LEMMA Succeeds ==
  ASSUME Inv, NEW t \in Tabs, NEW k \in Threads, Succeed(t, k)
  PROVE  Inv'
<1>1. tab' = [tab EXCEPT ![t] = [tab[t] EXCEPT !.loading = TRUE]]
  BY DEF Succeed, Inv, Types
<1>2. [tab[t] EXCEPT !.loading = TRUE] \in TabRows
  BY TabRow DEF TabRows
<1>3. /\ StartFetch(t, k, "change") /\ UNCHANGED <<cart, orders>> /\ keys' \in Nat
      /\ UNCHANGED channel /\ misled' = [misled EXCEPT ![t] = FALSE]
  BY TabRow DEF Succeed, server
<1>4. misled' \in [Tabs -> BOOLEAN] /\ \A u \in Tabs \ {t} : misled[u] => misled'[u]
  BY <1>3, TabRow
<1>5. QED
  BY <1>1, <1>2, <1>3, <1>4, TabFetches

\* A load of the store, silent or not, by a handler that was not speaking.
LEMMA Loads ==
  ASSUME Inv, NEW t \in Tabs, NEW k \in Threads, NEW silent \in BOOLEAN, Load(t, k, silent),
         UNCHANGED <<cart, orders>>, keys' \in Nat, UNCHANGED channel
  PROVE  Inv'
<1>1. tab' = [tab EXCEPT ![t] = [tab[t] EXCEPT !.loading = ~silent]]
  BY DEF Load, Inv, Types
<1>2. [tab[t] EXCEPT !.loading = ~silent] \in TabRows
  BY TabRow DEF TabRows
<1>3. /\ StartFetch(t, k, "load") /\ misled' = [misled EXCEPT ![t] = FALSE]
      /\ ~Speaking(thread[t][k])
  BY TabRow DEF Load, Speaking
<1>4. misled' \in [Tabs -> BOOLEAN] /\ \A u \in Tabs \ {t} : misled[u] => misled'[u]
  BY <1>3, TabRow
<1>5. QED
  BY <1>1, <1>2, <1>3, <1>4, TabFetches

LEMMA Opens ==
  ASSUME Inv, NEW t \in Tabs, NEW k \in Threads, OpenCart(t, k) \/ Focus(t, k)
  PROVE  Inv'
<1>1. CASE Focus(t, k)
  <2>1. Load(t, k, TRUE) /\ UNCHANGED <<cart, orders>> /\ keys' \in Nat /\ UNCHANGED channel
    BY <1>1, TabRow DEF Focus, server
  <2>2. QED
    BY <2>1, Loads
<1>2. CASE OpenCart(t, k)
  <2>1. [Leave(t) EXCEPT !.loading = TRUE] \in TabRows
    BY TabRow DEF Leave, TabRows
  <2>2. /\ StartFetch(t, k, "load") /\ tab' = [tab EXCEPT ![t] = [Leave(t) EXCEPT !.loading = TRUE]]
        /\ UNCHANGED <<cart, orders>> /\ keys' \in Nat /\ UNCHANGED channel
        /\ misled' = [misled EXCEPT ![t] = FALSE] /\ ~Speaking(thread[t][k])
    BY <1>2, TabRow DEF OpenCart, server, Doing, Speaking
  <2>3. misled' \in [Tabs -> BOOLEAN] /\ \A u \in Tabs \ {t} : misled[u] => misled'[u]
    BY <2>2, TabRow
  <2>4. QED
    BY <2>1, <2>2, <2>3, TabFetches
<1>3. QED
  BY <1>1, <1>2

\* The store is reset: what is fetched is not wanted, and the tab is misled when
\* there is something in the cart.
LEMMA TabResets ==
  ASSUME Inv, NEW t \in Tabs, NEW k \in Threads, NEW r \in ThreadRows, ~r.current,
         ~(r.pc = "send" /\ r.kind = "order"),
         thread' = [thread EXCEPT ![t] = [Outdated(t) EXCEPT ![k] = r]],
         tab' = [tab EXCEPT ![t] = EmptyCart(t)],
         UNCHANGED <<cart, orders>>, keys' \in Nat, Announcing(t),
         misled' = [misled EXCEPT ![t] = cart # 0]
  PROVE  Inv'
<1> DEFINE row == [Outdated(t) EXCEPT ![k] = r]
<1>1. thread[t] \in [Threads -> ThreadRows] /\ RowOK(thread[t]) /\ tab[t] \in TabRows
  BY TabRow
<1>2. Outdated(t) \in [Threads -> ThreadRows] /\ RowOK(Outdated(t)) /\ \A j \in Threads : ~Outdated(t)[j].current
  BY <1>1, HandlersOutdated
<1>3. row \in [Threads -> ThreadRows] /\ RowOK(row)
  BY <1>2, HandlerGoesOn
<1>4. \A j \in Threads : ~row[j].current
  BY <1>2
<1>5. EmptyCart(t) \in TabRows /\ EmptyCart(t).shown = 0
  BY <1>1 DEF EmptyCart, TabRows
<1> HIDE DEF row
<1>6. cart = 0 => Fresh(row, EmptyCart(t).shown)
  BY <1>4, <1>5 DEF Fresh
<1>7. /\ misled' \in [Tabs -> BOOLEAN] /\ \A u \in Tabs \ {t} : misled[u] => misled'[u]
      /\ misled'[t] <=> cart # 0
  BY TabRow
<1>8. thread' = [thread EXCEPT ![t] = row]
  BY DEF row
<1>9. QED
  BY <1>3, <1>5, <1>6, <1>7, <1>8, TabMoves

LEMMA Resets ==
  ASSUME Inv, NEW t \in Tabs, NEW k \in Threads, Cleared(t, k) \/ Ordered(t, k)
  PROVE  Inv'
<1>1. /\ tab' = [tab EXCEPT ![t] = EmptyCart(t)] /\ UNCHANGED <<cart, orders>> /\ keys' \in Nat
      /\ Announcing(t) /\ misled' = [misled EXCEPT ![t] = cart # 0]
  BY TabRow DEF Cleared, Ordered, server, Announcing
<1>2. CASE Cleared(t, k)
  <2>1. thread' = [thread EXCEPT ![t] = [Outdated(t) EXCEPT ![k] = Idle]]
    BY <1>2 DEF Cleared
  <2>2. Idle \in ThreadRows /\ ~Idle.current /\ Idle.pc = "idle"
    BY IdleIs
  <2>3. QED
    BY <1>1, <2>1, <2>2, TabResets
<1>3. CASE Ordered(t, k)
  <2> DEFINE r == [Outdated(t)[k] EXCEPT !.pc = "pay", !.kind = "pay"]
  <2>1. Outdated(t) \in [Threads -> ThreadRows] /\ ~Outdated(t)[k].current
    BY HandlersOutdated, TabRow
  <2>2. r \in ThreadRows /\ ~r.current /\ r.pc = "pay"
    BY <2>1 DEF ThreadRows, Kinds
  <2>3. thread' = [thread EXCEPT ![t] = [Outdated(t) EXCEPT ![k] = r]]
    BY <1>3 DEF Ordered
  <2> HIDE DEF r
  <2>4. QED
    BY <1>1, <2>2, <2>3, TabResets
<1>4. QED
  BY <1>2, <1>3

\* A change or an order fails, or its answer is lost; the handler is done.
LEMMA HandlerFails ==
  ASSUME Inv, NEW t \in Tabs, NEW k \in Threads, NEW q \in TabRows,
         thread[t][k].pc \in {"send", "done"},
         thread' = [thread EXCEPT ![t][k] = Idle], tab' = [tab EXCEPT ![t] = q],
         q.shown = tab[t].shown, UNCHANGED <<cart, orders>>, keys' \in Nat, UNCHANGED channel,
         misled' = [u \in Tabs |-> misled[u] \/ thread[t][k].pc = "done"]
  PROVE  Inv'
<1>1. Idle \in ThreadRows /\ ~Idle.current /\ Idle.pc = "idle"
  BY IdleIs
<1>2. /\ ~thread[t][k].current /\ misled \in [Tabs -> BOOLEAN]
      /\ ~Speaking(thread[t][k]) \/ thread[t][k].pc = "done"
  BY TabRow DEF Speaking
<1>3. /\ misled' \in [Tabs -> BOOLEAN] /\ \A u \in Tabs : misled[u] => misled'[u]
      /\ thread[t][k].pc = "done" => \A u \in Tabs : misled'[u]
  BY <1>2
<1>4. QED
  BY <1>1, <1>2, <1>3, HandlerMoves

LEMMA Fails ==
  ASSUME Inv, NEW t \in Tabs, NEW k \in Threads, Fail(t, k) \/ OrderFails(t, k)
  PROVE  Inv'
<1>1. /\ thread[t][k].pc \in {"send", "done"} /\ UNCHANGED <<cart, orders>> /\ keys' \in Nat
      /\ UNCHANGED channel
  BY TabRow DEF Fail, OrderFails, server
<1>2. tab[t] \in TabRows /\ misled \in [Tabs -> BOOLEAN]
  BY TabRow
<1> DEFINE m == [u \in Tabs |-> misled[u] \/ thread[t][k].pc = "done"]
<1>3. CASE Fail(t, k) /\ thread[t][k].kind = "set"
  <2>1. /\ StartFetch(t, k, "load") /\ tab' = [tab EXCEPT ![t] = [tab[t] EXCEPT !.loading = TRUE]]
        /\ misled' = [m EXCEPT ![t] = FALSE]
    BY <1>3 DEF Fail, Inv, Types
  <2>2. [tab[t] EXCEPT !.loading = TRUE] \in TabRows
    BY <1>2 DEF TabRows
  <2>3. /\ misled' \in [Tabs -> BOOLEAN] /\ \A u \in Tabs \ {t} : misled[u] => misled'[u]
        /\ thread[t][k].pc = "done" => \A u \in Tabs \ {t} : misled'[u]
    BY <1>2, <2>1
  <2>4. ~Speaking(thread[t][k]) \/ thread[t][k].pc = "done"
    BY <1>1 DEF Speaking
  <2>5. QED
    BY <1>1, <2>1, <2>2, <2>3, <2>4, TabFetches
<1>4. CASE Fail(t, k) /\ thread[t][k].kind # "set"
  <2>1. /\ thread' = [thread EXCEPT ![t][k] = Idle] /\ misled' = m
        /\ tab' = [tab EXCEPT ![t] = [tab[t] EXCEPT !.loading = FALSE]]
    BY <1>4 DEF Fail, Inv, Types
  <2>2. [tab[t] EXCEPT !.loading = FALSE] \in TabRows /\ [tab[t] EXCEPT !.loading = FALSE].shown = tab[t].shown
    BY <1>2 DEF TabRows
  <2>3. QED
    BY <1>1, <2>1, <2>2, HandlerFails
<1>5. CASE OrderFails(t, k)
  <2> DEFINE q == [tab[t] EXCEPT !.processing = @ /\ ~SamePage(t, k)]
  <2>1. /\ thread' = [thread EXCEPT ![t][k] = Idle] /\ misled' = m
        /\ tab' = [tab EXCEPT ![t] = q]
    BY <1>5 DEF OrderFails, Inv, Types
  <2>2. q \in TabRows /\ q.shown = tab[t].shown
    BY <1>2 DEF TabRows
  <2> HIDE DEF q
  <2>3. QED
    BY <1>1, <2>1, <2>2, HandlerFails
<1>6. QED
  BY <1>3, <1>4, <1>5

LEMMA AsksThePromo ==
  ASSUME Inv, NEW t \in Tabs, NEW k \in Threads, ApplyPromo(t, k)
  PROVE  Inv'
<1> DEFINE r == [Idle EXCEPT !.pc = "validate", !.kind = "promo", !.value = tab[t].shown]
           q == [tab[t] EXCEPT !.loading = TRUE]
<1>1. tab[t] \in TabRows /\ tab[t].shown \in Nat
  BY TabRow DEF TabRows
<1>2. r \in ThreadRows /\ ~r.current /\ r.pc = "validate"
  BY <1>1 DEF Idle, ThreadRows, Kinds
<1>3. q \in TabRows /\ q.shown = tab[t].shown
  BY <1>1 DEF TabRows
<1>4. ~thread[t][k].current /\ ~Speaking(thread[t][k]) /\ thread[t][k].pc # "done"
  BY TabRow DEF ApplyPromo, Doing, Speaking
<1>5. /\ thread' = [thread EXCEPT ![t][k] = r] /\ tab' = [tab EXCEPT ![t] = q]
      /\ UNCHANGED <<cart, orders>> /\ keys' \in Nat /\ UNCHANGED channel /\ misled' = misled
  BY TabRow DEF ApplyPromo, server, Inv, Types
<1> HIDE DEF r, q
<1>6. misled' \in [Tabs -> BOOLEAN]
  BY <1>5, TabRow
<1>7. QED
  BY <1>2, <1>3, <1>4, <1>5, <1>6, HandlerMoves

LEMMA Validates ==
  ASSUME Inv, NEW t \in Tabs, NEW k \in Threads, Validated(t, k)
  PROVE  Inv'
<1>1. Idle \in ThreadRows /\ ~Idle.current /\ Idle.pc = "idle"
  BY IdleIs
<1>2. /\ thread[t][k].pc = "validate" /\ thread' = [thread EXCEPT ![t][k] = Idle]
      /\ UNCHANGED <<cart, orders>> /\ keys' \in Nat /\ misled' = misled
      /\ UNCHANGED channel \/ Announcing(t)
  BY TabRow DEF Validated, server, Announcing
<1>3. /\ ~thread[t][k].current /\ ~Speaking(thread[t][k]) /\ misled' \in [Tabs -> BOOLEAN]
      /\ tab[t] \in TabRows /\ thread[t][k].value \in Nat
  BY <1>2, TabRow DEF Speaking, ThreadRows
<1>4. PICK q \in TabRows : tab' = [tab EXCEPT ![t] = q] /\ q.shown = tab[t].shown
  <2> DEFINE valid == [tab[t] EXCEPT !.promo = TRUE, !.discountOf = thread[t][k].value, !.loading = FALSE]
             void == [tab[t] EXCEPT !.promo = FALSE, !.discountOf = 0, !.loading = FALSE]
  <2>1. valid \in TabRows /\ void \in TabRows /\ valid.shown = tab[t].shown /\ void.shown = tab[t].shown
    BY <1>3 DEF TabRows
  <2>2. tab' = [tab EXCEPT ![t] = valid] \/ tab' = [tab EXCEPT ![t] = void]
    BY DEF Validated, Inv, Types
  <2> HIDE DEF valid, void
  <2>3. QED
    BY <2>1, <2>2
<1>5. QED
  BY <1>1, <1>2, <1>3, <1>4, HandlerMoves

LEMMA Submits ==
  ASSUME Inv, NEW t \in Tabs, NEW k \in Threads, Submit(t, k)
  PROVE  Inv'
<1> DEFINE r == [Idle EXCEPT !.pc = "send", !.kind = "order", !.value = KeyOf(t),
                   !.mount = tab[t].mount, !.form = tab[t].form]
           q == [tab[t] EXCEPT !.processing = TRUE]
<1>1. tab[t] \in TabRows /\ tab[t].mount \in Nat /\ tab[t].form \in Nat
  BY TabRow DEF TabRows
<1>2. r \in ThreadRows /\ ~r.current /\ r.pc = "send" /\ r.value = r.mount
  BY <1>1 DEF Idle, ThreadRows, Kinds, KeyOf
<1>3. q \in TabRows /\ q.shown = tab[t].shown
  BY <1>1 DEF TabRows
<1>4. ~thread[t][k].current /\ ~Speaking(thread[t][k]) /\ thread[t][k].pc # "done"
  BY TabRow DEF Submit, Doing, Speaking
<1>5. /\ thread' = [thread EXCEPT ![t][k] = r] /\ tab' = [tab EXCEPT ![t] = q]
      /\ UNCHANGED <<cart, orders>> /\ keys' \in Nat /\ UNCHANGED channel /\ misled' = misled
  BY TabRow DEF Submit, server, Inv, Types
<1> HIDE DEF r, q
<1>6. misled' \in [Tabs -> BOOLEAN]
  BY <1>5, TabRow
<1>7. QED
  BY <1>2, <1>3, <1>4, <1>5, <1>6, HandlerMoves

LEMMA Pays ==
  ASSUME Inv, NEW t \in Tabs, NEW k \in Threads, NEW method \in Methods, Pay(t, k, method)
  PROVE  Inv'
<1>1. /\ thread[t][k].pc = "pay" /\ UNCHANGED <<cart, orders>> /\ keys' \in Nat /\ UNCHANGED channel
  BY TabRow DEF Pay, server
<1>2. /\ tab[t] \in TabRows /\ misled \in [Tabs -> BOOLEAN]
      /\ ~thread[t][k].current /\ ~Speaking(thread[t][k])
  BY <1>1, TabRow DEF Speaking
<1>3. CASE StartFetch(t, k, "load") /\ misled' = [misled EXCEPT ![t] = FALSE] /\
           \E q \in TabRows : tab' = [tab EXCEPT ![t] = q]
  <2>1. misled' \in [Tabs -> BOOLEAN] /\ \A u \in Tabs \ {t} : misled[u] => misled'[u]
    BY <1>2, <1>3
  <2>2. QED
    BY <1>1, <1>2, <1>3, <2>1, TabFetches
<1>4. CASE /\ thread' = [thread EXCEPT ![t][k] = Idle] /\ misled' = misled
           /\ tab' = [tab EXCEPT ![t] = [tab[t] EXCEPT !.processing = @ /\ ~SamePage(t, k)]]
  <2> DEFINE q == [tab[t] EXCEPT !.processing = @ /\ ~SamePage(t, k)]
  <2>1. q \in TabRows /\ q.shown = tab[t].shown
    BY <1>2 DEF TabRows
  <2>2. tab' = [tab EXCEPT ![t] = q]
    BY <1>4
  <2> HIDE DEF q
  <2>3. Idle \in ThreadRows /\ ~Idle.current /\ Idle.pc = "idle"
    BY IdleIs
  <2>4. misled' \in [Tabs -> BOOLEAN] /\ \A u \in Tabs : misled[u] => misled'[u]
    BY <1>2, <1>4
  <2>5. QED
    BY <1>1, <1>2, <1>4, <2>1, <2>2, <2>3, <2>4, HandlerMoves
<1>5. [Leave(t) EXCEPT !.loading = TRUE] \in TabRows /\ [NewTab EXCEPT !.shown = 0] \in TabRows
  BY <1>2 DEF Leave, NewTab, TabRows
<1>6. QED
  BY <1>3, <1>4, <1>5 DEF Pay, Inv, Types

LEMMA Gets ==
  ASSUME Inv, NEW t \in Tabs, NEW k \in Threads, GetCart(t, k)
  PROVE  Inv'
<1> DEFINE r == [thread[t][k] EXCEPT !.pc = "got", !.value = cart]
           row == [thread[t] EXCEPT ![k] = r]
<1>1. /\ tab[t] \in TabRows /\ thread[t] \in [Threads -> ThreadRows] /\ RowOK(thread[t])
      /\ thread[t][k].pc = "get" /\ cart \in Nat
  BY TabRow DEF GetCart
<1>2. /\ r \in ThreadRows /\ r.pc = "got" /\ r.value = cart
      /\ r.current = thread[t][k].current /\ r.kind = thread[t][k].kind
  BY <1>1 DEF ThreadRows
<1>3. /\ UNCHANGED <<cart, orders>> /\ keys' \in Nat /\ UNCHANGED channel
      /\ misled' = misled /\ misled' \in [Tabs -> BOOLEAN]
      /\ tab' = [tab EXCEPT ![t] = tab[t]]
  BY TabRow DEF GetCart, server
<1>8. thread' = [thread EXCEPT ![t] = row]
  BY DEF GetCart, Inv, Types
<1> HIDE DEF r
<1>4. /\ row \in [Threads -> ThreadRows] /\ row[k] = r
      /\ \A j \in Threads : j # k => row[j] = thread[t][j]
  BY <1>1, <1>2
<1> HIDE DEF row
<1>5. RowOK(row)
  BY <1>1, <1>2, <1>4 DEF RowOK
<1>6. /\ Fresh(thread[t], tab[t].shown) => Fresh(row, tab[t].shown)
      /\ Awaits(thread[t]) => Awaits(row)
      /\ Speaks(thread[t]) => Speaks(row)
  BY <1>1, <1>2, <1>4 DEF Fresh, Awaits, Speaks, Speaking
<1>7. QED
  BY <1>1, <1>3, <1>4, <1>5, <1>6, <1>8, TabMoves

\* The handler whose fetch is wanted ends it: no other fetch is.
LEMMA WantedEnds ==
  ASSUME NEW row \in [Threads -> ThreadRows], RowOK(row), NEW k \in Threads, NEW r \in ThreadRows,
         row[k].current, ~r.current, r.pc \in {"idle", "validate"},
         NEW new, new = [row EXCEPT ![k] = r]
  PROVE  /\ new \in [Threads -> ThreadRows] /\ RowOK(new)
         /\ \A j \in Threads : ~new[j].current
         /\ Awaits(row) => Awaits(new)
         /\ Speaks(row) /\ ~Speaking(row[k]) => Speaks(new)
<1>1. /\ new \in [Threads -> ThreadRows] /\ new[k] = r
      /\ \A j \in Threads : j # k => new[j] = row[j] /\ ~row[j].current
  BY DEF RowOK
<1>2. RowOK(new)
  BY <1>1 DEF RowOK
<1>3. /\ Awaits(row) => Awaits(new)
      /\ Speaks(row) /\ ~Speaking(row[k]) => Speaks(new)
  BY <1>1 DEF Awaits, Speaks, RowOK
<1>4. QED
  BY <1>1, <1>2, <1>3

LEMMA Got ==
  ASSUME Inv, NEW t \in Tabs, NEW k \in Threads, GotCart(t, k)
  PROVE  Inv'
<1> DEFINE r == thread[t][k]
<1>1. /\ tab[t] \in TabRows /\ thread[t] \in [Threads -> ThreadRows] /\ RowOK(thread[t])
      /\ r \in ThreadRows /\ r.pc = "got" /\ r.value \in Nat
  BY TabRow DEF GotCart, ThreadRows
<1>2. /\ UNCHANGED <<cart, orders>> /\ keys' \in Nat /\ misled' = misled
      /\ misled' \in [Tabs -> BOOLEAN]
      /\ UNCHANGED channel \/ Announcing(t)
      /\ ~Speaking(r) \/ Announcing(t)
  BY <1>1, TabRow DEF GotCart, server, Announce, Announcing, Speaking
<1>3. CASE ~r.current
  <2> DEFINE q == [tab[t] EXCEPT !.loading = IF r.kind = "change" THEN FALSE ELSE @]
  <2>1. q \in TabRows /\ q.shown = tab[t].shown
    BY <1>1 DEF TabRows
  <2>2. tab' = [tab EXCEPT ![t] = q] /\ thread' = [thread EXCEPT ![t][k] = Idle]
    BY <1>3 DEF GotCart, Accepted, Inv, Types
  <2> HIDE DEF q
  <2>3. Idle \in ThreadRows /\ ~Idle.current /\ Idle.pc = "idle"
    BY IdleIs
  <2>4. QED
    BY <1>1, <1>2, <1>3, <2>1, <2>2, <2>3, HandlerMoves
<1>4. CASE r.current
  <2> DEFINE q == [Show(t, r.value) EXCEPT !.loading = FALSE]
             new == IF r.value > 0 /\ tab[t].promo
                    THEN [Idle EXCEPT !.pc = "validate", !.kind = "again", !.value = r.value]
                    ELSE Idle
             row == [thread[t] EXCEPT ![k] = new]
  <2>1. q \in TabRows /\ q.shown = r.value
    <3>1. Show(t, r.value) \in TabRows /\ Show(t, r.value).shown = r.value
      <4>1. CASE r.value > 0
        BY <1>1, <4>1 DEF TabRows, Show
      <4>2. CASE ~(r.value > 0)
        <5>1. r.value = 0
          BY <1>1, <4>2
        <5>2. QED
          BY <1>1, <4>2, <5>1 DEF TabRows, Show
      <4>3. QED
        BY <4>1, <4>2
    <3>2. QED
      BY <3>1 DEF TabRows
  <2>2. new \in ThreadRows /\ ~new.current /\ new.pc \in {"idle", "validate"}
    BY <1>1 DEF Idle, ThreadRows, Kinds
  <2>3. tab' = [tab EXCEPT ![t] = q] /\ thread' = [thread EXCEPT ![t][k] = new]
    BY <1>4 DEF GotCart, Accepted
  <2> HIDE DEF q, new
  <2>4. thread' = [thread EXCEPT ![t] = row]
    BY <2>3 DEF Inv, Types
  <2>5. /\ row \in [Threads -> ThreadRows] /\ RowOK(row) /\ \A j \in Threads : ~row[j].current
        /\ Awaits(thread[t]) => Awaits(row)
        /\ Speaks(thread[t]) /\ ~Speaking(r) => Speaks(row)
    BY <1>1, <1>4, <2>2, WantedEnds
  <2> HIDE DEF row
  <2>6. Fresh(thread[t], tab[t].shown) => Fresh(row, q.shown)
    BY <1>1, <1>4, <2>1, <2>5 DEF Fresh
  <2>7. (Speaks(thread[t]) => Speaks(row)) \/ Announcing(t)
    BY <1>2, <2>5
  <2>8. \A u \in Tabs : misled[u] => misled'[u]
    BY <1>2
  <2>9. QED
    BY <1>2, <2>1, <2>3, <2>4, <2>5, <2>6, <2>7, <2>8, TabMoves
<1>5. QED
  BY <1>3, <1>4

LEMMA Loses ==
  ASSUME Inv, NEW t \in Tabs, NEW k \in Threads, LoseCart(t, k)
  PROVE  Inv'
<1> DEFINE r == thread[t][k]
           q == [tab[t] EXCEPT !.loading = IF r.current \/ r.kind = "change" THEN FALSE ELSE @]
           row == [thread[t] EXCEPT ![k] = Idle]
<1>1. /\ tab[t] \in TabRows /\ thread[t] \in [Threads -> ThreadRows] /\ RowOK(thread[t])
      /\ r \in ThreadRows /\ r.pc = "get" /\ misled \in [Tabs -> BOOLEAN]
  BY TabRow DEF LoseCart
<1>2. /\ UNCHANGED <<cart, orders>> /\ keys' \in Nat
      /\ UNCHANGED channel \/ Announcing(t)
      /\ ~Speaking(r) \/ Announcing(t)
  BY <1>1, TabRow DEF LoseCart, server, Announce, Announcing, Speaking
<1>3. q \in TabRows /\ q.shown = tab[t].shown
  BY <1>1 DEF TabRows
<1>4. /\ tab' = [tab EXCEPT ![t] = q] /\ thread' = [thread EXCEPT ![t] = row]
      /\ thread' = [thread EXCEPT ![t][k] = Idle]
      /\ misled' = [misled EXCEPT ![t] = @ \/ r.current]
  BY DEF LoseCart, Inv, Types
<1> HIDE DEF q
<1>5. Idle \in ThreadRows /\ ~Idle.current /\ Idle.pc = "idle"
  BY IdleIs
<1>6. misled' \in [Tabs -> BOOLEAN] /\ \A u \in Tabs : misled[u] => misled'[u]
  BY <1>1, <1>4
<1>7. CASE ~r.current
  BY <1>1, <1>2, <1>3, <1>4, <1>5, <1>6, <1>7, HandlerMoves
<1>8. CASE r.current
  <2>1. misled'[t]
    BY <1>1, <1>4, <1>8
  <2>2. /\ row \in [Threads -> ThreadRows] /\ RowOK(row)
        /\ Speaks(thread[t]) /\ ~Speaking(r) => Speaks(row)
    BY <1>1, <1>5, <1>8, WantedEnds
  <2>3. (Speaks(thread[t]) => Speaks(row)) \/ Announcing(t)
    BY <1>2, <2>2
  <2> HIDE DEF row
  <2>4. QED
    BY <1>2, <1>3, <1>4, <1>6, <2>1, <2>2, <2>3, TabMoves
<1>9. QED
  BY <1>7, <1>8

LEMMA Receives ==
  ASSUME Inv, NEW t \in Tabs, NEW at \in DOMAIN sent, NEW k \in Threads, Receive(t, at, k)
  PROVE  Inv'
<1>1. /\ tab[t] \in TabRows /\ thread[t] \in [Threads -> ThreadRows] /\ RowOK(thread[t])
      /\ misled \in [Tabs -> BOOLEAN] /\ tab \in [Tabs -> TabRows]
  BY TabRow DEF Inv, Types
<1>2. /\ sent \in Seq(Messages) /\ last \in [Tabs -> Nat] /\ Len(sent) \in Nat
      /\ at \in 1..Len(sent) /\ last[t] \in Nat /\ at > last[t]
  BY DEF Inv, Types, Receive, Stale
<1>3. /\ last' = [last EXCEPT ![t] = at] /\ sent' = sent /\ UNCHANGED <<cart, orders>>
      /\ keys' \in Nat
  BY TabRow DEF Receive, server
<1>4. /\ Len(sent') >= Len(sent) /\ \A n \in 1..Len(sent) : sent'[n] = sent[n]
      /\ last' \in [Tabs -> Nat] /\ last'[t] <= Len(sent')
      /\ \A u \in Tabs \ {t} : last'[u] = last[u]
  BY <1>2, <1>3
<1>5. CASE sent[at].kind = "CART_UPDATED"
  <2> DEFINE q == [tab[t] EXCEPT !.loading = FALSE]
             row == [Outdated(t) EXCEPT ![k] = Fetch("load")]
  <2>1. /\ thread' = [thread EXCEPT ![t] = row] /\ tab' = [tab EXCEPT ![t] = q]
        /\ misled' = [misled EXCEPT ![t] = FALSE] /\ ~Speaking(thread[t][k])
    BY <1>1, <1>5 DEF Receive, Load, StartFetch, Speaking
  <2>2. q \in TabRows
    BY <1>1 DEF TabRows
  <2>3. /\ row \in [Threads -> ThreadRows] /\ RowOK(row) /\ Fresh(row, q.shown)
        /\ Speaks(thread[t]) => Speaks(row)
    BY <1>1, <2>1, FetchStarts
  <2>4. misled' \in [Tabs -> BOOLEAN] /\ \A u \in Tabs \ {t} : misled[u] => misled'[u]
    BY <1>1, <2>1
  <2> HIDE DEF q, row
  <2>5. QED
    BY <1>2, <1>3, <1>4, <2>1, <2>2, <2>3, <2>4, TabSteps
<1>6. CASE sent[at].kind # "CART_UPDATED"
  <2>1. /\ thread' = [thread EXCEPT ![t] = Outdated(t)] /\ tab' = [tab EXCEPT ![t] = EmptyCart(t)]
        /\ misled' = [misled EXCEPT ![t] = cart # 0]
    BY <1>2, <1>6 DEF Receive
  <2>2. EmptyCart(t) \in TabRows /\ EmptyCart(t).shown = 0
    BY <1>1 DEF EmptyCart, TabRows
  <2>3. /\ Outdated(t) \in [Threads -> ThreadRows] /\ RowOK(Outdated(t))
        /\ \A j \in Threads : ~Outdated(t)[j].current
        /\ Speaks(thread[t]) => Speaks(Outdated(t))
    BY <1>1, HandlersOutdated
  <2>4. /\ misled' \in [Tabs -> BOOLEAN] /\ \A u \in Tabs \ {t} : misled[u] => misled'[u]
        /\ misled'[t] <=> cart # 0
    BY <1>1, <2>1
  <2>5. misled'[t] \/ Fresh(Outdated(t), EmptyCart(t).shown)
    BY <2>2, <2>3, <2>4 DEF Fresh
  <2>6. QED
    BY <1>2, <1>3, <1>4, <2>1, <2>2, <2>3, <2>4, <2>5, TabSteps
<1>7. QED
  BY <1>5, <1>6

-----------------------------------------------------------------------------
(* The server *)

\* A request is carried out: its tab awaits the answer and will speak of it.
LEMMA ServerActs ==
  ASSUME Inv, NEW t \in Tabs, NEW k \in Threads, thread[t][k].pc = "send",
         thread' = [thread EXCEPT ![t][k].pc = "done"], cart' \in Nat,
         orders' \in [1..MaxKeys -> [units : Nat, by : Nat, form : Nat]], Named',
         UNCHANGED <<tab, channel, keys, misled>>
  PROVE  Inv'
<1> DEFINE r == [thread[t][k] EXCEPT !.pc = "done"]
           row == [thread[t] EXCEPT ![k] = r]
<1>1. /\ thread[t] \in [Threads -> ThreadRows] /\ RowOK(thread[t]) /\ ~thread[t][k].current
      /\ thread[t][k] \in ThreadRows
  BY TabRow
<1>2. r \in ThreadRows /\ ~r.current /\ r.pc = "done" /\ Speaking(r)
  BY <1>1 DEF ThreadRows, Speaking
<1> HIDE DEF r
<1>3. row \in [Threads -> ThreadRows] /\ RowOK(row) /\ Awaits(row) /\ Speaks(row)
  BY <1>1, <1>2, HandlerGoesOn
<1>4. /\ thread'[t] = row /\ \A u \in Tabs \ {t} : thread'[u] = thread[u]
      /\ thread' \in [Tabs -> [Threads -> ThreadRows]]
  BY <1>3 DEF r, Inv, Types
<1> HIDE DEF row
<1>5. \A u \in Tabs : RowOK(thread'[u])
  BY <1>3, <1>4 DEF Inv
<1>6. \A u \in Tabs : Covered(u)'
  BY <1>3, <1>4 DEF Covered
<1>7. Types'
  BY <1>4 DEF Inv, Types, channel
<1>8. QED
  BY <1>5, <1>6, <1>7 DEF Inv

LEMMA Carries ==
  ASSUME Inv, NEW t \in Tabs, NEW k \in Threads, Carry(t, k)
  PROVE  Inv'
<1>1. /\ thread[t][k].pc = "send" /\ thread' = [thread EXCEPT ![t][k].pc = "done"]
      /\ UNCHANGED <<tab, channel, keys, misled>> /\ orders' = orders
      /\ cart' \in 0..MaxUnits
  BY DEF Carry
<1>2. cart' \in Nat
  BY <1>1, StorefrontAssumption
<1>3. orders' \in [1..MaxKeys -> [units : Nat, by : Nat, form : Nat]] /\ Named'
  BY <1>1 DEF Inv, Types, Named
<1>4. QED
  BY <1>1, <1>2, <1>3, ServerActs

LEMMA Places ==
  ASSUME Inv, NEW t \in Tabs, NEW k \in Threads, PlaceOrder(t, k)
  PROVE  Inv'
<1> DEFINE r == thread[t][k]
<1>1. /\ r.pc = "send" /\ r.kind = "order" /\ thread' = [thread EXCEPT ![t][k].pc = "done"]
      /\ UNCHANGED <<tab, channel, keys, misled>>
  BY DEF PlaceOrder
<1>2. r \in ThreadRows /\ r.value = r.mount
  BY <1>1, TabRow DEF RowOK
<1>3. CASE UNCHANGED <<cart, orders>>
  <2>1. /\ cart' \in Nat /\ Named'
        /\ orders' \in [1..MaxKeys -> [units : Nat, by : Nat, form : Nat]]
    BY <1>3 DEF Inv, Types, Named
  <2>2. QED
    BY <1>1, <2>1, ServerActs
<1>4. CASE /\ cart' = 0
           /\ orders' = [orders EXCEPT ![r.value] = [units |-> cart, by |-> r.mount, form |-> r.form]]
  <2>1. [units |-> cart, by |-> r.mount, form |-> r.form] \in [units : Nat, by : Nat, form : Nat]
    BY <1>2 DEF Inv, Types, ThreadRows
  <2>2. orders' \in [1..MaxKeys -> [units : Nat, by : Nat, form : Nat]]
    BY <1>4, <2>1 DEF Inv, Types
  <2>3. Named'
    BY <1>2, <1>4 DEF Named, Inv, Types
  <2>4. QED
    BY <1>1, <1>4, <2>2, <2>3, ServerActs
<1>5. QED
  BY <1>3, <1>4 DEF PlaceOrder, server

-----------------------------------------------------------------------------

LEMMA InitInv == Init => Inv
<1> SUFFICES ASSUME Init PROVE Inv
  OBVIOUS
<1>1. NewTab \in TabRows /\ NewTab.shown = 1
  BY DEF NewTab, TabRows
<1>2. [units |-> 0, by |-> 0, form |-> 0] \in [units : Nat, by : Nat, form : Nat]
  OBVIOUS
<1>3. Types /\ Named
  BY <1>1, <1>2, IdleIs, StorefrontAssumption DEF Init, Types, Named, NoOrder
<1>4. \A t \in Tabs : RowOK(thread[t]) /\ Fresh(thread[t], tab[t].shown)
  BY <1>1, IdleIs DEF Init, RowOK, Fresh
<1>5. QED
  BY <1>3, <1>4 DEF Inv, Covered

LEMMA NextInv == Inv /\ [Next]_vars => Inv'
<1> SUFFICES ASSUME Inv, [Next]_vars PROVE Inv'
  OBVIOUS
<1>1. CASE UNCHANGED vars
  BY <1>1 DEF vars, Inv, Types, Named, Covered, Pending, Fresh
<1>2. CASE Next
  <2> PICK t \in Tabs :
        \/ OpenCheckout(t) \/ EditForm(t) \/ RemovePromo(t)
        \/ \E k \in Threads :
             \/ \E kind \in Changes, n \in 0..MaxUnits : Ask(t, k, kind, n)
             \/ Carry(t, k) \/ Succeed(t, k) \/ Cleared(t, k) \/ Fail(t, k)
             \/ Focus(t, k) \/ GetCart(t, k) \/ GotCart(t, k) \/ LoseCart(t, k)
             \/ ApplyPromo(t, k) \/ Validated(t, k)
             \/ OpenCart(t, k) \/ Submit(t, k) \/ PlaceOrder(t, k) \/ Ordered(t, k)
             \/ OrderFails(t, k) \/ \E method \in Methods : Pay(t, k, method)
             \/ \E at \in DOMAIN sent : Receive(t, at, k)
    BY <1>2 DEF Next
  <2>1. CASE OpenCheckout(t) \/ EditForm(t) \/ RemovePromo(t)
    BY <2>1, PagesChange
  <2>2. ASSUME NEW k \in Threads,
               \/ \E kind \in Changes, n \in 0..MaxUnits : Ask(t, k, kind, n)
               \/ Carry(t, k) \/ Succeed(t, k) \/ Cleared(t, k) \/ Fail(t, k)
               \/ Focus(t, k) \/ GetCart(t, k) \/ GotCart(t, k) \/ LoseCart(t, k)
               \/ ApplyPromo(t, k) \/ Validated(t, k)
               \/ OpenCart(t, k) \/ Submit(t, k) \/ PlaceOrder(t, k) \/ Ordered(t, k)
               \/ OrderFails(t, k) \/ \E method \in Methods : Pay(t, k, method)
               \/ \E at \in DOMAIN sent : Receive(t, at, k)
        PROVE  Inv'
    BY <2>2, Asks, Carries, Succeeds, Resets, Fails, Opens, Gets, Got, Loses, AsksThePromo,
       Validates, Submits, Places, Pays, Receives
  <2>3. QED
    BY <2>1, <2>2
<1>3. QED
  BY <1>1, <1>2

LEMMA Invariance == Spec => []Inv
BY InitInv, NextInv, PTL DEF Spec

\* When all is quiet every tab shows the cart of the server, except one that was
\* misled: however many tabs, handlers, requests and messages there are.
THEOREM QuietTabsShowTheCart == Spec => []QuietTabsAgree
<1>1. Inv => QuietTabsAgree
  <2> SUFFICES ASSUME Inv, Quiet, NEW t \in Tabs, ~misled[t]
               PROVE  tab[t].shown = cart
    BY DEF QuietTabsAgree
  <2>1. Covered(t) /\ Pending(t) = {}
    BY DEF Inv, Quiet
  <2>2. \A u \in Tabs : ~Awaits(thread[u]) /\ ~Speaks(thread[u])
    BY DEF Quiet, Awaits, Speaks, Speaking
  <2>3. \A k \in Threads : ~thread[t][k].current
    BY DEF Quiet, Inv, RowOK
  <2>4. QED
    BY <2>1, <2>2, <2>3 DEF Covered, Fresh
<1>2. QED
  BY <1>1, Invariance, PTL

\* However often its form is submitted, whatever answers are lost and whatever
\* other tabs do, a checkout page makes one order.
THEOREM PagesOrderOnce == Spec => []OneOrderPerPage
<1>1. Inv => OneOrderPerPage
  BY DEF Inv, Named, OneOrderPerPage
<1>2. QED
  BY <1>1, Invariance, PTL
=============================================================================
