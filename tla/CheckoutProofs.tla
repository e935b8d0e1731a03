--------------------------- MODULE CheckoutProofs ---------------------------
(***************************************************************************)
(* Proofs about Checkout, for every value of its constants.  The inductive *)
(* invariant is Inv: the types of the tables and what the row locks        *)
(* protect.  On top of it: the stock, the money of cancelled orders, the   *)
(* points, the promo uses, the keys, the units of the cart, and that       *)
(* checkouts do not wait for one another in a circle.                      *)
(*                                                                         *)
(* The last part is about Rewards, for any number of purchases, orders,    *)
(* reviews and points: NotOverspent rests on the lock of the customer's    *)
(* row, for while a spend holds it, the sum of the ledger it has read can  *)
(* only have grown.                                                        *)
(***************************************************************************)
EXTENDS MCPoints, UnitsTheorems, WellFoundedInduction

Inv == TypeOK /\ LocksProtect

-----------------------------------------------------------------------------
(* Types *)

\* The tables are created with values of their columns' types.
LEMMA InitTypeOK == Init => TypeOK
<1> SUFFICES ASSUME Init
             PROVE  TypeOK
  OBVIOUS
<1>1. NoItems \in [Skus -> Nat]
  BY DEF NoItems
<1>2. EmptyRow \in OrderRows
  BY <1>1 DEF EmptyRow, OrderRows
<1>3. IdleTx \in TxStates
  BY <1>1 DEF IdleTx, TxStates
<1>4. IdleCx \in CxStates
  BY DEF IdleCx, CxStates
<1>5. NoIdem \in IdemRows
  BY DEF NoIdem, IdemRows
<1>6. QED
  BY <1>2, <1>3, <1>4, <1>5, CheckoutAssumption DEF Init, TypeOK

\* Writes to the cart leave every other table and every transaction alone.
LEMMA CartWrites ==
  (\E u \in Users, s \in Skus : \E q \in 1..MaxAdded :
      CartAdd(u, s, q) \/ CartUpdate(u, s, q))
    => UNCHANGED <<stock, promo, points, orders, idem, outbox, tx, cx, served>>
<1> SUFFICES ASSUME NEW u \in Users, NEW s \in Skus, NEW q \in 1..MaxAdded,
                    CartAdd(u, s, q) \/ CartUpdate(u, s, q)
             PROVE  UNCHANGED <<stock, promo, points, orders, idem, outbox, tx, cx, served>>
  OBVIOUS
<1>1. CASE CartAdd(u, s, q)
  BY <1>1 DEF CartAdd
<1>2. CASE CartUpdate(u, s, q)
  BY <1>2 DEF CartUpdate
<1>3. QED
  BY <1>1, <1>2

\* Every step preserves the types.  That a stock stays a natural number is
\* what DeductionsCovered is for.
LEMMA NextTypeOK == Inv /\ [Next]_vars => TypeOK'
<1> SUFFICES ASSUME Inv, [Next]_vars
             PROVE  TypeOK'
  OBVIOUS
<1> USE CheckoutAssumption
<1>0. NoItems \in [Skus -> Nat] /\ IdleTx \in TxStates /\ IdleCx \in CxStates
  BY DEF NoItems, IdleTx, TxStates, IdleCx, CxStates
<1>1. ASSUME NEW u \in Users, NEW s \in Skus, NEW q \in 1..MaxAdded,
             CartAdd(u, s, q) \/ CartUpdate(u, s, q)
      PROVE  TypeOK'
  <2>1. /\ cart \in [Users -> [Skus -> Nat]] /\ added \in [Users -> [Skus -> Nat]]
        /\ q \in Nat
    BY DEF TypeOK, Inv
  <2>2. cart' \in [Users -> [Skus -> Nat]]
    <3>1. CASE CartAdd(u, s, q)
      BY <2>1, <3>1 DEF CartAdd
    <3>2. CASE CartUpdate(u, s, q)
      BY <2>1, <3>2 DEF CartUpdate
    <3>3. QED
      BY <1>1, <3>1, <3>2
  <2>3. added' \in [Users -> [Skus -> Nat]]
    <3>1. CASE CartAdd(u, s, q)
      BY <2>1, <3>1 DEF CartAdd
    <3>2. CASE CartUpdate(u, s, q)
      BY <2>1, <3>2 DEF CartUpdate
    <3>3. QED
      BY <1>1, <3>1, <3>2
  <2>4. QED
    BY <1>1, <2>2, <2>3 DEF CartAdd, CartUpdate, TypeOK, Inv
<1>2. ASSUME NEW u \in Users, NEW s \in Skus, CartRemove(u, s)
      PROVE  TypeOK'
  <2>1. tx' \in [Reqs -> TxStates]
    <3>1. ASSUME NEW r \in Reqs
          PROVE  [tx[r] EXCEPT !.rows = @ \ {s}] \in TxStates /\ tx[r] \in TxStates
      <4>1. tx[r] \in TxStates
        BY DEF TypeOK, Inv
      <4>2. QED
        BY <4>1 DEF TxStates
    <3>2. QED
      BY <1>2, <3>1 DEF CartRemove
  <2>2. QED
    BY <1>2, <2>1 DEF CartRemove, TypeOK, Inv, history
<1>3. ASSUME NEW r \in Reqs, NEW u \in Users, NEW k \in Keys \cup {Null},
             NEW h \in Hashes, NEW p \in BOOLEAN, CheckoutBegin(r, u, k, h, p)
      PROVE  TypeOK'
  <2>1. tx' \in [Reqs -> TxStates]
    BY <1>3 DEF CheckoutBegin, TypeOK, Inv, TxStates, Needed
  <2>2. QED
    BY <1>3, <2>1 DEF CheckoutBegin, TypeOK, Inv, tables, history
<1>4. ASSUME NEW r \in Reqs, NEW u \in Users, NEW k \in Keys, NEW h \in Hashes,
             CheckoutReplay(r, u, k, h)
      PROVE  TypeOK'
  <2>1. idem[u][k] # NoIdem /\ idem[u][k] \in IdemRows
    BY <1>4 DEF CheckoutReplay, KeyUnused, TypeOK, Inv
  <2>2. QED
    BY <1>4, <2>1 DEF CheckoutReplay, Response, TypeOK, Inv, tables, IdemRows, SameRequest
<1>5. ASSUME NEW r \in Reqs, CheckoutQuote(r)
      PROVE  TypeOK'
  <2>1. tx' \in [Reqs -> TxStates]
    <3>1. points[tx[r].user] \in Nat
      BY <1>5 DEF CheckoutQuote, Inv, LocksProtect, DeductionsCovered, TypeOK
    <3>2. PICK p \in 0..points[tx[r].user] :
            tx' = [tx EXCEPT ![r].pc = "deduct", ![r].spend = p]
      BY <1>5 DEF CheckoutQuote
    <3>3. p \in Nat
      BY <3>1, <3>2
    <3>4. tx \in [Reqs -> TxStates] /\ tx[r] \in TxStates
      BY DEF TypeOK, Inv
    <3>5. [tx[r] EXCEPT !.pc = "deduct", !.spend = p] \in TxStates
      BY <3>3, <3>4 DEF TxStates
    <3>6. tx' = [tx EXCEPT ![r] = [tx[r] EXCEPT !.pc = "deduct", !.spend = p]]
      BY <3>2, <3>4 DEF TxStates
    <3>7. QED
      BY <3>4, <3>5, <3>6
  <2>2. QED
    BY <1>5, <2>1 DEF CheckoutQuote, TypeOK, Inv, tables, history
<1>6. ASSUME NEW r \in Reqs, NEW s \in Skus, CheckoutDeduct(r, s)
      PROVE  TypeOK'
  <2>1. tx' \in [Reqs -> TxStates]
    <3>1. tx \in [Reqs -> TxStates] /\ tx[r] \in TxStates
      BY DEF TypeOK, Inv
    <3>2. [tx[r] EXCEPT !.held = @ \cup {s}] \in TxStates
      BY <3>1 DEF TxStates
    <3>3. tx' = [tx EXCEPT ![r] = [tx[r] EXCEPT !.held = @ \cup {s}]]
      BY <1>6, <3>1 DEF CheckoutDeduct, TxStates
    <3>4. QED
      BY <3>1, <3>2, <3>3
  <2>2. QED
    BY <1>6, <2>1 DEF CheckoutDeduct, TypeOK, Inv, tables, history
<1>7. ASSUME NEW r \in Reqs, CheckoutPromo(r)
      PROVE  TypeOK'
  <2>1. tx' \in [Reqs -> TxStates]
    <3>1. tx \in [Reqs -> TxStates] /\ tx[r] \in TxStates
      BY DEF TypeOK, Inv
    <3>2. [tx[r] EXCEPT !.pc = "finish"] \in TxStates
      BY <3>1 DEF TxStates
    <3>3. tx' = [tx EXCEPT ![r] = [tx[r] EXCEPT !.pc = "finish"]]
      BY <1>7, <3>1 DEF CheckoutPromo, TxStates
    <3>4. QED
      BY <3>1, <3>2, <3>3
  <2>2. QED
    BY <1>7, <2>1 DEF CheckoutPromo, TypeOK, Inv, tables, history
<1>8. ASSUME NEW r \in Reqs, NEW o \in OrderIds, CheckoutCommit(r, o)
      PROVE  TypeOK'
  <2> DEFINE t == tx[r]
  <2>1. t \in TxStates /\ t.user \in Users
    BY <1>8 DEF CheckoutCommit, TypeOK, Inv, LocksProtect, DeductionsCovered
  <2>1a. t.hash \in Hashes
    BY <1>8 DEF CheckoutCommit, Inv, LocksProtect, DeductionsCovered
  <2>2. stock' \in [Skus -> Nat]
    <3>1. ASSUME NEW s \in Skus
          PROVE  stock[s] - t.items[s] \in Nat
      <4>1. stock[s] \in Nat /\ t.items[s] \in Nat
        BY <2>1 DEF TypeOK, Inv, TxStates
      <4>2. t.items[s] > 0 => t.items[s] <= stock[s]
        BY <1>8 DEF CheckoutCommit, Inv, LocksProtect, DeductionsCovered, Needed
      <4>3. QED
        BY <4>1, <4>2
    <3>2. QED
      BY <1>8, <3>1 DEF CheckoutCommit
  <2>3. cart' \in [Users -> [Skus -> Nat]]
    BY <1>8, <2>1 DEF CheckoutCommit, TypeOK, Inv
  <2>4. promo' \in [uses : Nat, active : BOOLEAN]
    <3>1. promo \in [uses : Nat, active : BOOLEAN]
      BY DEF TypeOK, Inv
    <3>2. [promo EXCEPT !.uses = @ + 1] \in [uses : Nat, active : BOOLEAN]
      BY <3>1
    <3>3. promo' = promo \/ promo' = [promo EXCEPT !.uses = @ + 1]
      BY <1>8 DEF CheckoutCommit
    <3>4. QED
      BY <3>1, <3>2, <3>3
  <2>5. points' \in [Users -> Nat]
    <3>1. t.spend \in Nat /\ points[t.user] \in Nat /\ t.spend <= points[t.user]
      BY <1>8, <2>1 DEF CheckoutCommit, TypeOK, Inv, TxStates
    <3>2. points[t.user] - t.spend \in Nat
      BY <3>1
    <3>3. QED
      BY <1>8, <2>1, <3>2 DEF CheckoutCommit, TypeOK, Inv
  <2>6. orders' \in [OrderIds -> OrderRows]
    BY <1>8, <2>1 DEF CheckoutCommit, TypeOK, Inv, OrderRows, TxStates, OrderStatuses
  <2>7. idem' \in [Users -> [Keys -> IdemRows]]
    <3> DEFINE row == [order |-> o, hash |-> t.hash]
    <3>1. idem \in [Users -> [Keys -> IdemRows]] /\ idem[t.user] \in [Keys -> IdemRows]
      BY <2>1 DEF TypeOK, Inv
    <3>2. CASE t.key = Null
      BY <1>8, <3>1, <3>2 DEF CheckoutCommit
    <3>3. CASE t.key # Null
      <4>1. t.key \in Keys /\ row \in IdemRows
        BY <2>1, <2>1a, <3>3 DEF TxStates, IdemRows
      <4>2. [idem[t.user] EXCEPT ![t.key] = row] \in [Keys -> IdemRows]
        BY <3>1, <4>1
      <4>3. idem' = [idem EXCEPT ![t.user] = [idem[t.user] EXCEPT ![t.key] = row]]
        BY <1>8, <2>1, <3>1, <3>3 DEF CheckoutCommit
      <4>4. QED
        BY <2>1, <3>1, <4>2, <4>3
    <3>4. QED
      BY <3>2, <3>3
  <2>8. outbox' \in [OrderIds -> [EventTypes -> Nat]]
    <3> DEFINE row == [outbox[o] EXCEPT !["SEND_ORDER_CONFIRMATION"] = @ + 1,
                                   !["SEND_LOW_STOCK_ALERT"] = @ + 1]
    <3>1. outbox \in [OrderIds -> [EventTypes -> Nat]] /\ outbox[o] \in [EventTypes -> Nat]
      BY DEF TypeOK, Inv
    <3>2. row \in [EventTypes -> Nat]
      BY <3>1 DEF EventTypes
    <3>3. outbox' = [outbox EXCEPT ![o] = row]
      BY <1>8, <3>1 DEF CheckoutCommit, EventTypes
    <3>4. QED
      BY <3>1, <3>2, <3>3
  <2>9. served' \subseteq [user : Users, key : Keys, hash : Hashes, order : OrderIds]
    <3>1. t.key # Null => Response(t.user, t.key, t.hash, o) \in
                            [user : Users, key : Keys, hash : Hashes, order : OrderIds]
      BY <2>1, <2>1a DEF Response, TxStates
    <3>2. served \subseteq [user : Users, key : Keys, hash : Hashes, order : OrderIds]
      BY DEF TypeOK, Inv
    <3>3. QED
      BY <1>8, <3>1, <3>2 DEF CheckoutCommit
  <2>10. tx' \in [Reqs -> TxStates]
    BY <1>0, <1>8 DEF CheckoutCommit, TypeOK, Inv
  <2>11. QED
    BY <1>8, <2>2, <2>3, <2>4, <2>5, <2>6, <2>7, <2>8, <2>9, <2>10
       DEF CheckoutCommit, TypeOK, Inv
<1>9. ASSUME NEW r \in Reqs, CheckoutRollback(r)
      PROVE  TypeOK'
  BY <1>0, <1>9 DEF CheckoutRollback, TypeOK, Inv, tables, history
<1>10. ASSUME NEW c \in Cancels, NEW o \in OrderIds,
              NEW caller \in {"customer", "admin", "expiry"}, CancelBegin(c, o, caller)
       PROVE  TypeOK'
  <2>1. cx' \in [Cancels -> CxStates]
    BY <1>10 DEF CancelBegin, TypeOK, Inv, CxStates
  <2>2. QED
    BY <1>10, <2>1 DEF CancelBegin, TypeOK, Inv, tables, history
<1>11. ASSUME NEW c \in Cancels, CancelLock(c)
       PROVE  TypeOK'
  <2>1. cx' \in [Cancels -> CxStates]
    <3>1. cx \in [Cancels -> CxStates] /\ cx[c] \in CxStates
      BY DEF TypeOK, Inv
    <3>2. [cx[c] EXCEPT !.pc = "restock"] \in CxStates
      BY <3>1 DEF CxStates
    <3>3. cx' = [cx EXCEPT ![c] = [cx[c] EXCEPT !.pc = "restock"]]
      BY <1>11, <3>1 DEF CancelLock, CxStates
    <3>4. QED
      BY <3>1, <3>2, <3>3
  <2>2. QED
    BY <1>11, <2>1 DEF CancelLock, TypeOK, Inv, tables, history
<1>12. ASSUME NEW c \in Cancels, NEW s \in Skus, CancelRestock(c, s)
       PROVE  TypeOK'
  <2>1. cx' \in [Cancels -> CxStates]
    <3>1. cx \in [Cancels -> CxStates] /\ cx[c] \in CxStates
      BY DEF TypeOK, Inv
    <3>2. [cx[c] EXCEPT !.held = @ \cup {s}] \in CxStates
      BY <3>1 DEF CxStates
    <3>3. cx' = [cx EXCEPT ![c] = [cx[c] EXCEPT !.held = @ \cup {s}]]
      BY <1>12, <3>1 DEF CancelRestock, CxStates
    <3>4. QED
      BY <3>1, <3>2, <3>3
  <2>2. QED
    BY <1>12, <2>1 DEF CancelRestock, TypeOK, Inv, tables, history
<1>13. ASSUME NEW c \in Cancels, CancelCommit(c)
       PROVE  TypeOK'
  <2> DEFINE o == cx[c].order
  <2>1. o \in OrderIds /\ orders[o] \in OrderRows /\ orders[o].user \in Users
    BY <1>13 DEF CancelCommit, TypeOK, Inv, LocksProtect, CancellationsValid
  <2>2. stock' \in [Skus -> Nat]
    BY <1>13, <2>1 DEF CancelCommit, TypeOK, Inv, OrderRows
  <2>3. promo' \in [uses : Nat, active : BOOLEAN]
    <3>1. promo \in [uses : Nat, active : BOOLEAN]
      BY DEF TypeOK, Inv
    <3>2. promo.uses > 0 => [promo EXCEPT !.uses = @ - 1] \in [uses : Nat, active : BOOLEAN]
      BY <3>1
    <3>3. promo' = promo \/ (promo.uses > 0 /\ promo' = [promo EXCEPT !.uses = @ - 1])
      BY <1>13 DEF CancelCommit
    <3>4. QED
      BY <3>1, <3>2, <3>3
  <2>4. points' \in [Users -> Nat]
    BY <1>13, <2>1 DEF CancelCommit, TypeOK, Inv, OrderRows
  <2>5. orders' \in [OrderIds -> OrderRows]
    BY <1>13, <2>1 DEF CancelCommit, TypeOK, Inv, OrderRows, OrderStatuses
  <2>6. outbox' \in [OrderIds -> [EventTypes -> Nat]]
    <3> DEFINE row == [outbox[o] EXCEPT
                  !["SMS_CANCELLED"] = IF orders[o].user \in PhoneUsers THEN @ + 1 ELSE @,
                  !["REFUND_REQUIRED"] = IF orders[o].payment = "paid" THEN @ + 1 ELSE @]
    <3>1. outbox \in [OrderIds -> [EventTypes -> Nat]] /\ outbox[o] \in [EventTypes -> Nat]
      BY <2>1 DEF TypeOK, Inv
    <3>2. row \in [EventTypes -> Nat]
      BY <3>1 DEF EventTypes
    <3>3. outbox' = [outbox EXCEPT ![o] = row]
      BY <1>13, <3>1 DEF CancelCommit, EventTypes
    <3>4. QED
      BY <3>1, <3>2, <3>3
  <2>7. cx' \in [Cancels -> CxStates]
    BY <1>0, <1>13 DEF CancelCommit, TypeOK, Inv
  <2>8. QED
    BY <1>13, <2>2, <2>3, <2>4, <2>5, <2>6, <2>7
       DEF CancelCommit, TypeOK, Inv, history
<1>14. ASSUME NEW c \in Cancels, CancelRollback(c)
       PROVE  TypeOK'
  BY <1>0, <1>14 DEF CancelRollback, TypeOK, Inv, tables, history
<1>15. ASSUME NEW o \in OrderIds, NEW status \in AdminStatuses,
              UpdateOrderStatus(o, status)
       PROVE  TypeOK'
  <2>1. orders' \in [OrderIds -> OrderRows]
    <3>1. orders \in [OrderIds -> OrderRows] /\ orders[o] \in OrderRows /\ status \in OrderStatuses
      BY DEF TypeOK, Inv
    <3>2. [orders[o] EXCEPT !.status = status] \in OrderRows
      BY <3>1 DEF OrderRows
    <3>3. orders' = [orders EXCEPT ![o] = [orders[o] EXCEPT !.status = status]]
      BY <1>15, <3>1 DEF UpdateOrderStatus, OrderRows
    <3>4. QED
      BY <3>1, <3>2, <3>3
  <2>2. outbox' \in [OrderIds -> [EventTypes -> Nat]]
    <3> DEFINE row == [outbox[o] EXCEPT
                  !["CREATE_CONSIGNMENT"] = IF status = "shipped" THEN @ + 1 ELSE @,
                  !["SMS_DELIVERED"] = IF status = "delivered" /\ orders[o].user \in PhoneUsers
                                       THEN @ + 1 ELSE @]
    <3>1. outbox \in [OrderIds -> [EventTypes -> Nat]] /\ outbox[o] \in [EventTypes -> Nat]
      BY DEF TypeOK, Inv
    <3>2. row \in [EventTypes -> Nat]
      BY <3>1 DEF EventTypes
    <3>3. outbox' = [outbox EXCEPT ![o] = row]
      BY <1>15, <3>1 DEF UpdateOrderStatus, EventTypes
    <3>4. QED
      BY <3>1, <3>2, <3>3
  <2>3. QED
    BY <1>15, <2>1, <2>2 DEF UpdateOrderStatus, TypeOK, Inv, history
<1>16. ASSUME NEW o \in OrderIds, PaymentSettled(o)
       PROVE  TypeOK'
  <2>1. orders' \in [OrderIds -> OrderRows]
    <3> DEFINE row == [orders[o] EXCEPT !.payment = "paid", !.status = StatusAfterPayment(@)]
    <3>1. orders \in [OrderIds -> OrderRows] /\ orders[o] \in OrderRows
      BY DEF TypeOK, Inv
    <3>2. StatusAfterPayment(orders[o].status) \in OrderStatuses
      BY DEF StatusAfterPayment, OrderStatuses
    <3>3. row \in OrderRows
      BY <3>1, <3>2 DEF OrderRows
    <3>4. orders' = [orders EXCEPT ![o] = row]
      BY <1>16, <3>1 DEF PaymentSettled, OrderRows
    <3>5. QED
      BY <3>1, <3>3, <3>4
  <2>2. outbox' \in [OrderIds -> [EventTypes -> Nat]]
    BY <1>16 DEF PaymentSettled, TypeOK, Inv, EventTypes
  <2>3. QED
    BY <1>16, <2>1, <2>2 DEF PaymentSettled, TypeOK, Inv, history
<1>17. CASE ToggleActive
  BY <1>17 DEF ToggleActive, TypeOK, Inv, history
<1>18. CASE UNCHANGED vars
  BY <1>18 DEF TypeOK, Inv, vars, tables, history
<1>19. QED
  BY <1>1, <1>2, <1>3, <1>4, <1>5, <1>6, <1>7, <1>8, <1>9, <1>10, <1>11, <1>12,
     <1>13, <1>14, <1>15, <1>16, <1>17, <1>18 DEF Next

-----------------------------------------------------------------------------
(* What the locks protect *)

\* In the initial state no transaction is open and no order exists.
LEMMA InitLocksProtect == Init => LocksProtect
<1> SUFFICES ASSUME Init
             PROVE  LocksProtect
  OBVIOUS
<1>1. \A r \in Reqs : tx[r].pc = "idle" /\ tx[r].held = {}
  BY DEF Init, IdleTx
<1>2. \A c \in Cancels : cx[c].pc = "idle" /\ cx[c].held = {}
  BY DEF Init, IdleCx
<1>3. \A o \in OrderIds : ~Exists(o)
  BY DEF Init, Exists, EmptyRow
<1>4. QED
  BY <1>1, <1>2, <1>3
     DEF LocksProtect, LocksExclusive, DeductionsCovered, CancellationsValid

\* A row lock is only taken when it is free, and otherwise only released.
LEMMA NextLocksExclusive == Inv /\ [Next]_vars => LocksExclusive'
<1> SUFFICES ASSUME Inv, [Next]_vars
             PROVE  LocksExclusive'
  OBVIOUS
<1>0. LocksExclusive /\ tx \in [Reqs -> TxStates] /\ cx \in [Cancels -> CxStates]
  BY DEF Inv, LocksProtect, TypeOK
<1>1. ASSUME \A r \in Reqs : tx'[r].held \subseteq tx[r].held,
             \A c \in Cancels : cx'[c].held \subseteq cx[c].held
      PROVE  LocksExclusive'
  <2>1. \A r1, r2 \in Reqs : r1 # r2 => tx'[r1].held \cap tx'[r2].held = {}
    BY <1>0, <1>1 DEF LocksExclusive
  <2>2. \A c1, c2 \in Cancels : c1 # c2 => cx'[c1].held \cap cx'[c2].held = {}
    BY <1>0, <1>1 DEF LocksExclusive
  <2>3. \A r \in Reqs, c \in Cancels : tx'[r].held \cap cx'[c].held = {}
    BY <1>0, <1>1 DEF LocksExclusive
  <2>4. QED
    BY <2>1, <2>2, <2>3 DEF LocksExclusive
<1>2. ASSUME NEW r \in Reqs, NEW s \in Skus, CheckoutDeduct(r, s)
      PROVE  LocksExclusive'
  <2>1. /\ \A q \in Reqs : tx'[q].held = IF q = r THEN tx[r].held \cup {s} ELSE tx[q].held
        /\ UNCHANGED cx
        /\ \A q \in Reqs : s \notin tx[q].held
        /\ \A c \in Cancels : s \notin cx[c].held
    BY <1>0, <1>2 DEF CheckoutDeduct, Free, TxStates
  <2>2. QED
    BY <1>0, <2>1 DEF LocksExclusive
<1>3. ASSUME NEW c \in Cancels, NEW s \in Skus, CancelRestock(c, s)
      PROVE  LocksExclusive'
  <2>1. /\ \A d \in Cancels : cx'[d].held = IF d = c THEN cx[c].held \cup {s} ELSE cx[d].held
        /\ UNCHANGED tx
        /\ \A d \in Cancels : s \notin cx[d].held
        /\ \A r \in Reqs : s \notin tx[r].held
    BY <1>0, <1>3 DEF CancelRestock, Free, CxStates
  <2>2. QED
    BY <1>0, <2>1 DEF LocksExclusive
<1>4. CASE UNCHANGED <<tx, cx>>
  BY <1>1, <1>4
<1>5. ASSUME NEW u \in Users, NEW s \in Skus, CartRemove(u, s)
      PROVE  LocksExclusive'
  <2>1. \A r \in Reqs : tx'[r].held = tx[r].held
    BY <1>0, <1>5 DEF CartRemove, TxStates
  <2>2. QED
    BY <1>1, <1>5, <2>1 DEF CartRemove
<1>6. ASSUME NEW r \in Reqs, NEW u \in Users, NEW k \in Keys \cup {Null},
             NEW h \in Hashes, NEW p \in BOOLEAN, CheckoutBegin(r, u, k, h, p)
      PROVE  LocksExclusive'
  <2>1. \A q \in Reqs : tx'[q].held \subseteq tx[q].held
    BY <1>0, <1>6 DEF CheckoutBegin
  <2>2. QED
    BY <1>1, <1>6, <2>1 DEF CheckoutBegin
<1>7. ASSUME NEW r \in Reqs, CheckoutQuote(r)
      PROVE  LocksExclusive'
  <2>1. \A q \in Reqs : tx'[q].held = tx[q].held
    BY <1>0, <1>7 DEF CheckoutQuote, TxStates
  <2>2. QED
    BY <1>1, <1>7, <2>1 DEF CheckoutQuote
<1>8. ASSUME NEW r \in Reqs, CheckoutPromo(r)
      PROVE  LocksExclusive'
  <2>1. \A q \in Reqs : tx'[q].held = tx[q].held
    BY <1>0, <1>8 DEF CheckoutPromo, TxStates
  <2>2. QED
    BY <1>1, <1>8, <2>1 DEF CheckoutPromo
<1>9. ASSUME NEW r \in Reqs, UNCHANGED cx, tx' = [tx EXCEPT ![r] = IdleTx]
      PROVE  LocksExclusive'
  <2>1. \A q \in Reqs : tx'[q].held \subseteq tx[q].held
    BY <1>0, <1>9 DEF IdleTx
  <2>2. QED
    BY <1>1, <1>9, <2>1
<1>10. ASSUME UNCHANGED tx, \A d \in Cancels : cx'[d].held \subseteq cx[d].held
       PROVE  LocksExclusive'
  BY <1>1, <1>10
<1>11. ASSUME NEW c \in Cancels, NEW o \in OrderIds,
              NEW caller \in {"customer", "admin", "expiry"}, CancelBegin(c, o, caller)
       PROVE  LocksExclusive'
  BY <1>0, <1>10, <1>11 DEF CancelBegin
<1>12. ASSUME NEW c \in Cancels, CancelLock(c) \/ CancelCommit(c) \/ CancelRollback(c)
       PROVE  LocksExclusive'
  <2>1. UNCHANGED tx
    BY <1>12 DEF CancelLock, CancelCommit, CancelRollback
  <2>2. \A d \in Cancels : cx'[d].held \subseteq cx[d].held
    BY <1>0, <1>12 DEF CancelLock, CancelCommit, CancelRollback, CxStates, IdleCx
  <2>3. QED
    BY <1>10, <2>1, <2>2
<1>13. QED
  <2>1. ASSUME NEW r \in Reqs, NEW o \in OrderIds, CheckoutCommit(r, o)
        PROVE  LocksExclusive'
    BY <1>9, <2>1 DEF CheckoutCommit
  <2>2. ASSUME NEW r \in Reqs, CheckoutRollback(r)
        PROVE  LocksExclusive'
    BY <1>9, <2>2 DEF CheckoutRollback
  <2>3. QED
    BY <1>2, <1>3, <1>4, <1>5, <1>6, <1>7, <1>8, <1>11, <1>12, <2>1, <2>2, CartWrites
       DEF Next, vars, CheckoutReplay, UpdateOrderStatus, PaymentSettled, ToggleActive

\* A row deducted by one checkout is not taken by another before it commits:
\* whoever lowers the stock of a SKU holds its lock.
LEMMA NextDeductionsCovered == Inv /\ [Next]_vars => DeductionsCovered'
<1> SUFFICES ASSUME Inv, [Next]_vars
             PROVE  DeductionsCovered'
  OBVIOUS
<1>0. /\ DeductionsCovered /\ LocksExclusive
      /\ tx \in [Reqs -> TxStates] /\ stock \in [Skus -> Nat]
  BY DEF Inv, LocksProtect, TypeOK
<1>1. CASE UNCHANGED <<tx, stock>>
  BY <1>0, <1>1 DEF DeductionsCovered, Needed
<1>2. ASSUME NEW u \in Users, NEW s \in Skus, CartRemove(u, s)
      PROVE  DeductionsCovered'
  <2>1. \A r \in Reqs : /\ tx'[r].pc = tx[r].pc /\ tx'[r].user = tx[r].user
                        /\ tx'[r].hash = tx[r].hash /\ tx'[r].held = tx[r].held
                        /\ tx'[r].items = tx[r].items
    BY <1>0, <1>2 DEF CartRemove, TxStates
  <2>2. UNCHANGED stock
    BY <1>2 DEF CartRemove
  <2>3. QED
    BY <1>0, <2>1, <2>2 DEF DeductionsCovered, Needed
<1>3. ASSUME NEW r \in Reqs, NEW u \in Users, NEW k \in Keys \cup {Null},
             NEW h \in Hashes, NEW p \in BOOLEAN, CheckoutBegin(r, u, k, h, p)
      PROVE  DeductionsCovered'
  <2>1. /\ tx'[r].pc = "quote" /\ tx'[r].user = u /\ tx'[r].hash = h /\ tx'[r].held = {}
        /\ \A q \in Reqs \ {r} : tx'[q] = tx[q]
        /\ UNCHANGED stock
    BY <1>0, <1>3 DEF CheckoutBegin, tables
  <2>2. QED
    BY <1>0, <2>1 DEF DeductionsCovered, Needed
<1>4. ASSUME NEW r \in Reqs, CheckoutQuote(r)
      PROVE  DeductionsCovered'
  <2>1. /\ tx[r].pc = "quote" /\ tx'[r].pc = "deduct" /\ tx'[r].user = tx[r].user
        /\ tx'[r].hash = tx[r].hash /\ tx'[r].held = tx[r].held
        /\ \A q \in Reqs \ {r} : tx'[q] = tx[q]
        /\ UNCHANGED stock
    BY <1>0, <1>4 DEF CheckoutQuote, tables, TxStates
  <2>2. QED
    BY <1>0, <2>1 DEF DeductionsCovered, Needed
<1>5. ASSUME NEW r \in Reqs, NEW s \in Skus, CheckoutDeduct(r, s)
      PROVE  DeductionsCovered'
  <2>1. /\ tx[r].pc = "deduct" /\ tx'[r].pc = "deduct" /\ tx'[r].user = tx[r].user
        /\ tx'[r].hash = tx[r].hash /\ tx'[r].items = tx[r].items
        /\ tx'[r].held = tx[r].held \cup {s}
        /\ \A q \in Reqs \ {r} : tx'[q] = tx[q]
        /\ UNCHANGED stock
    BY <1>0, <1>5 DEF CheckoutDeduct, tables, TxStates
  <2>2. tx[r].items[s] > 0 /\ stock[s] >= tx[r].items[s]
    BY <1>5 DEF CheckoutDeduct, NextSkus, Needed, StockSuffices
  <2>3. tx[r].items[s] \in Nat /\ stock[s] \in Nat
    BY <1>0 DEF TxStates
  <2>4. QED
    BY <1>0, <2>1, <2>2, <2>3 DEF DeductionsCovered, Needed
<1>6. ASSUME NEW r \in Reqs, CheckoutPromo(r)
      PROVE  DeductionsCovered'
  <2>1. /\ tx[r].pc = "deduct" /\ tx'[r].pc = "finish" /\ tx'[r].user = tx[r].user
        /\ tx'[r].hash = tx[r].hash /\ tx'[r].items = tx[r].items
        /\ tx'[r].held = tx[r].held /\ Needed(tx[r].items) \subseteq tx[r].held
        /\ \A q \in Reqs \ {r} : tx'[q] = tx[q]
        /\ UNCHANGED stock
    BY <1>0, <1>6 DEF CheckoutPromo, tables, TxStates
  <2>2. QED
    BY <1>0, <2>1 DEF DeductionsCovered, Needed
<1>7. ASSUME NEW r \in Reqs, NEW o \in OrderIds, CheckoutCommit(r, o)
      PROVE  DeductionsCovered'
  <2>1. /\ tx'[r] = IdleTx
        /\ \A q \in Reqs \ {r} : tx'[q] = tx[q]
        /\ tx[r].pc = "finish"
        /\ stock' = [s \in Skus |-> stock[s] - tx[r].items[s]]
    BY <1>0, <1>7 DEF CheckoutCommit
  <2>2. ASSUME NEW q \in Reqs \ {r}, NEW s \in tx[q].held
        PROVE  stock'[s] = stock[s]
    <3>1. s \in Skus /\ s \notin tx[r].held
      BY <1>0 DEF LocksExclusive, TxStates
    <3>2. s \notin Needed(tx[r].items)
      BY <1>0, <2>1, <3>1 DEF DeductionsCovered
    <3>3. tx[r].items[s] \in Nat /\ stock[s] \in Nat
      BY <1>0, <3>1 DEF TxStates
    <3>4. tx[r].items[s] = 0
      BY <3>1, <3>2, <3>3 DEF Needed
    <3>5. QED
      BY <2>1, <3>1, <3>3, <3>4
  <2>3. ASSUME NEW q \in Reqs
        PROVE  \A s \in tx'[q].held : 0 < tx'[q].items[s] /\ tx'[q].items[s] <= stock'[s]
    <3>1. CASE q = r
      BY <2>1, <3>1 DEF IdleTx
    <3>2. CASE q # r
      BY <1>0, <2>1, <2>2, <3>2 DEF DeductionsCovered
    <3>3. QED
      BY <3>1, <3>2
  <2>4. ASSUME NEW q \in Reqs
        PROVE  /\ tx'[q].pc # "idle" => tx'[q].user \in Users /\ tx'[q].hash \in Hashes
               /\ tx'[q].pc \in {"idle", "quote"} => tx'[q].held = {}
               /\ tx'[q].pc = "finish" => Needed(tx'[q].items) \subseteq tx'[q].held
    BY <1>0, <2>1 DEF DeductionsCovered, IdleTx
  <2>5. QED
    BY <2>3, <2>4 DEF DeductionsCovered, Needed
<1>8. ASSUME NEW r \in Reqs, CheckoutRollback(r)
      PROVE  DeductionsCovered'
  <2>1. /\ tx'[r] = IdleTx
        /\ \A q \in Reqs \ {r} : tx'[q] = tx[q]
        /\ UNCHANGED stock
    BY <1>0, <1>8 DEF CheckoutRollback, tables
  <2>2. QED
    BY <1>0, <2>1 DEF DeductionsCovered, IdleTx
<1>9. ASSUME NEW c \in Cancels, CancelCommit(c)
      PROVE  DeductionsCovered'
  <2> DEFINE items == orders[cx[c].order].items
  <2>1. UNCHANGED tx /\ stock' = [s \in Skus |-> stock[s] + items[s]]
    BY <1>9 DEF CancelCommit
  <2>2. items \in [Skus -> Nat]
    <3>1. cx[c].order \in OrderIds
      BY <1>9 DEF CancelCommit, Inv, LocksProtect, CancellationsValid
    <3>2. QED
      BY <3>1 DEF Inv, TypeOK, OrderRows
  <2>3. \A s \in Skus : stock[s] <= stock'[s] /\ stock'[s] \in Nat
    BY <1>0, <2>1, <2>2
  <2>4. \A r \in Reqs : tx[r].held \subseteq Skus /\ tx[r].items \in [Skus -> Nat]
    BY <1>0 DEF TxStates
  <2>5. \A r \in Reqs : \A s \in tx[r].held :
          0 < tx[r].items[s] /\ tx[r].items[s] <= stock'[s]
    <3>1. ASSUME NEW r \in Reqs, NEW s \in tx[r].held
          PROVE  0 < tx[r].items[s] /\ tx[r].items[s] <= stock'[s]
      <4>1. s \in Skus /\ tx[r].items[s] \in Nat /\ stock[s] \in Nat
        BY <1>0, <2>4
      <4>2. 0 < tx[r].items[s] /\ tx[r].items[s] <= stock[s]
        BY <1>0 DEF DeductionsCovered
      <4>3. QED
        BY <2>3, <4>1, <4>2
    <3>2. QED
      BY <3>1
  <2>6. QED
    BY <1>0, <2>1, <2>5 DEF DeductionsCovered, Needed
<1>10. QED
  BY <1>1, <1>2, <1>3, <1>4, <1>5, <1>6, <1>7, <1>8, <1>9, CartWrites
     DEF Next, vars, tables, CheckoutReplay, CancelBegin, CancelLock,
         CancelRestock, CancelRollback, UpdateOrderStatus, PaymentSettled, ToggleActive

\* The order under cancellation is locked, so that neither another
\* cancellation nor a status change moves it, and only orders that do not
\* exist yet are inserted.
LEMMA NextCancellationsValid == Inv /\ [Next]_vars => CancellationsValid'
<1> SUFFICES ASSUME Inv, [Next]_vars
             PROVE  CancellationsValid'
  OBVIOUS
<1>0. /\ CancellationsValid
      /\ cx \in [Cancels -> CxStates] /\ orders \in [OrderIds -> OrderRows]
  BY DEF Inv, LocksProtect, TypeOK
<1>1. CASE UNCHANGED <<cx, orders>>
  BY <1>0, <1>1 DEF CancellationsValid, Exists, Needed
<1>2. ASSUME UNCHANGED cx,
             \A o \in OrderIds : Exists(o) =>
               orders'[o].items = orders[o].items /\ orders'[o].status # "none",
             \A o \in OrderIds : Exists(o) /\ ~OrderFree(o) =>
               orders'[o].status = orders[o].status
      PROVE  CancellationsValid'
  BY <1>0, <1>2 DEF CancellationsValid, Exists, Needed, OrderFree
<1>3. ASSUME NEW r \in Reqs, NEW o \in OrderIds, CheckoutCommit(r, o)
      PROVE  CancellationsValid'
  <2>1. \A p \in OrderIds : Exists(p) => orders'[p] = orders[p]
    BY <1>0, <1>3 DEF CheckoutCommit
  <2>2. UNCHANGED cx
    BY <1>3 DEF CheckoutCommit
  <2>3. QED
    BY <1>2, <2>1, <2>2 DEF Exists
<1>4. ASSUME NEW c \in Cancels, NEW o \in OrderIds,
             NEW caller \in {"customer", "admin", "expiry"}, CancelBegin(c, o, caller)
      PROVE  CancellationsValid'
  <2>1. /\ cx'[c].pc = "begun" /\ cx'[c].order = o /\ cx'[c].held = {}
        /\ \A d \in Cancels \ {c} : cx'[d] = cx[d]
        /\ UNCHANGED orders /\ Exists(o)
    BY <1>0, <1>4 DEF CancelBegin, tables
  <2>2. QED
    BY <1>0, <2>1 DEF CancellationsValid, Exists, Needed
<1>5. ASSUME NEW c \in Cancels, CancelLock(c)
      PROVE  CancellationsValid'
  <2>1. /\ cx[c].pc = "begun" /\ cx'[c].pc = "restock"
        /\ cx'[c].order = cx[c].order /\ cx'[c].held = cx[c].held
        /\ \A d \in Cancels \ {c} : cx'[d] = cx[d]
        /\ UNCHANGED orders
    BY <1>0, <1>5 DEF CancelLock, tables, CxStates
  <2>2. orders[cx[c].order].status \in CancellableStatuses
    BY <1>5 DEF CancelLock, Eligible
  <2>3. \A d \in Cancels : cx[d].pc = "restock" => cx[d].order # cx[c].order
    BY <1>5 DEF CancelLock, OrderFree
  <2>4. QED
    BY <1>0, <2>1, <2>2, <2>3 DEF CancellationsValid, Exists, Needed
<1>6. ASSUME NEW c \in Cancels, NEW s \in Skus, CancelRestock(c, s)
      PROVE  CancellationsValid'
  <2>1. /\ cx[c].pc = "restock" /\ cx'[c].pc = "restock"
        /\ cx'[c].order = cx[c].order /\ cx'[c].held = cx[c].held \cup {s}
        /\ s \in Needed(orders[cx[c].order].items)
        /\ \A d \in Cancels \ {c} : cx'[d] = cx[d]
        /\ UNCHANGED orders
    BY <1>0, <1>6 DEF CancelRestock, tables, CxStates
  <2>2. QED
    BY <1>0, <2>1 DEF CancellationsValid, Exists, Needed
<1>7. ASSUME NEW c \in Cancels, CancelCommit(c)
      PROVE  CancellationsValid'
  <2> DEFINE o == cx[c].order
  <2>1. /\ cx[c].pc = "restock" /\ o \in OrderIds
        /\ cx'[c] = IdleCx
        /\ \A d \in Cancels \ {c} : cx'[d] = cx[d]
    BY <1>0, <1>7 DEF CancelCommit, CancellationsValid
  <2>2. \A p \in OrderIds : /\ orders'[p].items = orders[p].items
                            /\ p # o => orders'[p] = orders[p]
                            /\ Exists(p) => orders'[p].status # "none"
    BY <1>0, <1>7, <2>1 DEF CancelCommit, OrderRows, Exists
  <2>3. \A d \in Cancels \ {c} : cx[d].pc = "restock" => cx[d].order # o
    BY <1>0, <2>1 DEF CancellationsValid
  <2>4. QED
    BY <1>0, <2>1, <2>2, <2>3 DEF CancellationsValid, Exists, Needed, IdleCx
<1>8. ASSUME NEW c \in Cancels, CancelRollback(c)
      PROVE  CancellationsValid'
  <2>1. /\ cx'[c] = IdleCx
        /\ \A d \in Cancels \ {c} : cx'[d] = cx[d]
        /\ UNCHANGED orders
    BY <1>0, <1>8 DEF CancelRollback, tables
  <2>2. QED
    BY <1>0, <2>1 DEF CancellationsValid, Exists, Needed, IdleCx
<1>9. ASSUME NEW o \in OrderIds, NEW status \in AdminStatuses,
             UpdateOrderStatus(o, status)
      PROVE  CancellationsValid'
  <2>1. status # "none"
    BY CheckoutAssumption DEF OrderStatuses
  <2>2. \A p \in OrderIds : /\ orders'[p].items = orders[p].items
                            /\ orders'[p].status = IF p = o THEN status ELSE orders[p].status
    BY <1>0, <1>9 DEF UpdateOrderStatus, OrderRows
  <2>3. OrderFree(o) /\ UNCHANGED cx
    BY <1>9 DEF UpdateOrderStatus
  <2>4. QED
    BY <1>2, <2>1, <2>2, <2>3 DEF Exists
<1>10. ASSUME NEW o \in OrderIds, PaymentSettled(o)
       PROVE  CancellationsValid'
  <2>1. \A p \in OrderIds :
          /\ orders'[p].items = orders[p].items
          /\ orders'[p].status = IF p = o THEN StatusAfterPayment(orders[o].status)
                                 ELSE orders[p].status
    BY <1>0, <1>10 DEF PaymentSettled, OrderRows
  <2>2. OrderFree(o) /\ UNCHANGED cx
    BY <1>10 DEF PaymentSettled
  <2>3. QED
    BY <1>2, <2>1, <2>2 DEF Exists, StatusAfterPayment
<1>11. QED
  BY <1>1, <1>3, <1>4, <1>5, <1>6, <1>7, <1>8, <1>9, <1>10, CartWrites
     DEF Next, vars, tables, CartRemove, CheckoutBegin, CheckoutReplay,
         CheckoutQuote, CheckoutDeduct, CheckoutPromo, CheckoutRollback, ToggleActive

\* An order belongs to the user whose checkout placed it.
LEMMA NextOrdersOwned ==
  Inv /\ [Next]_vars => (\A o \in OrderIds : Exists(o) => orders[o].user \in Users)'
<1> SUFFICES ASSUME Inv, [Next]_vars
             PROVE  \A o \in OrderIds : orders'[o].status # "none" => orders'[o].user \in Users
  BY DEF Exists
<1>0. /\ \A o \in OrderIds : Exists(o) => orders[o].user \in Users
      /\ orders \in [OrderIds -> OrderRows]
  BY DEF Inv, LocksProtect, TypeOK
<1>1. CASE UNCHANGED orders
  BY <1>0, <1>1 DEF Exists
<1>2. ASSUME NEW r \in Reqs, NEW o \in OrderIds, CheckoutCommit(r, o)
      PROVE  \A p \in OrderIds : orders'[p].status # "none" => orders'[p].user \in Users
  <2>1. tx[r].user \in Users
    BY <1>2 DEF CheckoutCommit, Inv, LocksProtect, DeductionsCovered
  <2>2. QED
    BY <1>0, <1>2, <2>1 DEF CheckoutCommit, Exists
<1>3. ASSUME NEW c \in Cancels, CancelCommit(c)
      PROVE  \A p \in OrderIds : orders'[p].status # "none" => orders'[p].user \in Users
  <2>1. cx[c].order \in OrderIds /\ Exists(cx[c].order)
    BY <1>3 DEF CancelCommit, Inv, LocksProtect, CancellationsValid
  <2>2. \A p \in OrderIds : /\ orders'[p].user = orders[p].user
                            /\ Exists(p) \/ orders'[p] = orders[p]
    BY <1>0, <1>3, <2>1 DEF CancelCommit, OrderRows
  <2>3. QED
    BY <1>0, <2>2 DEF Exists
<1>4. ASSUME NEW o \in OrderIds, NEW status \in AdminStatuses,
             UpdateOrderStatus(o, status)
      PROVE  \A p \in OrderIds : orders'[p].status # "none" => orders'[p].user \in Users
  <2>1. \A p \in OrderIds : /\ orders'[p].user = orders[p].user
                            /\ Exists(p) \/ orders'[p] = orders[p]
    BY <1>0, <1>4 DEF UpdateOrderStatus, OrderRows
  <2>2. QED
    BY <1>0, <2>1 DEF Exists
<1>5. ASSUME NEW o \in OrderIds, PaymentSettled(o)
      PROVE  \A p \in OrderIds : orders'[p].status # "none" => orders'[p].user \in Users
  <2>1. \A p \in OrderIds : /\ orders'[p].user = orders[p].user
                            /\ Exists(p) \/ orders'[p] = orders[p]
    BY <1>0, <1>5 DEF PaymentSettled, OrderRows
  <2>2. QED
    BY <1>0, <2>1 DEF Exists
<1>6. QED
  BY <1>1, <1>2, <1>3, <1>4, <1>5, CartWrites
     DEF Next, vars, tables, CartRemove, CheckoutBegin, CheckoutReplay,
         CheckoutQuote, CheckoutDeduct, CheckoutPromo, CheckoutRollback,
         CancelBegin, CancelLock, CancelRestock, CancelRollback, ToggleActive

\* Inv is inductive.
LEMMA Invariance == Spec => []Inv
<1>1. Init => Inv
  BY InitTypeOK, InitLocksProtect DEF Inv
<1>2. Inv /\ [Next]_vars => Inv'
  BY NextTypeOK, NextLocksExclusive, NextDeductionsCovered, NextCancellationsValid,
     NextOrdersOwned DEF Inv, LocksProtect
<1>3. QED
  BY <1>1, <1>2, PTL DEF Spec

\* The tables keep their types in every behaviour: no sequence of checkouts,
\* cancellations, rollbacks and crashes makes a stock or a balance negative.
THEOREM TypeCorrect == Spec => []TypeOK
<1>1. Inv => TypeOK
  BY DEF Inv
<1>2. QED
  BY <1>1, Invariance, PTL

\* What the code checks under a row lock holds until it commits.
THEOREM LocksAreSufficient == Spec => []LocksProtect
<1>1. Inv => LocksProtect
  BY DEF Inv
<1>2. QED
  BY <1>1, Invariance, PTL

-----------------------------------------------------------------------------
(* Conservation of the stock *)

\* A total over live orders moves only with the orders that come and go.
LEMMA LiveTotalUnchanged ==
  ASSUME TypeOK, NEW s \in Skus,
         \A o \in OrderIds : Live(o)' <=> Live(o),
         \A o \in OrderIds : Live(o) => orders'[o].items = orders[o].items
  PROVE  Total(LiveOrders, Ordered(s))' = Total(LiveOrders, Ordered(s))
<1>1. LiveOrders' = LiveOrders
  BY DEF LiveOrders
<1>2. \A o \in LiveOrders : Ordered(s)'[o] = Ordered(s)[o]
  BY DEF LiveOrders, Ordered
<1>3. Total(LiveOrders, Ordered(s)') = Total(LiveOrders, Ordered(s))
  BY <1>2, TotalAgrees
<1>4. QED
  BY <1>1, <1>3

\* A placed order takes its items out of the stock, a cancelled one puts the
\* same items back, and nothing else changes either.
LEMMA NextStockConserved ==
  TypeOK /\ LocksProtect /\ StockConserved /\ [Next]_vars => StockConserved'
<1> SUFFICES ASSUME TypeOK, LocksProtect, StockConserved, [Next]_vars, NEW s \in Skus
             PROVE  stock'[s] + Total(LiveOrders, Ordered(s))' = InitStock[s]
  BY DEF StockConserved
<1>0. /\ stock[s] + Total(LiveOrders, Ordered(s)) = InitStock[s]
      /\ stock[s] \in Nat
      /\ orders \in [OrderIds -> OrderRows]
      /\ IsFiniteSet(LiveOrders)
  BY CheckoutAssumption, FS_Subset DEF StockConserved, TypeOK, LiveOrders
<1>1. Total(LiveOrders, Ordered(s)) \in Nat
  BY <1>0, TotalType DEF Ordered, OrderRows, LiveOrders
<1>2. CASE UNCHANGED <<stock, orders>>
  BY <1>0, <1>2, LiveTotalUnchanged DEF Live
<1>3. ASSUME NEW r \in Reqs, NEW o \in OrderIds, CheckoutCommit(r, o)
      PROVE  stock'[s] + Total(LiveOrders, Ordered(s))' = InitStock[s]
  <2> DEFINE q == tx[r].items[s]
             I == LiveOrders
             n == Ordered(s)
  <2>1. q \in Nat /\ stock'[s] = stock[s] - q
    BY <1>3 DEF CheckoutCommit, TypeOK, TxStates
  <2>2. I' = I \cup {o} /\ o \notin I
    BY <1>0, <1>3 DEF CheckoutCommit, LiveOrders, Live, Exists, OrderRows
  <2>3. /\ n'[o] = q
        /\ \A p \in I : n'[p] = n[p]
        /\ \A p \in I \cup {o} : n'[p] \in Nat
    BY <1>0, <1>3, <2>1, <2>2 DEF CheckoutCommit, Ordered, LiveOrders, OrderRows
  <2>4. Total(I \cup {o}, n') = Total(I, n') + q
    <3> HIDE DEF I, n, q
    <3> QED
      BY <1>0, <2>2, <2>3, TotalInsert DEF I
  <2>5. Total(I, n') = Total(I, n)
    <3> HIDE DEF I, n
    <3> QED
      BY <2>3, TotalAgrees
  <2>6. Total(I, n)' = Total(I, n) + q
    BY <2>2, <2>4, <2>5
  <2>7. QED
    BY <1>0, <1>1, <2>1, <2>6
<1>4. ASSUME NEW c \in Cancels, CancelCommit(c)
      PROVE  stock'[s] + Total(LiveOrders, Ordered(s))' = InitStock[s]
  <2> DEFINE o == cx[c].order
             q == orders[o].items[s]
             I == LiveOrders
             n == Ordered(s)
  <2>1. /\ o \in OrderIds /\ Exists(o)
        /\ orders[o].status \in CancellableStatuses
    BY <1>4 DEF CancelCommit, LocksProtect, CancellationsValid
  <2>2. q \in Nat /\ stock'[s] = stock[s] + q
    BY <1>0, <1>4, <2>1 DEF CancelCommit, OrderRows
  <2>3. I = I' \cup {o} /\ o \notin I'
    BY <1>0, <1>4, <2>1 DEF CancelCommit, LiveOrders, Live, Exists, OrderRows,
                            CancellableStatuses
  <2>4. /\ n[o] = q
        /\ \A p \in I' : n'[p] = n[p]
        /\ \A p \in I' \cup {o} : n[p] \in Nat
    BY <1>0, <1>4, <2>1, <2>2, <2>3 DEF CancelCommit, Ordered, LiveOrders, OrderRows
  <2>5. IsFiniteSet(I')
    BY <1>0, <2>3, FS_Subset
  <2>6. Total(I' \cup {o}, n) = Total(I', n) + q
    <3> HIDE DEF I, n, q
    <3> QED
      BY <2>3, <2>4, <2>5, TotalInsert
  <2>7. Total(I', n') = Total(I', n)
    <3> HIDE DEF I, n
    <3> QED
      BY <2>4, TotalAgrees
  <2>8. Total(I', n) \in Nat
    <3> HIDE DEF I, n
    <3> QED
      BY <2>4, <2>5, TotalType
  <2>9. Total(I, n) = Total(I, n)' + q /\ Total(I, n)' \in Nat
    BY <2>3, <2>6, <2>7, <2>8
  <2>10. QED
    BY <1>0, <1>1, <2>2, <2>9
<1>5. ASSUME NEW o \in OrderIds, NEW status \in AdminStatuses,
             UpdateOrderStatus(o, status)
      PROVE  stock'[s] + Total(LiveOrders, Ordered(s))' = InitStock[s]
  <2>1. \A p \in OrderIds : /\ orders'[p].items = orders[p].items
                            /\ orders'[p].status = IF p = o THEN status ELSE orders[p].status
    BY <1>0, <1>5 DEF UpdateOrderStatus, OrderRows
  <2>2. status \notin {"none", "cancelled"}
    BY <1>5, CheckoutAssumption DEF UpdateOrderStatus, OrderStatuses
  <2>3. Live(o)
    BY <1>5, <2>2 DEF UpdateOrderStatus, Live, Exists, ORDER_STATE_TRANSITIONS, OrderStatuses
  <2>4. \A p \in OrderIds : Live(p)' <=> Live(p)
    BY <2>1, <2>2, <2>3 DEF Live
  <2>5. UNCHANGED stock
    BY <1>5 DEF UpdateOrderStatus
  <2>6. QED
    BY <1>0, <2>1, <2>4, <2>5, LiveTotalUnchanged
<1>6. ASSUME NEW o \in OrderIds, PaymentSettled(o)
      PROVE  stock'[s] + Total(LiveOrders, Ordered(s))' = InitStock[s]
  <2>1. \A p \in OrderIds :
          /\ orders'[p].items = orders[p].items
          /\ orders'[p].status = IF p = o THEN StatusAfterPayment(orders[o].status)
                                 ELSE orders[p].status
    BY <1>0, <1>6 DEF PaymentSettled, OrderRows
  <2>2. \A p \in OrderIds : Live(p)' <=> Live(p)
    <3>1. orders[o].status # "none"
      BY <1>6 DEF PaymentSettled, Exists
    <3>2. orders'[o].status \in {"none", "cancelled"} <=> orders[o].status \in {"none", "cancelled"}
      BY <2>1, <3>1 DEF StatusAfterPayment
    <3>3. \A p \in OrderIds \ {o} : orders'[p].status = orders[p].status
      BY <2>1
    <3>4. QED
      BY <3>2, <3>3 DEF Live
  <2>3. UNCHANGED stock
    BY <1>6 DEF PaymentSettled
  <2>4. QED
    BY <1>0, <2>1, <2>2, <2>3, LiveTotalUnchanged
<1>7. QED
  BY <1>2, <1>3, <1>4, <1>5, <1>6, CartWrites
     DEF Next, vars, tables, CartRemove, CheckoutBegin, CheckoutReplay,
         CheckoutQuote, CheckoutDeduct, CheckoutPromo, CheckoutRollback,
         CancelBegin, CancelLock, CancelRestock, CancelRollback, ToggleActive

\* No oversell and no leak of stock, for any number of customers, requests,
\* cancellations, orders and SKUs.
THEOREM StockIsConserved == Spec => []StockConserved
<1>1. Init => StockConserved
  <2> SUFFICES ASSUME Init, NEW s \in Skus
               PROVE  stock[s] + Total(LiveOrders, Ordered(s)) = InitStock[s]
    BY DEF StockConserved
  <2>1. LiveOrders = {}
    BY DEF Init, LiveOrders, Live, EmptyRow
  <2>2. Total(LiveOrders, Ordered(s)) = 0
    BY <2>1, TotalType, FS_EmptySet
  <2>3. QED
    BY <2>2, CheckoutAssumption DEF Init
<1>2. TypeOK /\ LocksProtect /\ StockConserved /\ [Next]_vars => StockConserved'
  BY NextStockConserved
<1>3. QED
  BY <1>1, <1>2, TypeCorrect, LocksAreSufficient, PTL DEF Spec

-----------------------------------------------------------------------------
(* The steps that write the orders *)

\* Only four kinds of step write orders, points, outbox events and keys.
LEMMA OrderWriters ==
  [Next]_vars =>
    \/ UNCHANGED <<points, orders, outbox, idem>>
    \/ \E r \in Reqs, o \in OrderIds : CheckoutCommit(r, o)
    \/ \E c \in Cancels : CancelCommit(c)
    \/ \E o \in OrderIds :
         PaymentSettled(o) \/ \E status \in AdminStatuses : UpdateOrderStatus(o, status)
BY CartWrites
   DEF Next, vars, tables, CartRemove, CheckoutBegin, CheckoutReplay,
       CheckoutQuote, CheckoutDeduct, CheckoutPromo, CheckoutRollback,
       CancelBegin, CancelLock, CancelRestock, CancelRollback, ToggleActive

\* Rows keep their shape (a conjunct of the types, for the primed state too).
LEMMA RowsTyped ==
  ASSUME Inv, [Next]_vars
  PROVE  /\ orders \in [OrderIds -> OrderRows] /\ orders' \in [OrderIds -> OrderRows]
         /\ points \in [Users -> Nat] /\ tx \in [Reqs -> TxStates]
         /\ tx' \in [Reqs -> TxStates]
         /\ outbox \in [OrderIds -> [EventTypes -> Nat]]
BY NextTypeOK DEF Inv, TypeOK

\* What a checkout does to the orders: one more live row, its own.
LEMMA Placing ==
  ASSUME Inv, NEW r \in Reqs, NEW o \in OrderIds, CheckoutCommit(r, o)
  PROVE  /\ orders'[o].status = "pending" /\ orders'[o].payment = "unpaid"
         /\ orders'[o].user = tx[r].user /\ orders'[o].items = tx[r].items
         /\ orders'[o].promo = tx[r].promo /\ orders'[o].spent = tx[r].spend
         /\ orders'[o].key = tx[r].key
         /\ \A p \in OrderIds \ {o} : orders'[p] = orders[p]
         /\ orders[o].status = "none"
         /\ LiveOrders' = LiveOrders \cup {o} /\ o \notin LiveOrders
         /\ tx[r].user \in Users /\ tx[r].hash \in Hashes /\ tx[r] \in TxStates
<1>1. /\ orders \in [OrderIds -> OrderRows] /\ tx[r] \in TxStates
      /\ orders[o].status = "none" /\ tx[r].pc = "finish"
  BY DEF Inv, TypeOK, CheckoutCommit, Exists
<1>2. /\ orders'[o].status = "pending" /\ orders'[o].payment = "unpaid"
      /\ orders'[o].user = tx[r].user /\ orders'[o].items = tx[r].items
      /\ orders'[o].promo = tx[r].promo /\ orders'[o].spent = tx[r].spend
      /\ orders'[o].key = tx[r].key
      /\ \A p \in OrderIds \ {o} : orders'[p] = orders[p]
  BY <1>1 DEF CheckoutCommit
<1>3. LiveOrders' = LiveOrders \cup {o} /\ o \notin LiveOrders
  BY <1>1, <1>2 DEF LiveOrders, Live
<1>4. tx[r].user \in Users /\ tx[r].hash \in Hashes
  BY <1>1 DEF Inv, LocksProtect, DeductionsCovered
<1>5. QED
  BY <1>1, <1>2, <1>3, <1>4

\* What a cancellation does to the orders: one live row, its own, is not
\* live any more.
LEMMA Cancelling ==
  ASSUME Inv, NEW c \in Cancels, CancelCommit(c)
  PROVE  LET o == cx[c].order IN
         /\ o \in OrderIds /\ orders[o].status \in CancellableStatuses
         /\ orders[o].user \in Users
         /\ orders' = [orders EXCEPT ![o] = [orders[o] EXCEPT !.status = "cancelled"]]
         /\ LiveOrders = LiveOrders' \cup {o} /\ o \notin LiveOrders'
<1> DEFINE o == cx[c].order
<1>1. /\ o \in OrderIds /\ orders[o].status \in CancellableStatuses
      /\ orders[o].user \in Users
  BY DEF Inv, LocksProtect, CancellationsValid, CancelCommit
<1>2. orders \in [OrderIds -> OrderRows]
  BY DEF Inv, TypeOK
<1>3. orders' = [orders EXCEPT ![o] = [orders[o] EXCEPT !.status = "cancelled"]]
  BY <1>1, <1>2 DEF CancelCommit, OrderRows
<1>4. /\ orders'[o].status = "cancelled"
      /\ \A p \in OrderIds \ {o} : orders'[p] = orders[p]
  BY <1>1, <1>2, <1>3 DEF OrderRows
<1>5. LiveOrders = LiveOrders' \cup {o} /\ o \notin LiveOrders'
  BY <1>1, <1>4 DEF LiveOrders, Live, CancellableStatuses
<1>6. QED
  BY <1>1, <1>3, <1>5

\* A payment or a change of status keeps what the order took, and neither
\* revives nor ends an order.
LEMMA Moving ==
  ASSUME Inv, NEW o \in OrderIds,
         PaymentSettled(o) \/ \E status \in AdminStatuses : UpdateOrderStatus(o, status)
  PROVE  /\ \A p \in OrderIds : /\ orders'[p].user = orders[p].user
                                /\ orders'[p].items = orders[p].items
                                /\ orders'[p].promo = orders[p].promo
                                /\ orders'[p].spent = orders[p].spent
                                /\ orders'[p].key = orders[p].key
                                /\ Exists(p)' <=> Exists(p)
                                /\ orders'[p] = orders[p] \/ Exists(p)
         /\ LiveOrders' = LiveOrders
         /\ UNCHANGED <<stock, cart, promo, points, idem, tx, cx, history>>
<1>1. /\ orders \in [OrderIds -> OrderRows] /\ Exists(o)
      /\ UNCHANGED <<stock, cart, promo, points, idem, tx, cx, history>>
  BY DEF Inv, TypeOK, PaymentSettled, UpdateOrderStatus
<1>2. \A p \in OrderIds \ {o} : orders'[p] = orders[p]
  BY <1>1 DEF PaymentSettled, UpdateOrderStatus
<1>3. /\ orders'[o].user = orders[o].user /\ orders'[o].items = orders[o].items
      /\ orders'[o].promo = orders[o].promo /\ orders'[o].spent = orders[o].spent
      /\ orders'[o].key = orders[o].key
  <2>1. CASE PaymentSettled(o)
    BY <1>1, <2>1 DEF PaymentSettled, OrderRows
  <2>2. ASSUME NEW status \in AdminStatuses, UpdateOrderStatus(o, status)
        PROVE  /\ orders'[o].user = orders[o].user /\ orders'[o].items = orders[o].items
               /\ orders'[o].promo = orders[o].promo /\ orders'[o].spent = orders[o].spent
               /\ orders'[o].key = orders[o].key
    BY <1>1, <2>2 DEF UpdateOrderStatus, OrderRows
  <2>3. QED
    BY <2>1, <2>2
<1>4. /\ orders'[o].status # "none"
      /\ orders'[o].status = "cancelled" <=> orders[o].status = "cancelled"
  <2>1. CASE PaymentSettled(o)
    <3>1. orders'[o].status = StatusAfterPayment(orders[o].status)
      BY <1>1, <2>1 DEF PaymentSettled, OrderRows
    <3>2. QED
      BY <3>1 DEF StatusAfterPayment
  <2>2. ASSUME NEW status \in AdminStatuses, UpdateOrderStatus(o, status)
        PROVE  /\ orders'[o].status # "none"
               /\ orders'[o].status = "cancelled" <=> orders[o].status = "cancelled"
    <3>1. orders'[o].status = status
      BY <1>1, <2>2 DEF UpdateOrderStatus, OrderRows
    <3>2. status \in OrderStatuses /\ status # "cancelled"
      BY <2>2, CheckoutAssumption DEF UpdateOrderStatus
    <3>3. orders[o].status # "cancelled"
      BY <2>2 DEF UpdateOrderStatus, ORDER_STATE_TRANSITIONS, OrderStatuses
    <3>4. QED
      BY <3>1, <3>2, <3>3 DEF OrderStatuses
  <2>3. QED
    BY <2>1, <2>2
<1>5. LiveOrders' = LiveOrders
  BY <1>1, <1>2, <1>4 DEF LiveOrders, Live, Exists
<1>6. QED
  BY <1>1, <1>2, <1>3, <1>4, <1>5 DEF Exists

-----------------------------------------------------------------------------
(* The money of cancelled orders *)

\* The events that bring money back were written for the orders that are
\* cancelled and paid, one for each, and for no other.
MoneyFlagged ==
  \A o \in OrderIds :
    outbox[o]["REFUND_REQUIRED"] + outbox[o]["RECONCILIATION_REQUIRED"] =
      IF orders[o].status = "cancelled" /\ orders[o].payment = "paid" THEN 1 ELSE 0

\* A cancellation looks at the payment under the lock of the row, a payment
\* at the cancellation: whichever comes second writes the event.
LEMMA NextMoneyFlagged == Inv /\ MoneyFlagged /\ [Next]_vars => MoneyFlagged'
<1> SUFFICES ASSUME Inv, MoneyFlagged, [Next]_vars
             PROVE  MoneyFlagged'
  OBVIOUS
<1> DEFINE Flags(p) == outbox[p]["REFUND_REQUIRED"] + outbox[p]["RECONCILIATION_REQUIRED"]
           Due(p) == IF orders[p].status = "cancelled" /\ orders[p].payment = "paid"
                     THEN 1 ELSE 0
<1>0. /\ \A p \in OrderIds : Flags(p) = Due(p)
      /\ orders \in [OrderIds -> OrderRows]
      /\ outbox \in [OrderIds -> [EventTypes -> Nat]]
  BY RowsTyped DEF MoneyFlagged
<1>1. SUFFICES \A p \in OrderIds : Flags(p)' = Due(p)'
  BY DEF MoneyFlagged
<1>2. CASE UNCHANGED <<points, orders, outbox, idem>>
  BY <1>0, <1>2
<1>3. ASSUME NEW o \in OrderIds,
             \A p \in OrderIds \ {o} : orders'[p] = orders[p] /\ outbox'[p] = outbox[p],
             Flags(o)' = Due(o)'
      PROVE  \A p \in OrderIds : Flags(p)' = Due(p)'
  BY <1>0, <1>3
<1>4. ASSUME NEW r \in Reqs, NEW o \in OrderIds, CheckoutCommit(r, o)
      PROVE  \A p \in OrderIds : Flags(p)' = Due(p)'
  <2>1. Flags(o)' = Flags(o)
    BY <1>0, <1>4 DEF CheckoutCommit, EventTypes
  <2>2. Flags(o)' = Due(o)'
    <3>1. orders[o].status = "none" /\ orders'[o].status = "pending"
      BY <1>0, <1>4 DEF CheckoutCommit, Exists
    <3>2. Due(o) = 0 /\ Due(o)' = 0
      BY <3>1
    <3>3. QED
      BY <1>0, <2>1, <3>2
  <2>3. \A p \in OrderIds \ {o} : orders'[p] = orders[p] /\ outbox'[p] = outbox[p]
    BY <1>0, <1>4, Placing DEF CheckoutCommit
  <2>4. QED
    BY <1>3, <2>2, <2>3
<1>5. ASSUME NEW c \in Cancels, CancelCommit(c)
      PROVE  \A p \in OrderIds : Flags(p)' = Due(p)'
  <2>1. PICK o \in OrderIds :
          /\ o = cx[c].order /\ orders[o].status \in CancellableStatuses
          /\ orders' = [orders EXCEPT ![o] = [orders[o] EXCEPT !.status = "cancelled"]]
    BY <1>5, Cancelling
  <2>2. /\ orders'[o].status = "cancelled" /\ orders'[o].payment = orders[o].payment
        /\ \A p \in OrderIds \ {o} : orders'[p] = orders[p]
    BY <1>0, <2>1 DEF OrderRows
  <2>3. Flags(o) = 0
    BY <1>0, <2>1 DEF CancellableStatuses
  <2>4. /\ outbox'[o]["REFUND_REQUIRED"] = outbox[o]["REFUND_REQUIRED"] +
                                             (IF orders[o].payment = "paid" THEN 1 ELSE 0)
        /\ outbox'[o]["RECONCILIATION_REQUIRED"] = outbox[o]["RECONCILIATION_REQUIRED"]
        /\ \A p \in OrderIds \ {o} : outbox'[p] = outbox[p]
    BY <1>0, <1>5, <2>1 DEF CancelCommit, EventTypes
  <2>5. /\ outbox[o]["REFUND_REQUIRED"] \in Nat
        /\ outbox[o]["RECONCILIATION_REQUIRED"] \in Nat
    BY <1>0, <2>1 DEF EventTypes
  <2>6. Flags(o)' = Due(o)'
    BY <2>2, <2>3, <2>4, <2>5
  <2>7. QED
    BY <1>3, <2>1, <2>2, <2>4, <2>6
<1>6. ASSUME NEW o \in OrderIds, NEW status \in AdminStatuses,
             UpdateOrderStatus(o, status)
      PROVE  \A p \in OrderIds : Flags(p)' = Due(p)'
  <2>1. /\ orders'[o].payment = orders[o].payment /\ orders'[o].status = status
        /\ status # "cancelled" /\ orders[o].status # "cancelled"
        /\ \A p \in OrderIds \ {o} : orders'[p] = orders[p] /\ outbox'[p] = outbox[p]
    BY <1>0, <1>6 DEF UpdateOrderStatus, OrderRows, ORDER_STATE_TRANSITIONS, OrderStatuses
  <2>2. Flags(o)' = Flags(o)
    BY <1>0, <1>6 DEF UpdateOrderStatus, EventTypes
  <2>3. Flags(o)' = Due(o)'
    BY <1>0, <2>1, <2>2
  <2>4. QED
    BY <1>3, <2>1, <2>3
<1>7. ASSUME NEW o \in OrderIds, PaymentSettled(o)
      PROVE  \A p \in OrderIds : Flags(p)' = Due(p)'
  <2>1. /\ orders'[o].payment = "paid" /\ orders[o].payment # "paid"
        /\ orders'[o].status = StatusAfterPayment(orders[o].status)
        /\ \A p \in OrderIds \ {o} : orders'[p] = orders[p] /\ outbox'[p] = outbox[p]
    BY <1>0, <1>7 DEF PaymentSettled, OrderRows
  <2>2. /\ outbox'[o]["REFUND_REQUIRED"] = outbox[o]["REFUND_REQUIRED"]
        /\ outbox'[o]["RECONCILIATION_REQUIRED"] = outbox[o]["RECONCILIATION_REQUIRED"] +
             (IF orders[o].status = "cancelled" THEN 1 ELSE 0)
    BY <1>0, <1>7 DEF PaymentSettled, EventTypes
  <2>3. /\ outbox[o]["REFUND_REQUIRED"] \in Nat
        /\ outbox[o]["RECONCILIATION_REQUIRED"] \in Nat
    BY <1>0 DEF EventTypes
  <2>4. Flags(o)' = Due(o)'
    BY <1>0, <2>1, <2>2, <2>3 DEF StatusAfterPayment
  <2>5. QED
    BY <1>3, <2>1, <2>4
<1>8. QED
  BY <1>2, <1>4, <1>5, <1>6, <1>7, OrderWriters

\* The money of an order that is cancelled and paid is flagged exactly once,
\* in whichever order the cancellation and the payment reach the row.
THEOREM CancelledMoneyComesBack == Spec => []CancelledMoneyIsOwed
<1>1. Init => MoneyFlagged
  BY DEF Init, MoneyFlagged, EmptyRow, EventTypes
<1>2. MoneyFlagged => CancelledMoneyIsOwed
  BY DEF MoneyFlagged, CancelledMoneyIsOwed
<1>3. Inv /\ MoneyFlagged /\ [Next]_vars => MoneyFlagged'
  BY NextMoneyFlagged
<1>4. QED
  BY <1>1, <1>2, <1>3, Invariance, PTL DEF Spec

-----------------------------------------------------------------------------
(* Loyalty points *)

\* The live orders of one user, the rows PointsConserved sums over.
SpendingOrders(u) == LiveOrders \cap OrdersOf(u)

\* A checkout takes from the balance what its order spends, its cancellation
\* gives the same back, and no other user's balance moves.
LEMMA NextPointsConserved == Inv /\ PointsConserved /\ [Next]_vars => PointsConserved'
<1> SUFFICES ASSUME Inv, PointsConserved, [Next]_vars, NEW u \in Users
             PROVE  points'[u] + Total(SpendingOrders(u), Spent)' = InitPoints[u]
  BY DEF PointsConserved, SpendingOrders
<1>0. /\ points[u] + Total(SpendingOrders(u), Spent) = InitPoints[u]
      /\ points[u] \in Nat /\ points \in [Users -> Nat]
      /\ orders \in [OrderIds -> OrderRows] /\ orders' \in [OrderIds -> OrderRows]
      /\ IsFiniteSet(SpendingOrders(u)) /\ IsFiniteSet(SpendingOrders(u)')
      /\ SpendingOrders(u) \subseteq OrderIds /\ SpendingOrders(u)' \subseteq OrderIds
  BY RowsTyped, CheckoutAssumption, FS_Subset
     DEF PointsConserved, SpendingOrders, LiveOrders, OrdersOf
<1>1. /\ \A p \in OrderIds : Spent[p] = orders[p].spent /\ Spent[p] \in Nat
      /\ \A p \in OrderIds : Spent'[p] = orders'[p].spent /\ Spent'[p] \in Nat
  BY <1>0 DEF Spent, OrderRows
<1>2. /\ Total(SpendingOrders(u), Spent) \in Nat
      /\ Total(SpendingOrders(u)', Spent') \in Nat
  BY <1>0, <1>1, TotalType
<1>3. ASSUME UNCHANGED SpendingOrders(u), points'[u] = points[u],
             \A p \in SpendingOrders(u) : orders'[p].spent = orders[p].spent
      PROVE  points'[u] + Total(SpendingOrders(u), Spent)' = InitPoints[u]
  <2>1. \A p \in SpendingOrders(u) : Spent'[p] = Spent[p]
    BY <1>0, <1>1, <1>3
  <2>2. Total(SpendingOrders(u), Spent') = Total(SpendingOrders(u), Spent)
    <3> HIDE DEF SpendingOrders, Spent
    <3> QED
      BY <2>1, TotalAgrees
  <2>3. QED
    BY <1>0, <1>3, <2>2
<1>4. CASE UNCHANGED <<points, orders, outbox, idem>>
  BY <1>3, <1>4 DEF SpendingOrders, LiveOrders, Live, OrdersOf
<1>5. ASSUME NEW o \in OrderIds,
             PaymentSettled(o) \/ \E status \in AdminStatuses : UpdateOrderStatus(o, status)
      PROVE  points'[u] + Total(SpendingOrders(u), Spent)' = InitPoints[u]
  <2>1. /\ \A p \in OrderIds : /\ orders'[p].user = orders[p].user
                               /\ orders'[p].spent = orders[p].spent
        /\ LiveOrders' = LiveOrders /\ UNCHANGED points
    BY <1>5, Moving
  <2>2. UNCHANGED SpendingOrders(u)
    BY <2>1 DEF SpendingOrders, OrdersOf
  <2>3. QED
    BY <1>0, <1>3, <2>1, <2>2
<1>6. ASSUME NEW r \in Reqs, NEW o \in OrderIds, CheckoutCommit(r, o)
      PROVE  points'[u] + Total(SpendingOrders(u), Spent)' = InitPoints[u]
  <2>1. /\ orders'[o].user = tx[r].user /\ orders'[o].spent = tx[r].spend
        /\ \A p \in OrderIds \ {o} : orders'[p] = orders[p]
        /\ LiveOrders' = LiveOrders \cup {o} /\ o \notin LiveOrders
        /\ tx[r].user \in Users
    BY <1>6, Placing
  <2>2. /\ tx[r].spend \in Nat
        /\ points' = [points EXCEPT ![tx[r].user] = @ - tx[r].spend]
    BY <1>6, RowsTyped DEF CheckoutCommit, TxStates
  <2>3. CASE tx[r].user # u
    <3>1. UNCHANGED SpendingOrders(u)
      BY <1>0, <2>1, <2>3 DEF SpendingOrders, OrdersOf, LiveOrders
    <3>2. points'[u] = points[u]
      BY <1>0, <2>1, <2>2, <2>3
    <3>3. o \notin SpendingOrders(u)
      BY <2>1 DEF SpendingOrders
    <3>4. QED
      BY <1>0, <1>3, <2>1, <3>1, <3>2, <3>3
  <2>4. CASE tx[r].user = u
    <3>1. SpendingOrders(u)' = SpendingOrders(u) \cup {o} /\ o \notin SpendingOrders(u)
      BY <1>0, <2>1, <2>4 DEF SpendingOrders, OrdersOf, LiveOrders
    <3>2. /\ \A p \in SpendingOrders(u) : Spent'[p] = Spent[p]
          /\ \A p \in SpendingOrders(u) \cup {o} : Spent'[p] \in Nat
          /\ Spent'[o] = tx[r].spend
      BY <1>0, <1>1, <2>1, <3>1
    <3>3. Total(SpendingOrders(u) \cup {o}, Spent') = Total(SpendingOrders(u), Spent') + Spent'[o]
      BY <1>0, <3>1, <3>2, TotalInsert
    <3>4. Total(SpendingOrders(u), Spent') = Total(SpendingOrders(u), Spent)
      BY <3>2, TotalAgrees
    <3>5. Total(SpendingOrders(u), Spent)' = Total(SpendingOrders(u), Spent) + tx[r].spend
      BY <3>1, <3>2, <3>3, <3>4
    <3>6. points'[u] = points[u] - tx[r].spend
      BY <1>0, <2>1, <2>2, <2>4
    <3>7. QED
      BY <1>0, <1>2, <2>2, <3>5, <3>6
  <2>5. QED
    BY <2>3, <2>4
<1>7. ASSUME NEW c \in Cancels, CancelCommit(c)
      PROVE  points'[u] + Total(SpendingOrders(u), Spent)' = InitPoints[u]
  <2>1. PICK o \in OrderIds :
          /\ o = cx[c].order /\ orders[o].user \in Users
          /\ orders' = [orders EXCEPT ![o] = [orders[o] EXCEPT !.status = "cancelled"]]
          /\ LiveOrders = LiveOrders' \cup {o} /\ o \notin LiveOrders'
    BY <1>7, Cancelling
  <2>2. \A p \in OrderIds : /\ orders'[p].user = orders[p].user
                            /\ orders'[p].spent = orders[p].spent
    BY <1>0, <2>1 DEF OrderRows
  <2>3. /\ orders[o].spent \in Nat
        /\ points' = [points EXCEPT ![orders[o].user] = @ + orders[o].spent]
    BY <1>0, <1>7, <2>1 DEF CancelCommit, OrderRows
  <2>4. CASE orders[o].user # u
    <3>1. UNCHANGED SpendingOrders(u)
      BY <2>1, <2>2, <2>4 DEF SpendingOrders, OrdersOf
    <3>2. points'[u] = points[u]
      BY <1>0, <2>1, <2>3, <2>4
    <3>3. QED
      BY <1>0, <1>3, <2>2, <3>1, <3>2
  <2>5. CASE orders[o].user = u
    <3>1. SpendingOrders(u) = SpendingOrders(u)' \cup {o} /\ o \notin SpendingOrders(u)'
      BY <2>1, <2>2, <2>5 DEF SpendingOrders, OrdersOf
    <3>2. /\ \A p \in SpendingOrders(u) : Spent'[p] = Spent[p]
          /\ \A p \in SpendingOrders(u)' \cup {o} : Spent[p] \in Nat
          /\ Spent[o] = orders[o].spent
      BY <1>0, <1>1, <2>2, <3>1
    <3>3. Total(SpendingOrders(u)' \cup {o}, Spent) = Total(SpendingOrders(u)', Spent) + Spent[o]
      BY <1>0, <3>1, <3>2, TotalInsert
    <3>4. Total(SpendingOrders(u)', Spent') = Total(SpendingOrders(u)', Spent)
      <4>1. \A p \in SpendingOrders(u)' : Spent'[p] = Spent[p]
        BY <3>1, <3>2
      <4>2. QED
        BY <4>1, TotalAgrees
    <3>5. Total(SpendingOrders(u), Spent) = Total(SpendingOrders(u)', Spent') + orders[o].spent
      BY <3>1, <3>2, <3>3, <3>4
    <3>6. points'[u] = points[u] + orders[o].spent
      BY <1>0, <2>1, <2>3, <2>5
    <3>7. QED
      BY <1>0, <1>2, <2>3, <3>5, <3>6
  <2>6. QED
    BY <2>4, <2>5
<1>8. QED
  BY <1>4, <1>5, <1>6, <1>7, OrderWriters

\* Points are neither lost nor made by checkouts and cancellations, for any
\* number of users, requests and orders.
THEOREM PointsAreConserved == Spec => []PointsConserved
<1>1. Init => PointsConserved
  <2> SUFFICES ASSUME Init, NEW u \in Users
               PROVE  points[u] + Total(SpendingOrders(u), Spent) = InitPoints[u]
    BY DEF PointsConserved, SpendingOrders
  <2>1. SpendingOrders(u) = {}
    BY DEF Init, SpendingOrders, LiveOrders, Live, EmptyRow
  <2>2. Total(SpendingOrders(u), Spent) = 0
    BY <2>1, TotalType, FS_EmptySet
  <2>3. QED
    BY <2>2, CheckoutAssumption DEF Init
<1>2. Inv /\ PointsConserved /\ [Next]_vars => PointsConserved'
  BY NextPointsConserved
<1>3. QED
  BY <1>1, <1>2, Invariance, PTL DEF Spec

-----------------------------------------------------------------------------
(* Uses of the promo code *)

\* Request r has incremented the promo row and has not committed.
Incrementing(r) == tx[r].pc = "finish" /\ tx[r].promo

\* The promo row is locked by at most one checkout, and still has the use
\* that this checkout found free.
PromoHeld ==
  /\ \A r \in Reqs : Incrementing(r) => promo.uses < MaxUses
  /\ \A r, q \in Reqs : Incrementing(r) /\ Incrementing(q) => r = q

\* The live orders that used the code.
PromoOrders == {o \in LiveOrders : orders[o].promo}

\* Only the checkout that gets the lock begins to increment, and nobody
\* changes the row while it is locked.
LEMMA NextPromoHeld == Inv /\ PromoHeld /\ [Next]_vars => PromoHeld'
<1> SUFFICES ASSUME Inv, PromoHeld, [Next]_vars
             PROVE  PromoHeld'
  OBVIOUS
<1>0. tx \in [Reqs -> TxStates] /\ promo \in [uses : Nat, active : BOOLEAN]
  BY DEF Inv, TypeOK
<1>1. ASSUME \A q \in Reqs : Incrementing(q)' => Incrementing(q),
             promo'.uses = promo.uses \/ \A q \in Reqs : ~Incrementing(q)'
      PROVE  PromoHeld'
  BY <1>1 DEF PromoHeld
<1>2. ASSUME NEW u \in Users, NEW s \in Skus, CartRemove(u, s)
      PROVE  PromoHeld'
  <2>1. \A q \in Reqs : Incrementing(q)' <=> Incrementing(q)
    BY <1>0, <1>2 DEF CartRemove, Incrementing, TxStates
  <2>2. QED
    BY <1>1, <1>2, <2>1 DEF CartRemove
<1>3. ASSUME NEW r \in Reqs, NEW u \in Users, NEW k \in Keys \cup {Null},
             NEW h \in Hashes, NEW p \in BOOLEAN, CheckoutBegin(r, u, k, h, p)
      PROVE  PromoHeld'
  <2>1. \A q \in Reqs : Incrementing(q)' => Incrementing(q)
    BY <1>0, <1>3 DEF CheckoutBegin, Incrementing
  <2>2. QED
    BY <1>1, <1>3, <2>1 DEF CheckoutBegin, tables
<1>4. ASSUME NEW r \in Reqs, CheckoutQuote(r)
      PROVE  PromoHeld'
  <2>1. \A q \in Reqs : Incrementing(q)' => Incrementing(q)
    BY <1>0, <1>4 DEF CheckoutQuote, Incrementing, TxStates
  <2>2. QED
    BY <1>1, <1>4, <2>1 DEF CheckoutQuote, tables
<1>5. ASSUME NEW r \in Reqs, NEW s \in Skus, CheckoutDeduct(r, s)
      PROVE  PromoHeld'
  <2>1. \A q \in Reqs : Incrementing(q)' => Incrementing(q)
    BY <1>0, <1>5 DEF CheckoutDeduct, Incrementing, TxStates
  <2>2. QED
    BY <1>1, <1>5, <2>1 DEF CheckoutDeduct, tables
<1>6. ASSUME NEW r \in Reqs, CheckoutPromo(r)
      PROVE  PromoHeld'
  <2>1. /\ tx'[r].promo = tx[r].promo /\ tx'[r].pc = "finish"
        /\ \A q \in Reqs \ {r} : tx'[q] = tx[q]
        /\ UNCHANGED promo
    BY <1>0, <1>6 DEF CheckoutPromo, TxStates, tables
  <2>2. CASE tx[r].promo
    <3>1. promo.uses < MaxUses /\ \A q \in Reqs : ~Incrementing(q)
      BY <1>6, <2>2 DEF CheckoutPromo, PromoIncrements, PromoFree, Incrementing
    <3>2. \A q \in Reqs : Incrementing(q)' => q = r
      BY <2>1, <3>1 DEF Incrementing
    <3>3. QED
      BY <2>1, <3>1, <3>2 DEF PromoHeld
  <2>3. CASE ~tx[r].promo
    <3>1. \A q \in Reqs : Incrementing(q)' => Incrementing(q)
      BY <2>1, <2>3 DEF Incrementing
    <3>2. QED
      BY <1>1, <2>1, <3>1
  <2>4. QED
    BY <2>2, <2>3
<1>7. ASSUME NEW r \in Reqs, NEW o \in OrderIds, CheckoutCommit(r, o)
      PROVE  PromoHeld'
  <2>1. /\ tx'[r] = IdleTx /\ \A q \in Reqs \ {r} : tx'[q] = tx[q]
        /\ tx[r].pc = "finish"
        /\ ~tx[r].promo => UNCHANGED promo
    BY <1>0, <1>7 DEF CheckoutCommit
  <2>2. ~Incrementing(r)' /\ \A q \in Reqs : Incrementing(q)' => Incrementing(q)
    BY <2>1 DEF Incrementing, IdleTx
  <2>3. tx[r].promo => \A q \in Reqs : ~Incrementing(q)'
    BY <2>1, <2>2 DEF PromoHeld, Incrementing
  <2>4. QED
    BY <1>1, <2>1, <2>2, <2>3
<1>8. ASSUME NEW r \in Reqs, CheckoutRollback(r)
      PROVE  PromoHeld'
  <2>1. \A q \in Reqs : Incrementing(q)' => Incrementing(q)
    BY <1>0, <1>8 DEF CheckoutRollback, Incrementing, IdleTx
  <2>2. QED
    BY <1>1, <1>8, <2>1 DEF CheckoutRollback, tables
<1>9. ASSUME NEW c \in Cancels, CancelCommit(c)
      PROVE  PromoHeld'
  <2>1. UNCHANGED tx /\ (UNCHANGED promo \/ PromoFree)
    BY <1>9 DEF CancelCommit
  <2>2. QED
    BY <1>1, <2>1 DEF PromoFree, Incrementing
<1>10. CASE ToggleActive
  BY <1>1, <1>10 DEF ToggleActive, PromoFree, Incrementing
<1>11. CASE UNCHANGED <<tx, promo>>
  BY <1>1, <1>11 DEF Incrementing
<1>12. QED
  BY <1>2, <1>3, <1>4, <1>5, <1>6, <1>7, <1>8, <1>9, <1>10, <1>11, CartWrites
     DEF Next, vars, tables, CheckoutReplay, CancelBegin, CancelLock,
         CancelRestock, CancelRollback, UpdateOrderStatus, PaymentSettled

\* The counter goes up with an order that used the code and down with its
\* cancellation; it is never decremented for an order that is not live.
LEMMA NextPromoCounted ==
  Inv /\ PromoHeld /\ PromoUsesCounted /\ [Next]_vars => PromoUsesCounted'
<1> SUFFICES ASSUME Inv, PromoHeld, PromoUsesCounted, [Next]_vars
             PROVE  promo'.uses = Cardinality(PromoOrders)' /\ promo'.uses <= MaxUses
  BY DEF PromoUsesCounted, PromoOrders
<1>0. /\ promo.uses = Cardinality(PromoOrders) /\ promo.uses <= MaxUses
      /\ promo \in [uses : Nat, active : BOOLEAN]
      /\ orders \in [OrderIds -> OrderRows]
      /\ IsFiniteSet(PromoOrders) /\ MaxUses \in Nat
  BY CheckoutAssumption, FS_Subset
     DEF PromoUsesCounted, PromoOrders, LiveOrders, Inv, TypeOK
<1>1. ASSUME promo'.uses = promo.uses, UNCHANGED PromoOrders
      PROVE  promo'.uses = Cardinality(PromoOrders)' /\ promo'.uses <= MaxUses
  BY <1>0, <1>1
<1>2. ASSUME NEW r \in Reqs, NEW o \in OrderIds, CheckoutCommit(r, o)
      PROVE  promo'.uses = Cardinality(PromoOrders)' /\ promo'.uses <= MaxUses
  <2>1. /\ orders'[o].promo = tx[r].promo
        /\ \A p \in OrderIds \ {o} : orders'[p] = orders[p]
        /\ LiveOrders' = LiveOrders \cup {o} /\ o \notin LiveOrders
    BY <1>2, Placing
  <2>2. CASE ~tx[r].promo
    <3>1. UNCHANGED PromoOrders
      BY <2>1, <2>2 DEF PromoOrders, LiveOrders
    <3>2. UNCHANGED promo
      BY <1>2, <2>2 DEF CheckoutCommit
    <3>3. QED
      BY <1>1, <3>1, <3>2
  <2>3. CASE tx[r].promo
    <3>1. PromoOrders' = PromoOrders \cup {o} /\ o \notin PromoOrders
      BY <2>1, <2>3 DEF PromoOrders, LiveOrders
    <3>2. Cardinality(PromoOrders)' = Cardinality(PromoOrders) + 1
      BY <1>0, <3>1, FS_AddElement
    <3>3. promo'.uses = promo.uses + 1
      BY <1>0, <1>2, <2>3 DEF CheckoutCommit
    <3>4. promo.uses < MaxUses
      BY <1>2, <2>3 DEF CheckoutCommit, PromoHeld, Incrementing
    <3>5. QED
      BY <1>0, <3>2, <3>3, <3>4
  <2>4. QED
    BY <2>2, <2>3
<1>3. ASSUME NEW c \in Cancels, CancelCommit(c)
      PROVE  promo'.uses = Cardinality(PromoOrders)' /\ promo'.uses <= MaxUses
  <2>1. PICK o \in OrderIds :
          /\ o = cx[c].order
          /\ orders' = [orders EXCEPT ![o] = [orders[o] EXCEPT !.status = "cancelled"]]
          /\ LiveOrders = LiveOrders' \cup {o} /\ o \notin LiveOrders'
    BY <1>3, Cancelling
  <2>2. \A p \in OrderIds : orders'[p].promo = orders[p].promo
    BY <1>0, <2>1 DEF OrderRows
  <2>3. CASE ~orders[o].promo
    <3>1. UNCHANGED PromoOrders
      BY <2>1, <2>2, <2>3 DEF PromoOrders, LiveOrders
    <3>2. UNCHANGED promo
      BY <1>3, <2>1, <2>3 DEF CancelCommit
    <3>3. QED
      BY <1>1, <3>1, <3>2
  <2>4. CASE orders[o].promo
    <3>1. PromoOrders' = PromoOrders \ {o} /\ o \in PromoOrders
      BY <2>1, <2>2, <2>4 DEF PromoOrders, LiveOrders
    <3>2. /\ Cardinality(PromoOrders)' = Cardinality(PromoOrders) - 1
          /\ Cardinality(PromoOrders) # 0
      <4>1. Cardinality(PromoOrders \ {o}) = Cardinality(PromoOrders) - 1
        BY <1>0, <3>1, FS_RemoveElement
      <4>2. PromoOrders # {}
        BY <3>1
      <4>3. Cardinality(PromoOrders) # 0
        BY <1>0, <4>2, FS_EmptySet
      <4>4. QED
        BY <3>1, <4>1, <4>3
    <3>3. promo'.uses = promo.uses - 1
      BY <1>0, <1>3, <2>1, <2>4, <3>2 DEF CancelCommit
    <3>4. QED
      BY <1>0, <3>2, <3>3
  <2>5. QED
    BY <2>3, <2>4
<1>4. ASSUME NEW o \in OrderIds,
             PaymentSettled(o) \/ \E status \in AdminStatuses : UpdateOrderStatus(o, status)
      PROVE  promo'.uses = Cardinality(PromoOrders)' /\ promo'.uses <= MaxUses
  <2>1. UNCHANGED PromoOrders /\ UNCHANGED promo
    BY <1>4, Moving DEF PromoOrders, LiveOrders
  <2>2. QED
    BY <1>1, <2>1
<1>5. CASE UNCHANGED orders /\ promo'.uses = promo.uses
  BY <1>1, <1>5 DEF PromoOrders, LiveOrders, Live
<1>6. CASE ToggleActive
  BY <1>0, <1>5, <1>6 DEF ToggleActive
<1>7. QED
  BY <1>2, <1>3, <1>4, <1>5, <1>6, CartWrites
     DEF Next, vars, tables, CartRemove, CheckoutBegin, CheckoutReplay,
         CheckoutQuote, CheckoutDeduct, CheckoutPromo, CheckoutRollback,
         CancelBegin, CancelLock, CancelRestock, CancelRollback

\* The counter is the number of live orders with the code and stays within
\* max_uses, for any number of checkouts and cancellations.
THEOREM PromoUsesAreCounted == Spec => []PromoUsesCounted
<1>1. Init => PromoHeld /\ PromoUsesCounted
  <2> SUFFICES ASSUME Init
               PROVE  PromoHeld /\ PromoUsesCounted
    OBVIOUS
  <2>1. PromoHeld
    BY DEF Init, PromoHeld, Incrementing, IdleTx
  <2>2. PromoOrders = {}
    BY DEF Init, PromoOrders, LiveOrders, Live, EmptyRow
  <2>3. promo.uses = 0 /\ MaxUses \in Nat
    BY CheckoutAssumption DEF Init
  <2>4. Cardinality(PromoOrders) = 0
    BY <2>2, FS_EmptySet
  <2>5. promo.uses = Cardinality(PromoOrders) /\ promo.uses <= MaxUses
    BY <2>3, <2>4
  <2>6. QED
    BY <2>1, <2>5 DEF PromoUsesCounted, PromoOrders
<1>2. Inv /\ PromoHeld /\ PromoUsesCounted /\ [Next]_vars => (PromoHeld /\ PromoUsesCounted)'
  BY NextPromoHeld, NextPromoCounted
<1>3. QED
  BY <1>1, <1>2, Invariance, PTL DEF Spec

-----------------------------------------------------------------------------
(* Idempotency keys *)

\* A user has one checkout open at a time, and an open checkout with a key
\* still finds it unused; a stored key tells the order placed with it and
\* every answer given for it.
KeysKnown ==
  /\ \A r \in Reqs : tx[r].pc = "idle" => tx[r].user = Null
  /\ \A r, q \in Reqs : tx[r].user = tx[q].user => r = q \/ tx[r].user = Null
  /\ \A r \in Reqs : tx[r].pc # "idle" /\ tx[r].key # Null =>
       idem[tx[r].user][tx[r].key] = NoIdem
  /\ OneOrderPerKey
  /\ \A a \in served : idem[a.user][a.key] = [order |-> a.order, hash |-> a.hash]

\* Steps of open transactions other than a commit move neither their users
\* nor their keys.
LEMMA KeysKept ==
  ASSUME Inv, KeysKnown, UNCHANGED idem,
         \A o \in OrderIds : /\ orders'[o].user = orders[o].user
                             /\ orders'[o].key = orders[o].key
                             /\ Exists(o)' <=> Exists(o),
         \A a \in served' : idem[a.user][a.key] = [order |-> a.order, hash |-> a.hash],
         \A r \in Reqs : \/ tx'[r] = IdleTx
                         \/ /\ tx'[r].user = tx[r].user /\ tx'[r].key = tx[r].key
                            /\ tx'[r].pc = "idle" <=> tx[r].pc = "idle"
  PROVE  KeysKnown'
<1>1. OneOrderPerKey'
  BY DEF KeysKnown, OneOrderPerKey
<1>2. \A r \in Reqs : tx'[r].pc = "idle" => tx'[r].user = Null
  BY DEF KeysKnown, IdleTx
<1>3. \A r, q \in Reqs : tx'[r].user = tx'[q].user => r = q \/ tx'[r].user = Null
  BY DEF KeysKnown, IdleTx
<1>4. \A r \in Reqs : tx'[r].pc # "idle" /\ tx'[r].key # Null =>
        idem'[tx'[r].user][tx'[r].key] = NoIdem
  BY DEF KeysKnown, IdleTx
<1>5. QED
  BY <1>1, <1>2, <1>3, <1>4 DEF KeysKnown

\* A checkout opens only when its user has none open and its key is unused;
\* when it commits, it stores the key of its order and of nothing else.
LEMMA NextKeysKnown == Inv /\ KeysKnown /\ [Next]_vars => KeysKnown'
<1> SUFFICES ASSUME Inv, KeysKnown, [Next]_vars
             PROVE  KeysKnown'
  OBVIOUS
<1>0. /\ tx \in [Reqs -> TxStates] /\ orders \in [OrderIds -> OrderRows]
      /\ idem \in [Users -> [Keys -> IdemRows]]
      /\ served \subseteq [user : Users, key : Keys, hash : Hashes, order : OrderIds]
      /\ Null \notin Users \cup OrderIds \cup Keys \cup Hashes
      /\ \A a \in served : idem[a.user][a.key] = [order |-> a.order, hash |-> a.hash]
  BY CheckoutAssumption DEF Inv, TypeOK, KeysKnown
<1>1. CASE UNCHANGED <<idem, orders, served, tx>>
  BY <1>1 DEF KeysKnown, OneOrderPerKey, Exists
<1>2. ASSUME UNCHANGED <<idem, orders, served>>,
             \A r \in Reqs : \/ tx'[r] = IdleTx
                             \/ /\ tx'[r].user = tx[r].user /\ tx'[r].key = tx[r].key
                                /\ tx'[r].pc = "idle" <=> tx[r].pc = "idle"
      PROVE  KeysKnown'
  BY <1>0, <1>2, KeysKept DEF Exists
<1>3. ASSUME NEW u \in Users, NEW s \in Skus, CartRemove(u, s)
      PROVE  KeysKnown'
  <2>1. \A r \in Reqs : /\ tx'[r].user = tx[r].user /\ tx'[r].key = tx[r].key
                        /\ tx'[r].pc = tx[r].pc
    BY <1>0, <1>3 DEF CartRemove, TxStates
  <2>2. QED
    BY <1>2, <1>3, <2>1 DEF CartRemove, history
<1>4. ASSUME NEW r \in Reqs, NEW u \in Users, NEW k \in Keys \cup {Null},
             NEW h \in Hashes, NEW p \in BOOLEAN, CheckoutBegin(r, u, k, h, p)
      PROVE  KeysKnown'
  <2>1. /\ tx'[r].user = u /\ tx'[r].key = k /\ tx'[r].pc = "quote"
        /\ \A q \in Reqs \ {r} : tx'[q] = tx[q]
        /\ UNCHANGED <<idem, orders, served>>
    BY <1>0, <1>4 DEF CheckoutBegin, tables, history
  <2>2. \A q \in Reqs : tx[q].user # u
    BY <1>4 DEF CheckoutBegin, CheckoutLockFree
  <2>3. k # Null => idem[u][k] = NoIdem
    BY <1>4 DEF CheckoutBegin, KeyUnused
  <2>4. OneOrderPerKey'
    BY <2>1 DEF KeysKnown, OneOrderPerKey, Exists
  <2>5. QED
    BY <2>1, <2>2, <2>3, <2>4 DEF KeysKnown
<1>5. ASSUME NEW r \in Reqs, NEW u \in Users, NEW k \in Keys, NEW h \in Hashes,
             CheckoutReplay(r, u, k, h)
      PROVE  KeysKnown'
  <2>1. /\ UNCHANGED <<idem, orders, tx>>
        /\ served' = served \cup {Response(u, k, h, idem[u][k].order)}
        /\ idem[u][k] # NoIdem /\ idem[u][k].hash = h
    BY <1>5 DEF CheckoutReplay, tables, KeyUnused, SameRequest
  <2>2. idem[u][k] \in [order : OrderIds, hash : Hashes]
    BY <1>0, <2>1 DEF IdemRows
  <2>3. idem[u][k] = [order |-> idem[u][k].order, hash |-> h]
    BY <2>1, <2>2
  <2>4. \A a \in served' : idem[a.user][a.key] = [order |-> a.order, hash |-> a.hash]
    <3>1. ASSUME NEW a \in served', a \notin served
          PROVE  idem[a.user][a.key] = [order |-> a.order, hash |-> a.hash]
      <4>1. a.user = u /\ a.key = k /\ a.hash = h /\ a.order = idem[u][k].order
        BY <2>1, <3>1 DEF Response
      <4>2. QED
        BY <2>3, <4>1
    <3>2. QED
      BY <1>0, <3>1
  <2>5. QED
    BY <2>1, <2>4, KeysKept DEF Exists
<1>6. ASSUME NEW r \in Reqs, CheckoutQuote(r)
      PROVE  KeysKnown'
  <2>1. \A q \in Reqs : /\ tx'[q].user = tx[q].user /\ tx'[q].key = tx[q].key
                        /\ tx'[q].pc = "idle" <=> tx[q].pc = "idle"
    BY <1>0, <1>6 DEF CheckoutQuote, TxStates
  <2>2. QED
    BY <1>2, <1>6, <2>1 DEF CheckoutQuote, tables, history
<1>7. ASSUME NEW r \in Reqs, NEW s \in Skus, CheckoutDeduct(r, s)
      PROVE  KeysKnown'
  <2>1. \A q \in Reqs : /\ tx'[q].user = tx[q].user /\ tx'[q].key = tx[q].key
                        /\ tx'[q].pc = tx[q].pc
    BY <1>0, <1>7 DEF CheckoutDeduct, TxStates
  <2>2. QED
    BY <1>2, <1>7, <2>1 DEF CheckoutDeduct, tables, history
<1>8. ASSUME NEW r \in Reqs, CheckoutPromo(r)
      PROVE  KeysKnown'
  <2>1. \A q \in Reqs : /\ tx'[q].user = tx[q].user /\ tx'[q].key = tx[q].key
                        /\ tx'[q].pc = "idle" <=> tx[q].pc = "idle"
    BY <1>0, <1>8 DEF CheckoutPromo, TxStates
  <2>2. QED
    BY <1>2, <1>8, <2>1 DEF CheckoutPromo, tables, history
<1>9. ASSUME NEW r \in Reqs, CheckoutRollback(r)
      PROVE  KeysKnown'
  <2>1. \A q \in Reqs : tx'[q] = IdleTx \/ tx'[q] = tx[q]
    BY <1>0, <1>9 DEF CheckoutRollback
  <2>2. QED
    BY <1>2, <1>9, <2>1 DEF CheckoutRollback, tables, history
<1>10. ASSUME NEW o \in OrderIds,
              PaymentSettled(o) \/ \E status \in AdminStatuses : UpdateOrderStatus(o, status)
       PROVE  KeysKnown'
  <2>1. /\ \A p \in OrderIds : /\ orders'[p].user = orders[p].user
                               /\ orders'[p].key = orders[p].key
                               /\ Exists(p)' <=> Exists(p)
        /\ UNCHANGED <<idem, tx, served>>
    BY <1>10, Moving DEF history
  <2>2. QED
    BY <1>0, <2>1, KeysKept
<1>11. ASSUME NEW c \in Cancels, CancelCommit(c)
       PROVE  KeysKnown'
  <2>1. PICK o \in OrderIds :
          /\ orders[o].status \in CancellableStatuses
          /\ orders' = [orders EXCEPT ![o] = [orders[o] EXCEPT !.status = "cancelled"]]
    BY <1>11, Cancelling
  <2>2. \A p \in OrderIds : /\ orders'[p].user = orders[p].user
                            /\ orders'[p].key = orders[p].key
                            /\ Exists(p)' <=> Exists(p)
    BY <1>0, <2>1 DEF OrderRows, Exists, CancellableStatuses
  <2>3. UNCHANGED <<idem, tx, served>>
    BY <1>11 DEF CancelCommit, history
  <2>4. QED
    BY <1>0, <2>2, <2>3, KeysKept
<1>12. ASSUME NEW r \in Reqs, NEW o \in OrderIds, CheckoutCommit(r, o)
       PROVE  KeysKnown'
  <2>1. /\ orders'[o].user = tx[r].user /\ orders'[o].key = tx[r].key
        /\ \A p \in OrderIds \ {o} : orders'[p] = orders[p]
        /\ tx[r].user \in Users /\ tx[r].hash \in Hashes /\ tx[r] \in TxStates
    BY <1>12, Placing
  <2>2. /\ tx'[r] = IdleTx /\ \A q \in Reqs \ {r} : tx'[q] = tx[q]
        /\ tx[r].pc = "finish"
    BY <1>0, <1>12 DEF CheckoutCommit
  <2>3. \A q \in Reqs \ {r} : tx[q].user # tx[r].user
    BY <1>0, <2>1 DEF KeysKnown
  <2>4. /\ \A q \in Reqs : tx'[q].pc = "idle" => tx'[q].user = Null
        /\ \A q1, q2 \in Reqs : tx'[q1].user = tx'[q2].user => q1 = q2 \/ tx'[q1].user = Null
    BY <2>2 DEF KeysKnown, IdleTx
  <2>5. CASE tx[r].key = Null
    <3>1. UNCHANGED <<idem, served>>
      BY <1>12, <2>5 DEF CheckoutCommit
    <3>2. OneOrderPerKey'
      BY <2>1, <2>5, <3>1 DEF KeysKnown, OneOrderPerKey, Exists
    <3>3. \A q \in Reqs : tx'[q].pc # "idle" /\ tx'[q].key # Null =>
            idem'[tx'[q].user][tx'[q].key] = NoIdem
      BY <2>2, <3>1 DEF KeysKnown, IdleTx
    <3>4. QED
      BY <2>4, <3>1, <3>2, <3>3 DEF KeysKnown
  <2>6. CASE tx[r].key # Null
    <3> DEFINE v == tx[r].user
               k == tx[r].key
               h == tx[r].hash
    <3>1. v \in Users /\ k \in Keys /\ idem[v][k] = NoIdem
      BY <2>1, <2>2, <2>6 DEF TxStates, KeysKnown
    <3>2. /\ idem' = [idem EXCEPT ![v][k] = [order |-> o, hash |-> h]]
          /\ served' = served \cup {Response(v, k, h, o)}
      BY <1>12, <2>6 DEF CheckoutCommit
    <3>3. /\ idem'[v][k] = [order |-> o, hash |-> h]
          /\ \A w \in Users, j \in Keys : w # v \/ j # k => idem'[w][j] = idem[w][j]
      BY <1>0, <3>1, <3>2
    <3>4. OneOrderPerKey'
      <4>1. SUFFICES ASSUME NEW p \in OrderIds, orders'[p].status # "none",
                            orders'[p].key # Null
                     PROVE  idem'[orders'[p].user][orders'[p].key].order = p
        BY DEF OneOrderPerKey, Exists
      <4>2. CASE p = o
        BY <2>1, <3>3, <4>2
      <4>3. CASE p # o
        <5>1. orders'[p] = orders[p] /\ idem[orders[p].user][orders[p].key].order = p
          BY <2>1, <4>1, <4>3 DEF KeysKnown, OneOrderPerKey, Exists
        <5>2. orders[p].user \in Users /\ orders[p].key \in Keys
          BY <1>0, <4>1, <5>1 DEF OrderRows, Inv, LocksProtect, Exists
        <5>3. ~(orders[p].user = v /\ orders[p].key = k)
          BY <1>0, <3>1, <5>1 DEF NoIdem
        <5>4. QED
          BY <3>3, <5>1, <5>2, <5>3
      <4>4. QED
        BY <4>2, <4>3
    <3>5. \A q \in Reqs : tx'[q].pc # "idle" /\ tx'[q].key # Null =>
            idem'[tx'[q].user][tx'[q].key] = NoIdem
      <4>1. SUFFICES ASSUME NEW q \in Reqs, tx'[q].pc # "idle", tx'[q].key # Null
                     PROVE  idem'[tx'[q].user][tx'[q].key] = NoIdem
        OBVIOUS
      <4>2. q # r /\ tx'[q] = tx[q]
        BY <2>2, <4>1 DEF IdleTx
      <4>3. tx[q].user # v /\ tx[q].user \in Users /\ tx[q].key \in Keys
        BY <1>0, <2>3, <4>1, <4>2 DEF TxStates, Inv, LocksProtect, DeductionsCovered
      <4>4. idem[tx[q].user][tx[q].key] = NoIdem
        BY <4>1, <4>2 DEF KeysKnown
      <4>5. QED
        BY <3>3, <4>2, <4>3, <4>4
    <3>6. \A a \in served' : idem'[a.user][a.key] = [order |-> a.order, hash |-> a.hash]
      <4>1. SUFFICES ASSUME NEW a \in served'
                     PROVE  idem'[a.user][a.key] = [order |-> a.order, hash |-> a.hash]
        OBVIOUS
      <4>2. CASE a \in served
        <5>1. /\ a.user \in Users /\ a.key \in Keys /\ a.order \in OrderIds
              /\ idem[a.user][a.key] = [order |-> a.order, hash |-> a.hash]
          BY <1>0, <4>2
        <5>2. ~(a.user = v /\ a.key = k)
          BY <1>0, <3>1, <5>1 DEF NoIdem
        <5>3. QED
          BY <3>3, <5>1, <5>2
      <4>3. CASE a = Response(v, k, h, o)
        BY <3>3, <4>3 DEF Response
      <4>4. QED
        BY <3>2, <4>2, <4>3
    <3>7. QED
      BY <2>4, <3>4, <3>5, <3>6 DEF KeysKnown
  <2>7. QED
    BY <2>5, <2>6
<1>13. QED
  BY <1>1, <1>3, <1>4, <1>5, <1>6, <1>7, <1>8, <1>9, <1>10, <1>11, <1>12, CartWrites
     DEF Next, vars, tables, history, CancelBegin, CancelLock, CancelRestock,
         CancelRollback, ToggleActive

\* KeysKnown is inductive with Inv.
LEMMA KeysInvariance == Spec => []KeysKnown
<1>1. Init => KeysKnown
  BY DEF Init, KeysKnown, OneOrderPerKey, Exists, EmptyRow, IdleTx
<1>2. Inv /\ KeysKnown /\ [Next]_vars => KeysKnown'
  BY NextKeysKnown
<1>3. QED
  BY <1>1, <1>2, Invariance, PTL DEF Spec

\* A key makes one order, however often and by however many requests at a
\* time it is used.
THEOREM KeysNameOneOrder == Spec => []OneOrderPerKey
<1>1. KeysKnown => OneOrderPerKey
  BY DEF KeysKnown
<1>2. QED
  BY <1>1, KeysInvariance, PTL

\* All answers to a key name that order and were asked with one payload.
THEOREM AnswersAgree == Spec => []ReplaysAgree
<1>1. KeysKnown => ReplaysAgree
  <2>1. ASSUME KeysKnown, NEW a \in served, NEW b \in served,
               a.user = b.user, a.key = b.key
        PROVE  a.order = b.order /\ a.hash = b.hash
    <3>1. [order |-> a.order, hash |-> a.hash] = [order |-> b.order, hash |-> b.hash]
      BY <2>1 DEF KeysKnown
    <3>2. QED
      BY <3>1
  <2>2. QED
    BY <2>1 DEF ReplaysAgree
<1>2. QED
  BY <1>1, KeysInvariance, PTL

-----------------------------------------------------------------------------
(* Units of the cart *)

\* The units of s in all the orders user u ever placed, cancelled or not.
Placed(u, s) == Total(OrdersOf(u), Ordered(s))

\* What the checkout of r may order of s, and what it leaves of it in the
\* cart of its user.
Claim(r, s) == tx[r].items[s] + (IF s \in tx[r].rows THEN 0 ELSE cart[tx[r].user][s])

\* Orders and cart, and also orders and what an open checkout is about to
\* order and to leave, are within what was added.
CartsCovered ==
  /\ \A o \in OrderIds : ~Exists(o) => orders[o].user = Null
  /\ \A u \in Users, s \in Skus : Placed(u, s) + cart[u][s] <= added[u][s]
  /\ \A r \in Reqs, s \in Skus : tx[r].pc # "idle" =>
       Placed(tx[r].user, s) + Claim(r, s) <= added[tx[r].user][s]

\* Sums over the orders of a user are natural numbers, and stay the same
\* when orders keep their users and items.
LEMMA PlacedType ==
  ASSUME Inv, NEW u \in Users, NEW s \in Skus
  PROVE  Placed(u, s) \in Nat /\ IsFiniteSet(OrdersOf(u))
<1>1. orders \in [OrderIds -> OrderRows] /\ OrdersOf(u) \subseteq OrderIds
  BY DEF Inv, TypeOK, OrdersOf
<1>2. IsFiniteSet(OrdersOf(u))
  BY <1>1, CheckoutAssumption, FS_Subset
<1>3. \A o \in OrdersOf(u) : Ordered(s)[o] \in Nat
  BY <1>1 DEF Ordered, OrderRows
<1>4. QED
  BY <1>2, <1>3, TotalType DEF Placed

LEMMA PlacedKept ==
  ASSUME NEW u \in Users, NEW s \in Skus,
         \A o \in OrderIds : /\ orders'[o].user = orders[o].user
                             /\ orders'[o].items = orders[o].items
  PROVE  Placed(u, s)' = Placed(u, s)
<1>1. OrdersOf(u)' = OrdersOf(u)
  BY DEF OrdersOf
<1>2. \A o \in OrdersOf(u) : Ordered(s)'[o] = Ordered(s)[o]
  BY DEF OrdersOf, Ordered
<1>3. Total(OrdersOf(u), Ordered(s)') = Total(OrdersOf(u), Ordered(s))
  BY <1>2, TotalAgrees
<1>4. QED
  BY <1>1, <1>3 DEF Placed

\* A placed order adds its items to its user's sum, and to no other.
LEMMA PlacedMore ==
  ASSUME Inv, CartsCovered, NEW r \in Reqs, NEW o \in OrderIds, CheckoutCommit(r, o),
         NEW u \in Users, NEW s \in Skus
  PROVE  Placed(u, s)' = Placed(u, s) + (IF u = tx[r].user THEN tx[r].items[s] ELSE 0)
<1>1. /\ orders'[o].user = tx[r].user /\ orders'[o].items = tx[r].items
      /\ \A p \in OrderIds \ {o} : orders'[p] = orders[p]
      /\ orders[o].status = "none"
      /\ tx[r].user \in Users /\ tx[r] \in TxStates
  BY Placing
<1>2. o \notin OrdersOf(u)
  BY <1>1, CheckoutAssumption DEF CartsCovered, Exists, OrdersOf
<1>3. \A p \in OrdersOf(u) : Ordered(s)'[p] = Ordered(s)[p]
  BY <1>1, <1>2 DEF OrdersOf, Ordered
<1>4. Total(OrdersOf(u), Ordered(s)') = Total(OrdersOf(u), Ordered(s))
  BY <1>3, TotalAgrees
<1>5. CASE u # tx[r].user
  <2>1. OrdersOf(u)' = OrdersOf(u)
    BY <1>1, <1>2, <1>5 DEF OrdersOf
  <2>2. QED
    BY <1>4, <1>5, <2>1, PlacedType DEF Placed
<1>6. CASE u = tx[r].user
  <2>1. OrdersOf(u)' = OrdersOf(u) \cup {o}
    BY <1>1, <1>2, <1>6 DEF OrdersOf
  <2>2. Ordered(s)'[o] = tx[r].items[s] /\ tx[r].items[s] \in Nat
    BY <1>1 DEF Ordered, TxStates
  <2>3. \A p \in OrdersOf(u) \cup {o} : Ordered(s)'[p] \in Nat
    <3>1. \A p \in OrdersOf(u) : Ordered(s)[p] \in Nat
      BY DEF Inv, TypeOK, OrderRows, OrdersOf, Ordered
    <3>2. QED
      BY <1>3, <2>2, <3>1
  <2>4. Total(OrdersOf(u) \cup {o}, Ordered(s)') = Total(OrdersOf(u), Ordered(s)') + Ordered(s)'[o]
    BY <1>2, <2>3, PlacedType, TotalInsert
  <2>5. QED
    BY <1>4, <1>6, <2>1, <2>2, <2>4 DEF Placed
<1>7. QED
  BY <1>5, <1>6

\* Rows that do not exist have no user.
LEMMA NextFreshRows ==
  Inv /\ CartsCovered /\ [Next]_vars => (\A o \in OrderIds : ~Exists(o) => orders[o].user = Null)'
<1> SUFFICES ASSUME Inv, CartsCovered, [Next]_vars, NEW p \in OrderIds, ~Exists(p)'
             PROVE  orders'[p].user = Null
  OBVIOUS
<1>0. /\ ~Exists(p) => orders[p].user = Null
      /\ orders'[p].status = "none"
      /\ orders \in [OrderIds -> OrderRows]
  BY RowsTyped DEF CartsCovered, Exists
<1>1. CASE UNCHANGED orders
  BY <1>0, <1>1 DEF Exists
<1>2. ASSUME NEW r \in Reqs, NEW o \in OrderIds, CheckoutCommit(r, o)
      PROVE  orders'[p].user = Null
  BY <1>0, <1>2, Placing DEF Exists
<1>3. ASSUME NEW c \in Cancels, CancelCommit(c)
      PROVE  orders'[p].user = Null
  <2>1. PICK o \in OrderIds :
          orders' = [orders EXCEPT ![o] = [orders[o] EXCEPT !.status = "cancelled"]]
    BY <1>3, Cancelling
  <2>2. QED
    BY <1>0, <2>1 DEF Exists, OrderRows
<1>4. ASSUME NEW o \in OrderIds,
             PaymentSettled(o) \/ \E status \in AdminStatuses : UpdateOrderStatus(o, status)
      PROVE  orders'[p].user = Null
  <2>1. orders'[p].user = orders[p].user /\ (Exists(p)' <=> Exists(p))
    BY <1>4, Moving
  <2>2. QED
    BY <1>0, <2>1
<1>5. QED
  BY <1>1, <1>2, <1>3, <1>4, OrderWriters

\* What is put in the cart is added, a row taken out of the cart is left to
\* the checkout that has read it, and a commit deletes what it orders.
LEMMA NextCartsCovered == Inv /\ KeysKnown /\ CartsCovered /\ [Next]_vars => CartsCovered'
<1> SUFFICES ASSUME Inv, KeysKnown, CartsCovered, [Next]_vars
             PROVE  CartsCovered'
  OBVIOUS
<1>0. /\ tx \in [Reqs -> TxStates] /\ tx' \in [Reqs -> TxStates]
      /\ cart \in [Users -> [Skus -> Nat]] /\ added \in [Users -> [Skus -> Nat]]
      /\ orders \in [OrderIds -> OrderRows]
      /\ \A q \in Reqs : tx[q].pc # "idle" => tx[q].user \in Users
      /\ \A u \in Users, s \in Skus : Placed(u, s) \in Nat
  BY RowsTyped, PlacedType DEF Inv, TypeOK, LocksProtect, DeductionsCovered
<1>1. SUFFICES ASSUME NEW u \in Users, NEW s \in Skus
               PROVE  /\ Placed(u, s)' + cart'[u][s] <= added'[u][s]
                      /\ \A q \in Reqs : tx'[q].pc # "idle" /\ tx'[q].user = u =>
                           Placed(u, s)' + Claim(q, s)' <= added'[u][s]
  <2>1. \A q \in Reqs : tx'[q].pc # "idle" => tx'[q].user \in Users
    BY NextDeductionsCovered DEF DeductionsCovered
  <2>2. QED
    BY <1>1, <2>1, NextFreshRows DEF CartsCovered
<1> DEFINE Goal == /\ Placed(u, s)' + cart'[u][s] <= added'[u][s]
                   /\ \A q \in Reqs : tx'[q].pc # "idle" /\ tx'[q].user = u =>
                        Placed(u, s)' + Claim(q, s)' <= added'[u][s]
<1>2. /\ Placed(u, s) + cart[u][s] <= added[u][s]
      /\ \A q \in Reqs : tx[q].pc # "idle" /\ tx[q].user = u =>
           Placed(u, s) + tx[q].items[s] + (IF s \in tx[q].rows THEN 0 ELSE cart[u][s])
             <= added[u][s]
      /\ cart[u][s] \in Nat /\ added[u][s] \in Nat /\ Placed(u, s) \in Nat
      /\ \A q \in Reqs : tx[q].items[s] \in Nat
  <2>1. /\ cart[u][s] \in Nat /\ added[u][s] \in Nat /\ Placed(u, s) \in Nat
        /\ \A q \in Reqs : tx[q].items[s] \in Nat
    BY <1>0 DEF TxStates
  <2>2. Placed(u, s) + cart[u][s] <= added[u][s]
    BY DEF CartsCovered
  <2>3. ASSUME NEW q \in Reqs, tx[q].pc # "idle", tx[q].user = u
        PROVE  Placed(u, s) + tx[q].items[s] + (IF s \in tx[q].rows THEN 0 ELSE cart[u][s])
                 <= added[u][s]
    <3>1. Placed(u, s) + Claim(q, s) <= added[u][s]
      BY <2>3 DEF CartsCovered
    <3>2. QED
      BY <2>1, <2>3, <3>1 DEF Claim
  <2>4. QED
    BY <2>1, <2>2, <2>3
<1>3. ASSUME \A o \in OrderIds : /\ orders'[o].user = orders[o].user
                                 /\ orders'[o].items = orders[o].items,
             UNCHANGED <<cart, added>>,
             \A q \in Reqs : \/ tx'[q] = IdleTx
                             \/ /\ tx'[q].user = tx[q].user /\ tx'[q].items = tx[q].items
                                /\ tx'[q].rows = tx[q].rows
                                /\ tx'[q].pc = "idle" <=> tx[q].pc = "idle"
      PROVE  Goal
  <2>1. Placed(u, s)' = Placed(u, s)
    BY <1>3, PlacedKept
  <2>2. ASSUME NEW q \in Reqs, tx'[q].pc # "idle", tx'[q].user = u
        PROVE  Placed(u, s)' + Claim(q, s)' <= added'[u][s]
    <3>1. /\ tx[q].pc # "idle" /\ tx[q].user = u
          /\ tx'[q].items = tx[q].items /\ tx'[q].rows = tx[q].rows
      BY <1>3, <2>2 DEF IdleTx
    <3>2. Claim(q, s)' = tx[q].items[s] + (IF s \in tx[q].rows THEN 0 ELSE cart[u][s])
      BY <1>3, <2>2, <3>1 DEF Claim
    <3>3. QED
      BY <1>2, <1>3, <2>1, <3>1, <3>2
  <2>3. QED
    BY <1>2, <1>3, <2>1, <2>2
<1>4. ASSUME NEW v \in Users, NEW z \in Skus, NEW n \in 1..MaxAdded,
             CartAdd(v, z, n) \/ CartUpdate(v, z, n)
      PROVE  Goal
  <2>1. UNCHANGED <<orders, tx>> /\ n \in Nat
    BY <1>4, CheckoutAssumption DEF CartAdd, CartUpdate
  <2>2. Placed(u, s)' = Placed(u, s)
    BY <2>1, PlacedKept
  <2>3. /\ cart'[u][s] \in Nat /\ added'[u][s] \in Nat
        /\ added[u][s] <= added'[u][s]
        /\ cart'[u][s] - cart[u][s] <= added'[u][s] - added[u][s]
    <3>1. CASE u = v /\ s = z
      <4>1. CASE CartAdd(v, z, n)
        BY <1>0, <1>2, <2>1, <3>1, <4>1 DEF CartAdd
      <4>2. CASE CartUpdate(v, z, n)
        BY <1>0, <1>2, <2>1, <3>1, <4>2 DEF CartUpdate
      <4>3. QED
        BY <1>4, <4>1, <4>2
    <3>2. CASE ~(u = v /\ s = z)
      <4>1. cart'[u][s] = cart[u][s] /\ added'[u][s] = added[u][s]
        BY <1>0, <1>4, <3>2 DEF CartAdd, CartUpdate
      <4>2. QED
        BY <1>2, <4>1
    <3>3. QED
      BY <3>1, <3>2
  <2>4. Placed(u, s)' + cart'[u][s] <= added'[u][s]
    BY <1>2, <2>2, <2>3
  <2>5. ASSUME NEW q \in Reqs, tx'[q].pc # "idle", tx'[q].user = u
        PROVE  Placed(u, s)' + Claim(q, s)' <= added'[u][s]
    <3>1. Claim(q, s)' = tx[q].items[s] + (IF s \in tx[q].rows THEN 0 ELSE cart'[u][s])
      BY <2>1, <2>5 DEF Claim
    <3>2. QED
      BY <1>2, <2>1, <2>2, <2>3, <2>5, <3>1
  <2>6. QED
    BY <2>4, <2>5
<1>5. ASSUME NEW v \in Users, NEW z \in Skus, CartRemove(v, z)
      PROVE  Goal
  <2>1. /\ UNCHANGED <<orders, added>>
        /\ cart' = [cart EXCEPT ![v][z] = 0]
        /\ \A q \in Reqs : /\ tx'[q].pc = tx[q].pc /\ tx'[q].user = tx[q].user
                           /\ tx'[q].items = tx[q].items
                           /\ tx'[q].rows = IF tx[q].user = v THEN tx[q].rows \ {z}
                                            ELSE tx[q].rows
    BY <1>0, <1>5 DEF CartRemove, TxStates, history
  <2>2. Placed(u, s)' = Placed(u, s)
    BY <2>1, PlacedKept
  <2>3. cart'[u][s] = IF u = v /\ s = z THEN 0 ELSE cart[u][s]
    BY <1>0, <2>1
  <2>4. ASSUME NEW q \in Reqs, tx'[q].pc # "idle", tx'[q].user = u
        PROVE  Placed(u, s)' + Claim(q, s)' <= added'[u][s]
    <3> DEFINE left == IF s \in tx[q].rows THEN 0 ELSE cart[u][s]
               left2 == IF s \in tx'[q].rows THEN 0 ELSE cart'[u][s]
    <3>1. /\ tx[q].pc # "idle" /\ tx[q].user = u /\ tx'[q].items = tx[q].items
          /\ tx'[q].rows = IF u = v THEN tx[q].rows \ {z} ELSE tx[q].rows
      <4>1. /\ tx'[q].pc = tx[q].pc /\ tx'[q].user = tx[q].user
            /\ tx'[q].items = tx[q].items
            /\ tx'[q].rows = IF tx[q].user = v THEN tx[q].rows \ {z} ELSE tx[q].rows
        BY <2>1
      <4>2. QED
        BY <2>4, <4>1
    <3>2. left2 <= left /\ left \in Nat /\ left2 \in Nat
      <4>1. CASE u = v /\ s = z
        BY <1>2, <2>3, <4>1
      <4>2. CASE ~(u = v /\ s = z)
        <5>1. s \in tx'[q].rows <=> s \in tx[q].rows
          BY <3>1, <4>2
        <5>2. cart'[u][s] = cart[u][s]
          BY <2>3, <4>2
        <5>3. QED
          BY <1>2, <5>1, <5>2
      <4>3. QED
        BY <4>1, <4>2
    <3>3. Claim(q, s)' = tx[q].items[s] + left2
      BY <2>4, <3>1 DEF Claim
    <3>4. Placed(u, s) + tx[q].items[s] + left <= added[u][s]
      BY <1>2, <3>1
    <3>5. tx[q].items[s] \in Nat /\ added'[u][s] = added[u][s]
      BY <1>2, <2>1
    <3> HIDE DEF left, left2
    <3>6. QED
      BY <1>2, <2>2, <3>2, <3>3, <3>4, <3>5
  <2>5. QED
    BY <1>2, <2>1, <2>2, <2>3, <2>4
<1>6. ASSUME NEW r \in Reqs, NEW v \in Users, NEW k \in Keys \cup {Null},
             NEW h \in Hashes, NEW p \in BOOLEAN, CheckoutBegin(r, v, k, h, p)
      PROVE  Goal
  <2>1. /\ UNCHANGED <<orders, cart, added>>
        /\ tx'[r].user = v /\ tx'[r].items = cart[v] /\ tx'[r].rows = Needed(cart[v])
        /\ \A q \in Reqs \ {r} : tx'[q] = tx[q]
    BY <1>0, <1>6 DEF CheckoutBegin, tables, history
  <2>2. Placed(u, s)' = Placed(u, s)
    BY <2>1, PlacedKept
  <2>3. ASSUME NEW q \in Reqs, tx'[q].pc # "idle", tx'[q].user = u
        PROVE  Placed(u, s)' + Claim(q, s)' <= added'[u][s]
    <3>1. CASE q = r
      <4>1. Claim(q, s)' = cart[u][s] + (IF s \in Needed(cart[u]) THEN 0 ELSE cart[u][s])
        BY <2>1, <2>3, <3>1 DEF Claim
      <4>2. Claim(q, s)' = cart[u][s]
        BY <1>2, <4>1 DEF Needed
      <4>3. QED
        BY <1>2, <2>1, <2>2, <4>2
    <3>2. CASE q # r
      <4>1. tx'[q] = tx[q]
        BY <2>1, <3>2
      <4>2. Claim(q, s)' = tx[q].items[s] + (IF s \in tx[q].rows THEN 0 ELSE cart[u][s])
        BY <2>1, <2>3, <4>1 DEF Claim
      <4>3. QED
        BY <1>2, <2>1, <2>2, <2>3, <4>1, <4>2
    <3>3. QED
      BY <3>1, <3>2
  <2>4. QED
    BY <1>2, <2>1, <2>2, <2>3
<1>7. ASSUME NEW r \in Reqs, NEW o \in OrderIds, CheckoutCommit(r, o)
      PROVE  Goal
  <2>1. /\ tx'[r] = IdleTx /\ \A q \in Reqs \ {r} : tx'[q] = tx[q]
        /\ tx[r].pc = "finish" /\ tx[r].user \in Users
        /\ UNCHANGED added
        /\ cart' = [cart EXCEPT ![tx[r].user] =
                      [z \in Skus |-> IF z \in tx[r].rows THEN 0 ELSE @[z]]]
    BY <1>0, <1>7 DEF CheckoutCommit
  <2>2. Placed(u, s)' = Placed(u, s) + (IF u = tx[r].user THEN tx[r].items[s] ELSE 0)
    BY <1>7, PlacedMore
  <2>3. CASE u = tx[r].user
    <3>1. cart'[u][s] = IF s \in tx[r].rows THEN 0 ELSE cart[u][s]
      BY <1>0, <2>1, <2>3
    <3>2. Placed(u, s)' + cart'[u][s] <= added'[u][s]
      BY <1>2, <2>1, <2>2, <2>3, <3>1
    <3>3. \A q \in Reqs : ~(tx'[q].pc # "idle" /\ tx'[q].user = u)
      BY <2>1, <2>3, CheckoutAssumption DEF KeysKnown, IdleTx
    <3>4. QED
      BY <3>2, <3>3
  <2>4. CASE u # tx[r].user
    <3>1. cart'[u][s] = cart[u][s] /\ Placed(u, s)' = Placed(u, s)
      BY <1>0, <1>2, <2>1, <2>2, <2>4
    <3>2. ASSUME NEW q \in Reqs, tx'[q].pc # "idle", tx'[q].user = u
          PROVE  Placed(u, s)' + Claim(q, s)' <= added'[u][s]
      <4>1. tx'[q] = tx[q]
        BY <2>1, <3>2 DEF IdleTx
      <4>2. Claim(q, s)' = tx[q].items[s] + (IF s \in tx[q].rows THEN 0 ELSE cart[u][s])
        BY <3>1, <3>2, <4>1 DEF Claim
      <4>3. QED
        BY <1>2, <2>1, <3>1, <3>2, <4>1, <4>2
    <3>3. QED
      BY <1>2, <2>1, <3>1, <3>2
  <2>5. QED
    BY <2>3, <2>4
<1>8. ASSUME NEW r \in Reqs,
             \/ CheckoutQuote(r) \/ CheckoutPromo(r)
             \/ \E z \in Skus : CheckoutDeduct(r, z)
      PROVE  Goal
  <2>1. UNCHANGED <<orders, cart, added>>
    BY <1>8 DEF CheckoutQuote, CheckoutPromo, CheckoutDeduct, tables, history
  <2>2. /\ tx'[r].user = tx[r].user /\ tx'[r].items = tx[r].items
        /\ tx'[r].rows = tx[r].rows /\ tx[r].pc # "idle" /\ tx'[r].pc # "idle"
        /\ \A q \in Reqs \ {r} : tx'[q] = tx[q]
    <3>1. CASE CheckoutQuote(r)
      BY <1>0, <3>1 DEF CheckoutQuote, TxStates
    <3>2. CASE CheckoutPromo(r)
      BY <1>0, <3>2 DEF CheckoutPromo, TxStates
    <3>3. CASE \E z \in Skus : CheckoutDeduct(r, z)
      BY <1>0, <3>3 DEF CheckoutDeduct, TxStates
    <3>4. QED
      BY <1>8, <3>1, <3>2, <3>3
  <2>3. QED
    BY <1>3, <2>1, <2>2
<1>9. ASSUME NEW r \in Reqs, CheckoutRollback(r)
      PROVE  Goal
  <2>1. UNCHANGED <<orders, cart, added>> /\ \A q \in Reqs : tx'[q] = IdleTx \/ tx'[q] = tx[q]
    BY <1>0, <1>9 DEF CheckoutRollback, tables, history
  <2>2. QED
    BY <1>3, <2>1
<1>10. ASSUME NEW o \in OrderIds,
              PaymentSettled(o) \/ \E status \in AdminStatuses : UpdateOrderStatus(o, status)
       PROVE  Goal
  <2>1. /\ \A p \in OrderIds : orders'[p].user = orders[p].user /\ orders'[p].items = orders[p].items
        /\ UNCHANGED <<cart, added, tx>>
    BY <1>10, Moving DEF history
  <2>2. QED
    BY <1>3, <2>1
<1>11. ASSUME NEW c \in Cancels, CancelCommit(c)
       PROVE  Goal
  <2>1. PICK o \in OrderIds :
          orders' = [orders EXCEPT ![o] = [orders[o] EXCEPT !.status = "cancelled"]]
    BY <1>11, Cancelling
  <2>2. \A p \in OrderIds : orders'[p].user = orders[p].user /\ orders'[p].items = orders[p].items
    BY <1>0, <2>1 DEF OrderRows
  <2>3. UNCHANGED <<cart, added, tx>>
    BY <1>11 DEF CancelCommit, history
  <2>4. QED
    BY <1>3, <2>2, <2>3
<1>12. CASE UNCHANGED <<orders, cart, added, tx>>
  BY <1>3, <1>12
<1>13. Goal
  BY <1>4, <1>5, <1>6, <1>7, <1>8, <1>9, <1>10, <1>11, <1>12
     DEF Next, vars, tables, history, CheckoutReplay, CancelBegin, CancelLock,
         CancelRestock, CancelRollback, ToggleActive
<1>14. QED
  BY <1>13

\* No unit is ordered twice because two requests read the same cart.
THEOREM NothingIsOrderedTwice == Spec => []OrderedAtMostAdded
<1>1. Init => CartsCovered
  <2> SUFFICES ASSUME Init
               PROVE  CartsCovered
    OBVIOUS
  <2>1. ASSUME NEW u \in Users, NEW s \in Skus
        PROVE  Placed(u, s) + cart[u][s] <= added[u][s]
    <3>1. OrdersOf(u) = {}
      BY CheckoutAssumption DEF Init, OrdersOf, EmptyRow
    <3>2. Placed(u, s) = 0
      BY <3>1, TotalType, FS_EmptySet DEF Placed
    <3>3. cart[u][s] = added[u][s] /\ cart[u][s] \in Nat
      BY CheckoutAssumption DEF Init
    <3>4. QED
      BY <3>2, <3>3
  <2>2. QED
    BY <2>1 DEF Init, CartsCovered, EmptyRow, IdleTx
<1>2. Inv /\ KeysKnown /\ CartsCovered /\ [Next]_vars => CartsCovered'
  BY NextCartsCovered
<1>3. CartsCovered => OrderedAtMostAdded
  BY DEF CartsCovered, OrderedAtMostAdded, Placed
<1>4. QED
  BY <1>1, <1>2, <1>3, Invariance, KeysInvariance, PTL DEF Spec

-----------------------------------------------------------------------------
(* Deadlock *)

\* Of finitely many rows with a number each, one has the greatest.  (A least
\* set of rows without a greatest number would have a smaller one.)
LEMMA HasGreatest ==
  ASSUME NEW D, IsFiniteSet(D), D # {}, NEW m, \A r \in D : m[r] \in Nat
  PROVE  \E r \in D : \A q \in D : m[q] <= m[r]
<1> DEFINE Greatest(S) == \E r \in S : \A q \in S : m[q] <= m[r]
           Bad == {S \in SUBSET D : S # {} /\ ~Greatest(S)}
           Sizes == {Cardinality(S) : S \in Bad}
           Less == OpToRel(<, Nat)
<1>1. SUFFICES ASSUME D \in Bad
               PROVE  FALSE
  OBVIOUS
<1>2. Sizes \subseteq Nat /\ Sizes # {}
  <2>1. \A S \in SUBSET D : Cardinality(S) \in Nat
    BY FS_Subset, FS_CardinalityType
  <2>2. QED
    BY <1>1, <2>1
<1>3. \A d, e \in Nat : <<e, d>> \in Less <=> e < d
  BY DEF OpToRel
<1>4. IsWellFoundedOn(Less, Nat)
  BY NatLessThanWellFounded
<1>5. \E d \in Sizes : \A e \in Sizes : ~ (<<e, d>> \in Less)
  <2> HIDE DEF Less, Sizes
  <2> QED
    BY <1>2, <1>4, WFMin, Zenon
<1>6. PICK S \in Bad : \A T \in Bad : ~ (Cardinality(T) < Cardinality(S))
  <2>1. PICK d \in Sizes : \A e \in Sizes : ~ (<<e, d>> \in Less)
    BY <1>5
  <2>2. PICK S \in Bad : d = Cardinality(S)
    OBVIOUS
  <2>3. ASSUME NEW T \in Bad
        PROVE  ~ (Cardinality(T) < Cardinality(S))
    <3>1. Cardinality(T) \in Sizes
      OBVIOUS
    <3> HIDE DEF Less, Sizes
    <3>2. QED
      BY <1>2, <1>3, <2>1, <2>2, <3>1
  <2>4. QED
    BY <2>3
<1>7. IsFiniteSet(S) /\ S \subseteq D /\ S # {}
  BY FS_Subset
<1>8. PICK x \in S : TRUE
  BY <1>7
<1>9. Cardinality(S \ {x}) < Cardinality(S)
  <2>1. Cardinality(S \ {x}) = Cardinality(S) - 1 /\ Cardinality(S) \in Nat
    BY <1>7, <1>8, FS_RemoveElement, FS_CardinalityType
  <2>2. QED
    BY <2>1
<1>10. S \ {x} \notin Bad
  BY <1>6, <1>9
<1>11. \A q \in S : m[q] \in Nat
  BY <1>7
<1>12. CASE S \ {x} = {}
  <2>1. \A q \in S : m[q] <= m[x]
    BY <1>8, <1>11, <1>12
  <2>2. QED
    BY <1>6, <1>8, <2>1
<1>13. CASE S \ {x} # {}
  <2>1. PICK y \in S \ {x} : \A q \in S \ {x} : m[q] <= m[y]
    BY <1>7, <1>10, <1>13
  <2>2. CASE m[x] <= m[y]
    <3>1. \A q \in S : m[q] <= m[y]
      BY <2>1, <2>2
    <3>2. QED
      BY <1>6, <2>1, <3>1
  <2>3. CASE ~ (m[x] <= m[y])
    <3>1. \A q \in S : m[q] <= m[x]
      BY <1>8, <1>11, <2>1, <2>3
    <3>2. QED
      BY <1>6, <1>8, <3>1
  <2>4. QED
    BY <2>2, <2>3
<1>14. QED
  BY <1>12, <1>13

\* A checkout holds the rows it needs up to some row, and none above it.
LockedInOrder ==
  \A r \in Reqs : \A s \in tx[r].held, t \in Needed(tx[r].items) \ tx[r].held : s < t

\* The deduction loop takes the least of the rows it still needs.
LEMMA NextLockedInOrder == Inv /\ LockedInOrder /\ [Next]_vars => LockedInOrder'
<1> SUFFICES ASSUME Inv, LockedInOrder, [Next]_vars
             PROVE  LockedInOrder'
  OBVIOUS
<1>0. tx \in [Reqs -> TxStates] /\ \A r \in Reqs : tx[r].held \subseteq Skus
  BY DEF Inv, TypeOK, TxStates
<1>1. ASSUME \A r \in Reqs : \/ tx'[r].held = {}
                             \/ tx'[r].held = tx[r].held /\ tx'[r].items = tx[r].items
      PROVE  LockedInOrder'
  BY <1>1 DEF LockedInOrder, Needed
<1>2. ASSUME NEW r \in Reqs, NEW s \in Skus, CheckoutDeduct(r, s)
      PROVE  LockedInOrder'
  <2>1. /\ tx'[r].held = tx[r].held \cup {s} /\ tx'[r].items = tx[r].items
        /\ \A q \in Reqs \ {r} : tx'[q] = tx[q]
    BY <1>0, <1>2 DEF CheckoutDeduct, TxStates
  <2>2. /\ s \in Needed(tx[r].items) \ tx[r].held
        /\ \A t \in Needed(tx[r].items) \ tx[r].held : s <= t
    BY <1>2 DEF CheckoutDeduct, NextSkus
  <2>3. \A t \in Needed(tx[r].items) \ (tx[r].held \cup {s}) : s < t
    <3>1. \A t \in Needed(tx[r].items) : t \in Nat
      BY CheckoutAssumption DEF Needed
    <3>2. QED
      BY <2>2, <3>1
  <2>4. \A v \in tx'[r].held, t \in Needed(tx'[r].items) \ tx'[r].held : v < t
    BY <2>1, <2>3 DEF LockedInOrder
  <2>5. QED
    BY <2>1, <2>4 DEF LockedInOrder
<1>3. ASSUME NEW u \in Users, NEW s \in Skus, CartRemove(u, s)
      PROVE  LockedInOrder'
  <2>1. \A r \in Reqs : tx'[r].held = tx[r].held /\ tx'[r].items = tx[r].items
    BY <1>0, <1>3 DEF CartRemove, TxStates
  <2>2. QED
    BY <1>1, <2>1
<1>4. ASSUME NEW r \in Reqs, NEW u \in Users, NEW k \in Keys \cup {Null},
             NEW h \in Hashes, NEW p \in BOOLEAN, CheckoutBegin(r, u, k, h, p)
      PROVE  LockedInOrder'
  BY <1>0, <1>1, <1>4 DEF CheckoutBegin
<1>5. ASSUME NEW r \in Reqs, CheckoutQuote(r)
      PROVE  LockedInOrder'
  <2>1. \A q \in Reqs : tx'[q].held = tx[q].held /\ tx'[q].items = tx[q].items
    BY <1>0, <1>5 DEF CheckoutQuote, TxStates
  <2>2. QED
    BY <1>1, <2>1
<1>6. ASSUME NEW r \in Reqs, CheckoutPromo(r)
      PROVE  LockedInOrder'
  <2>1. \A q \in Reqs : tx'[q].held = tx[q].held /\ tx'[q].items = tx[q].items
    BY <1>0, <1>6 DEF CheckoutPromo, TxStates
  <2>2. QED
    BY <1>1, <2>1
<1>7. ASSUME NEW r \in Reqs, tx' = [tx EXCEPT ![r] = IdleTx]
      PROVE  LockedInOrder'
  BY <1>0, <1>1, <1>7 DEF IdleTx
<1>8. CASE UNCHANGED tx
  BY <1>1, <1>8
<1>9. ASSUME NEW r \in Reqs, NEW o \in OrderIds, CheckoutCommit(r, o)
      PROVE  LockedInOrder'
  BY <1>7, <1>9 DEF CheckoutCommit
<1>10. ASSUME NEW r \in Reqs, CheckoutRollback(r)
       PROVE  LockedInOrder'
  BY <1>7, <1>10 DEF CheckoutRollback
<1>11. QED
  BY <1>2, <1>3, <1>4, <1>5, <1>6, <1>8, <1>9, <1>10, CartWrites
     DEF Next, vars, CheckoutReplay, CancelBegin, CancelLock, CancelRestock,
         CancelCommit, CancelRollback, UpdateOrderStatus, PaymentSettled, ToggleActive

\* In a circle of checkouts none would wait for the promo row, whose holder
\* waits for nothing, and each would wait for a greater SKU than the last.
LEMMA NoCircle ==
  ASSUME Inv, LockedInOrder, IsFiniteSet(Reqs)
  PROVE  CheckoutsDeadlockFree
<1> SUFFICES ASSUME NEW D \in SUBSET Reqs, D # {},
                    \A r \in D : \E q \in D : WaitsFor(r, q)
             PROVE  FALSE
  BY DEF CheckoutsDeadlockFree
<1> DEFINE Next1(r) == CHOOSE s \in NextSkus(r) : TRUE
           m == [r \in D |-> Next1(r)]
<1>1. \A r \in D : tx[r].pc = "deduct"
  BY DEF WaitsFor
<1>2. \A r \in D : \E q \in D : NextSkus(r) \cap tx[q].held # {}
  BY <1>1 DEF WaitsFor
<1>3. \A r \in D : Next1(r) \in NextSkus(r) /\ Next1(r) \in Nat
  <2>1. ASSUME NEW r \in D
        PROVE  Next1(r) \in NextSkus(r) /\ Next1(r) \in Nat
    <3>1. NextSkus(r) # {}
      BY <1>2
    <3>2. Next1(r) \in NextSkus(r)
      BY <3>1
    <3>3. NextSkus(r) \subseteq Nat
      BY CheckoutAssumption DEF NextSkus, Needed
    <3>4. QED
      BY <3>2, <3>3
  <2>2. QED
    BY <2>1
<1>4. IsFiniteSet(D)
  BY FS_Subset
<1>5. \E r \in D : \A q \in D : m[q] <= m[r]
  <2>1. \A r \in D : m[r] \in Nat
    BY <1>3
  <2> HIDE DEF m
  <2>2. QED
    BY <1>4, <2>1, HasGreatest
<1>6. PICK r \in D : \A q \in D : Next1(q) <= Next1(r)
  <2> HIDE DEF Next1
  <2>1. \A q \in D : m[q] = Next1(q)
    OBVIOUS
  <2> HIDE DEF m
  <2>2. QED
    BY <1>5, <2>1
<1>7. PICK q \in D : NextSkus(r) \cap tx[q].held # {}
  BY <1>2
<1>8. PICK s \in NextSkus(r) : s \in tx[q].held
  BY <1>7
<1>9. s = Next1(r)
  <2>1. /\ \A t \in NextSkus(r) : s <= t /\ Next1(r) <= t
        /\ Next1(r) \in NextSkus(r) /\ NextSkus(r) \subseteq Nat
    BY <1>3, <1>8, CheckoutAssumption DEF NextSkus, Needed
  <2> HIDE DEF Next1
  <2>2. s \in Nat /\ Next1(r) \in Nat /\ s <= Next1(r) /\ Next1(r) <= s
    BY <1>3, <1>8, <2>1
  <2>3. QED
    BY <2>2
<1>10. s < Next1(q)
  <2>1. Next1(q) \in Needed(tx[q].items) \ tx[q].held
    BY <1>3 DEF NextSkus
  <2>2. QED
    BY <1>8, <2>1 DEF LockedInOrder
<1>11. QED
  <2> HIDE DEF Next1
  <2> QED
    BY <1>3, <1>6, <1>9, <1>10

\* The canonical order of the locks is enough: no set of checkouts waits for
\* itself, for any finite number of requests and any SKUs.
THEOREM CheckoutsNeverDeadlock ==
  ASSUME IsFiniteSet(Reqs)
  PROVE  Spec => []CheckoutsDeadlockFree
<1>1. Init => LockedInOrder
  BY DEF Init, LockedInOrder, IdleTx
<1>2. Inv /\ LockedInOrder /\ [Next]_vars => LockedInOrder'
  BY NextLockedInOrder
<1>3. Inv /\ LockedInOrder => CheckoutsDeadlockFree
  BY NoCircle
<1>4. QED
  BY <1>1, <1>2, <1>3, Invariance, PTL DEF Spec

-----------------------------------------------------------------------------
(* Rewards *)

\* A submission that has passed its checks names a purchase.
RequestsKnown == \A q \in Reqs : request[q].pc = "insert" => request[q].item \in Items

\* A spend in progress has the lock, is for something and is not yet in the ledger.
SpendsExclude ==
  \A o \in OrderIds : spend[o].pc # "idle" =>
    lock = o /\ spent[o] = 0 /\ spend[o].points >= 1

\* Only what was spent has been given back.
GivenWasSpent == \A o \in OrderIds : given[o] => spent[o] > 0

\* The sum read under the lock is still covered, and so is a spend that passed.
ReadSumHolds ==
  \A o \in OrderIds :
    /\ spend[o].pc \in {"valid", "commit"} => spend[o].net <= Reward!Net
    /\ spend[o].pc = "commit" => spend[o].points <= spend[o].net

\* All but the sums: what a step may assume of the ledger's rows.
Rows ==
  /\ Reward!TypeOK /\ IsFiniteSet(rewards)
  /\ RequestsKnown /\ Reward!RewardedOnce /\ SpendsExclude /\ GivenWasSpent

RewardsInv == Rows /\ ReadSumHolds /\ Reward!NotOverspent

-----------------------------------------------------------------------------
(* Sums of the ledger *)

\* What is assumed of the purchases, the orders and the points.
LEMMA Constants ==
  /\ IsFiniteSet(OrderIds) /\ Reward!None \notin Items \cup OrderIds
  /\ Rewarded \subseteq Nat /\ 0 \in Rewarded
  /\ MaxSpend \in Nat \ {0} /\ MaxSerial \in Nat \ {0}
BY PointsAssumption DEF Reward!RewardsAssumption, Reward!None, Reward!IsFiniteSet, IsFiniteSet

\* The sums that Rewards counts with are those of this module.
LEMMA SameTotal == \A I, n : Reward!Total(I, n) = Total(I, n)
BY DEF Reward!Total, Reward!UnitsOf, Reward!Cardinality, Total, UnitsOf, Cardinality

\* A new row adds its points.
LEMMA EarnedInsert ==
  ASSUME NEW rows, IsFiniteSet(rows), NEW r, r \notin rows,
         \A x \in rows \cup {r} : x.points \in Nat
  PROVE  Reward!Earned(rows \cup {r}) = Reward!Earned(rows) + r.points
<1> DEFINE all == [x \in rows \cup {r} |-> x.points]
           old == [x \in rows |-> x.points]
<1>1. /\ \A x \in rows \cup {r} : all[x] \in Nat
      /\ all[r] = r.points
      /\ \A x \in rows : all[x] = old[x]
  OBVIOUS
<1>2. Total(rows \cup {r}, all) = Total(rows, all) + all[r]
  <2> HIDE DEF all
  <2> QED
    BY <1>1, TotalInsert
<1>3. Total(rows, all) = Total(rows, old)
  <2> HIDE DEF all, old
  <2> QED
    BY <1>1, TotalAgrees
<1>4. QED
  BY <1>1, <1>2, <1>3, SameTotal DEF Reward!Earned

\* The points that reviews have earned are a natural number.
LEMMA EarnedType ==
  ASSUME NEW rows, IsFiniteSet(rows), \A x \in rows : x.points \in Nat
  PROVE  Reward!Earned(rows) \in Nat
<1> DEFINE n == [x \in rows |-> x.points]
<1>1. \A x \in rows : n[x] \in Nat
  OBVIOUS
<1>2. Total(rows, n) \in Nat
  <2> HIDE DEF n
  <2> QED
    BY <1>1, TotalType
<1>3. QED
  BY <1>2, SameTotal DEF Reward!Earned

\* The sums are numbers.
LEMMA SumsTyped ==
  ASSUME Rows
  PROVE  /\ Reward!Earned(rewards) \in Nat /\ Reward!TotalSpent \in Nat /\ Reward!TotalGiven \in Nat
         /\ Reward!Valid \in Nat /\ Reward!Net \in Int
<1> USE Constants DEF Rows, Reward!TypeOK
<1>1. \A r \in rewards : r.points \in Nat
  OBVIOUS
<1>2. \A o \in OrderIds : spent[o] \in Nat
  OBVIOUS
<1>3. IsFiniteSet(Reward!GivenBack) /\ Reward!GivenBack \subseteq OrderIds
  BY FS_Subset DEF Reward!GivenBack
<1>4. IsFiniteSet({r \in rewards : ~r.expired})
  BY FS_Subset
<1>5. Reward!Earned(rewards) \in Nat /\ Reward!Earned({r \in rewards : ~r.expired}) \in Nat
  BY <1>1, <1>4, EarnedType
<1>6. Reward!TotalSpent \in Nat /\ Reward!TotalGiven \in Nat
  BY <1>2, <1>3, TotalType, SameTotal DEF Reward!TotalSpent, Reward!TotalGiven
<1>7. QED
  BY <1>5, <1>6 DEF Reward!Net, Reward!Valid

\* A reward adds to the sum (awardPoints), an expiry leaves it alone.
LEMMA NetInsert ==
  ASSUME Rows, Rows', NEW q \in Reqs, Reward!SubmitInsert(q)
  PROVE  Reward!Net' >= Reward!Net
<1> DEFINE i == request[q].item
           r == [item |-> i, id |-> serial + 1, points |-> request[q].points, expired |-> FALSE]
<1>1. UNCHANGED <<spent, given>> /\ (rewards' = rewards \/ rewards' = rewards \cup {r})
  BY DEF Reward!SubmitInsert, Reward!points
<1>2. Reward!TotalSpent' = Reward!TotalSpent /\ Reward!TotalGiven' = Reward!TotalGiven
  BY <1>1, SameTotal DEF Reward!TotalSpent, Reward!TotalGiven, Reward!GivenBack
<1>3. rewards' = rewards => Reward!Earned(rewards)' = Reward!Earned(rewards)
  BY DEF Reward!Earned
<1>4. ASSUME rewards' = rewards \cup {r}, r \notin rewards
      PROVE  Reward!Earned(rewards)' = Reward!Earned(rewards) + r.points
  <2>1. \A x \in rewards \cup {r} : x.points \in Nat
    BY <1>4, Constants DEF Rows, Reward!TypeOK
  <2>2. Reward!Earned(rewards \cup {r}) = Reward!Earned(rewards) + r.points
    <3> HIDE DEF r
    <3> QED
      BY <1>4, <2>1, EarnedInsert DEF Rows
  <2>3. QED
    BY <1>4, <2>2, SameTotal DEF Reward!Earned
<1>5. r.points \in Nat
  BY Constants DEF Rows, Reward!TypeOK
<1>6. Reward!Earned(rewards)' >= Reward!Earned(rewards)
  <2>1. CASE r \in rewards
    <3>1. rewards' = rewards
      BY <1>1, <2>1
    <3>2. QED
      BY <1>3, <3>1, SumsTyped
  <2>2. CASE r \notin rewards
    BY <1>1, <1>3, <1>4, <1>5, <2>2, SumsTyped
  <2>3. QED
    BY <2>1, <2>2
<1>7. /\ Reward!Earned(rewards) \in Nat /\ Reward!TotalSpent \in Nat /\ Reward!TotalGiven \in Nat
      /\ Reward!Earned(rewards)' \in Nat
  <2>1. IsFiniteSet(rewards') /\ \A x \in rewards' : x.points \in Nat
    BY Constants DEF Rows, Reward!TypeOK
  <2>2. Reward!Earned(rewards') \in Nat
    BY <2>1, EarnedType
  <2>3. QED
    BY <2>2, SumsTyped, SameTotal DEF Reward!Earned
<1>8. QED
  BY <1>2, <1>6, <1>7 DEF Reward!Net

LEMMA NetExpire ==
  ASSUME Rows, Rows', NEW r \in rewards, Reward!Expire(r)
  PROVE  Reward!Net' = Reward!Net
<1> DEFINE rest == rewards \ {r}
           late == [r EXCEPT !.expired = TRUE]
<1>1. /\ ~r.expired /\ rewards' = rest \cup {late} /\ UNCHANGED <<spent, given>>
      /\ rewards = rest \cup {r}
  BY DEF Reward!Expire, Reward!points
<1>2. \A x \in rest \cup {r, late} : x.points \in Nat
  BY Constants DEF Rows, Reward!TypeOK
<1>3. r \notin rest /\ late \notin rest /\ late.points = r.points
  <2>1. late.item = r.item /\ late.points = r.points /\ late # r
    BY <1>1 DEF Rows, Reward!TypeOK
  <2>2. QED
    BY <2>1 DEF Rows, Reward!RewardedOnce
<1>4. IsFiniteSet(rest)
  BY FS_Subset DEF Rows
<1>5. /\ Reward!Earned(rest \cup {late}) = Reward!Earned(rest) + late.points
      /\ Reward!Earned(rest \cup {r}) = Reward!Earned(rest) + r.points
  <2> HIDE DEF rest, late
  <2> QED
    BY <1>2, <1>3, <1>4, EarnedInsert
<1>6. Reward!Earned(rewards)' = Reward!Earned(rewards)
  <2>1. Reward!Earned(rewards)' = Reward!Earned(rest \cup {late})
    BY <1>1, SameTotal DEF Reward!Earned
  <2>2. QED
    BY <1>1, <1>3, <1>5, <2>1
<1>7. Reward!TotalSpent' = Reward!TotalSpent /\ Reward!TotalGiven' = Reward!TotalGiven
  BY <1>1, SameTotal DEF Reward!TotalSpent, Reward!TotalGiven, Reward!GivenBack
<1>8. QED
  BY <1>6, <1>7 DEF Reward!Net

\* A spend is deducted from the sum.
LEMMA NetSpend ==
  ASSUME Rows, Rows', NEW o \in OrderIds, Reward!SpendCommit(o)
  PROVE  Reward!Net' = Reward!Net - spend[o].points
<1> DEFINE rest == OrderIds \ {o}
<1>1. /\ spent[o] = 0 /\ ~given[o] /\ spent' = [spent EXCEPT ![o] = spend[o].points]
      /\ UNCHANGED <<rewards, given>>
  BY DEF Reward!SpendCommit, Rows, SpendsExclude, GivenWasSpent, Reward!TypeOK
<1>2. /\ \A p \in OrderIds : spent[p] \in Nat /\ spent'[p] \in Nat
      /\ \A p \in rest : spent'[p] = spent[p]
      /\ spent'[o] = spend[o].points
  BY <1>1 DEF Rows, Reward!TypeOK
<1>3. IsFiniteSet(rest) /\ o \notin rest /\ OrderIds = rest \cup {o}
  BY Constants, FS_Subset
<1>4. /\ Total(OrderIds, spent) = Total(rest, spent) + spent[o]
      /\ Total(OrderIds, spent') = Total(rest, spent') + spent'[o]
  <2> HIDE DEF rest
  <2> QED
    BY <1>2, <1>3, TotalInsert
<1>5. Total(rest, spent') = Total(rest, spent)
  <2> HIDE DEF rest
  <2> QED
    BY <1>2, TotalAgrees
<1>6. Reward!TotalSpent' = Reward!TotalSpent + spend[o].points
  <2>1. Total(rest, spent) \in Nat
    <3> HIDE DEF rest
    <3> QED
      BY <1>2, <1>3, TotalType
  <2>2. spend[o].points \in Nat
    BY DEF Rows, Reward!TypeOK
  <2>3. QED
    BY <1>1, <1>2, <1>4, <1>5, <2>1, <2>2, SameTotal DEF Reward!TotalSpent
<1>7. Reward!TotalGiven' = Reward!TotalGiven
  <2>1. Reward!GivenBack' = Reward!GivenBack /\ \A p \in Reward!GivenBack : spent'[p] = spent[p]
    BY <1>1, <1>2 DEF Reward!GivenBack
  <2>2. Total(Reward!GivenBack, spent') = Total(Reward!GivenBack, spent)
    BY <2>1, TotalAgrees
  <2>3. QED
    BY <2>1, <2>2, SameTotal DEF Reward!TotalGiven
<1>8. Reward!Earned(rewards)' = Reward!Earned(rewards)
  BY <1>1, SameTotal DEF Reward!Earned
<1>9. /\ Reward!Earned(rewards) \in Nat /\ Reward!TotalSpent \in Nat /\ Reward!TotalGiven \in Nat
      /\ spend[o].points \in Nat
  BY SumsTyped DEF Rows, Reward!TypeOK
<1>10. QED
  BY <1>6, <1>7, <1>8, <1>9 DEF Reward!Net

\* What is given back is added again.
LEMMA NetGiveBack ==
  ASSUME Rows, Rows', NEW o \in OrderIds, Reward!GiveBack(o)
  PROVE  Reward!Net' >= Reward!Net
<1>1. /\ ~given[o] /\ given' = [given EXCEPT ![o] = TRUE] /\ UNCHANGED <<spent, rewards>>
  BY DEF Reward!GiveBack, Reward!Unrefunded
<1>2. Reward!GivenBack' = Reward!GivenBack \cup {o} /\ o \notin Reward!GivenBack
  BY <1>1 DEF Reward!GivenBack, Rows, Reward!TypeOK
<1>3. IsFiniteSet(Reward!GivenBack) /\ \A p \in Reward!GivenBack \cup {o} : spent[p] \in Nat
  BY Constants, FS_Subset DEF Reward!GivenBack, Rows, Reward!TypeOK
<1>4. Total(Reward!GivenBack \cup {o}, spent) = Total(Reward!GivenBack, spent) + spent[o]
  BY <1>2, <1>3, TotalInsert
<1>5. Reward!TotalGiven' = Reward!TotalGiven + spent[o]
  BY <1>1, <1>2, <1>4, SameTotal DEF Reward!TotalGiven
<1>6. Reward!TotalSpent' = Reward!TotalSpent /\ Reward!Earned(rewards)' = Reward!Earned(rewards)
  BY <1>1, SameTotal DEF Reward!TotalSpent, Reward!Earned
<1>7. Reward!Earned(rewards) \in Nat /\ Reward!TotalSpent \in Nat /\ Reward!TotalGiven \in Nat /\ spent[o] \in Nat
  BY <1>3, SumsTyped
<1>8. QED
  BY <1>5, <1>6, <1>7 DEF Reward!Net

-----------------------------------------------------------------------------
(* The invariant *)

LEMMA RewardsInit == Reward!Init => RewardsInv
<1> SUFFICES ASSUME Reward!Init
             PROVE  RewardsInv
  OBVIOUS
<1>1. Rows
  BY Constants, FS_EmptySet
     DEF Reward!Init, Rows, Reward!TypeOK, RequestsKnown, Reward!RewardedOnce, SpendsExclude, GivenWasSpent, Reward!NoReview,
         Reward!NoRequest, Reward!NotRead, Reward!NoSpend, Reward!None, Reward!Serials
<1>2. ReadSumHolds
  BY DEF Reward!Init, ReadSumHolds, Reward!NoSpend
<1>3. Reward!Net = 0 + Reward!TotalGiven - Reward!TotalSpent /\ Reward!TotalGiven = 0
  <2>1. rewards = {} /\ Reward!GivenBack = {}
    BY DEF Reward!Init, Reward!GivenBack
  <2>2. Reward!Earned({}) = 0
    BY FS_EmptySet, TotalType, SameTotal DEF Reward!Earned
  <2>3. Total({}, spent) = 0
    BY FS_EmptySet, TotalType
  <2>4. QED
    BY <2>1, <2>2, <2>3, SameTotal DEF Reward!Net, Reward!TotalGiven
<1>4. Reward!TotalSpent = 0
  <2>1. UnitsOf(OrderIds, spent) = {}
    BY DEF Reward!Init, UnitsOf
  <2>2. QED
    BY <2>1, FS_EmptySet, SameTotal DEF Reward!TotalSpent, Total
<1>5. QED
  BY <1>1, <1>2, <1>3, <1>4 DEF RewardsInv, Reward!NotOverspent

\* Every step keeps the types and what rows say of each other.
LEMMA NextRows == Rows /\ [Reward!Next]_Reward!vars => Rows'
<1> SUFFICES ASSUME Rows, [Reward!Next]_Reward!vars
             PROVE  Rows'
  OBVIOUS
<1> USE Constants DEF Rows, Reward!TypeOK, RequestsKnown, Reward!RewardedOnce, SpendsExclude,
        GivenWasSpent
<1> DEFINE SpendRows == [pc : {"idle", "net", "valid", "commit"}, points : 0..MaxSpend, net : Int,
                      balance : Nat]
           ReviewRows == [id : Reward!Serials, revision : Reward!Serials, judged : Reward!Serials,
                       status : {"absent", "pending", "approved", "rejected"}]
<1>0. serial \in Nat /\ MaxSerial \in Nat
  BY DEF Reward!Serials
<1>1. ASSUME NEW q \in Reqs, NEW i \in Items, NEW p \in Rewarded, Reward!SubmitCheck(q, i, p)
      PROVE  Rows'
  BY <1>1 DEF Reward!SubmitCheck, Reward!points
<1>2. ASSUME NEW q \in Reqs, Reward!SubmitInsert(q)
      PROVE  Rows'
  <2> DEFINE i == request[q].item
             r == [item |-> i, id |-> serial + 1, points |-> request[q].points,
                   expired |-> FALSE]
  <2>1. i \in Items /\ serial' = serial + 1 /\ serial' \in Reward!Serials
    BY <1>0, <1>2 DEF Reward!SubmitInsert, Reward!Serials
  <2>2. UNCHANGED <<desk, Reward!points>> /\ request' = [request EXCEPT ![q] = Reward!NoRequest]
    BY <1>2 DEF Reward!SubmitInsert
  <2>3. \/ rewards' = rewards
        \/ rewards' = rewards \cup {r} /\ \A x \in rewards : x.item # i
    BY <1>2 DEF Reward!SubmitInsert, Reward!Unrewarded
  <2>4. review' = [review EXCEPT ![i] = [id |-> serial', revision |-> serial',
                                         status |-> "pending", judged |-> 0]]
    BY <1>2, <2>1 DEF Reward!SubmitInsert
  <2>5. IsFiniteSet(rewards') /\ Reward!RewardedOnce'
    <3>1. CASE rewards' = rewards
      BY <3>1
    <3>2. CASE rewards' = rewards \cup {r} /\ \A x \in rewards : x.item # i
      <4>1. r.item = i
        OBVIOUS
      <4>2. Reward!RewardedOnce'
        <5> HIDE DEF r, i
        <5> QED
          BY <3>2, <4>1
      <4>3. IsFiniteSet(rewards \cup {r})
        <5> HIDE DEF r, i
        <5> QED
          BY FS_AddElement
      <4>4. QED
        BY <3>2, <4>2, <4>3
    <3>3. QED
      BY <2>3, <3>1, <3>2
  <2>6. review' \in [Items -> [id : Reward!Serials, revision : Reward!Serials, judged : Reward!Serials,
                               status : {"absent", "pending", "approved", "rejected"}]]
    BY <2>1, <2>4 DEF Reward!Serials
  <2>7. r \in [item : Items, id : Reward!Serials, points : Rewarded, expired : BOOLEAN]
    BY <2>1
  <2>8. QED
    BY <2>1, <2>2, <2>3, <2>5, <2>6, <2>7 DEF Reward!NoRequest, Reward!points
<1>3. ASSUME NEW q \in Reqs, Reward!SubmitFails(q)
      PROVE  Rows'
  BY <1>3 DEF Reward!SubmitFails, Reward!NoRequest, Reward!points
<1>4. ASSUME NEW i \in Items, Reward!Edit(i) \/ Reward!Delete(i)
      PROVE  Rows'
  <2>1. review' \in [Items -> ReviewRows] /\ serial' \in Reward!Serials
    <3>1. CASE Reward!Edit(i)
      <4>1. serial' \in Reward!Serials /\ serial' = serial + 1
        BY <1>0, <3>1 DEF Reward!Edit, Reward!Serials
      <4>2. [review[i] EXCEPT !.revision = serial', !.status = "pending"] \in ReviewRows
        <5>1. review[i] \in ReviewRows
          OBVIOUS
        <5>2. QED
          BY <4>1, <5>1
      <4>3. review' = [review EXCEPT ![i] = [review[i] EXCEPT !.revision = serial',
                                                             !.status = "pending"]]
        BY <3>1, <4>1 DEF Reward!Edit
      <4>4. QED
        BY <4>1, <4>2, <4>3
    <3>2. CASE Reward!Delete(i)
      <4>1. Reward!NoReview \in ReviewRows
        BY DEF Reward!NoReview, Reward!Serials
      <4>2. QED
        BY <3>2, <4>1 DEF Reward!Delete, Reward!Removed
    <3>3. QED
      BY <1>4, <3>1, <3>2
  <2>2. QED
    BY <1>4, <2>1 DEF Reward!Edit, Reward!Delete, Reward!points
<1>5. ASSUME NEW a \in Admins, NEW i \in Items, Reward!AdminReads(a, i)
      PROVE  Rows'
  BY <1>5 DEF Reward!AdminReads, Reward!points
<1>6. ASSUME NEW a \in Admins, NEW status \in {"pending", "approved", "rejected"},
             Reward!Judge(a, status)
      PROVE  Rows'
  BY <1>6 DEF Reward!Judge, Reward!NotRead, Reward!points, Reward!Serials
<1>7. ASSUME NEW o \in OrderIds, NEW n \in 1..MaxSpend, Reward!SpendLock(o, n)
      PROVE  Rows'
  <2> DEFINE row == [pc |-> "net", points |-> n, net |-> 0, balance |-> 0]
  <2>1. spend' = [spend EXCEPT ![o] = row] /\ row \in SpendRows
    BY <1>7 DEF Reward!SpendLock
  <2>2. /\ lock = Reward!None /\ lock' = o /\ spent[o] = 0
        /\ UNCHANGED <<Reward!reviews, rewards, spent, given>>
    BY <1>7 DEF Reward!SpendLock, Reward!RowFree
  <2>3. SpendsExclude'
    <3>1. \A p \in OrderIds : spend[p].pc = "idle"
      BY <2>2 DEF Reward!None
    <3>2. row.points >= 1
      OBVIOUS
    <3>3. QED
      BY <2>1, <2>2, <3>1, <3>2
  <2>4. QED
    BY <2>1, <2>2, <2>3 DEF Reward!reviews
<1>8. ASSUME NEW o \in OrderIds, Reward!SpendReadNet(o)
      PROVE  Rows'
  <2> DEFINE row == [spend[o] EXCEPT !.pc = "valid", !.net = Reward!Net]
  <2>1. spend' = [spend EXCEPT ![o] = row] /\ row \in SpendRows /\ row.points = spend[o].points
    BY <1>8, SumsTyped DEF Reward!SpendReadNet
  <2>2. spend[o].pc = "net" /\ UNCHANGED <<Reward!reviews, rewards, spent, given, lock>>
    BY <1>8 DEF Reward!SpendReadNet
  <2>3. SpendsExclude'
    BY <2>1, <2>2
  <2>4. QED
    BY <2>1, <2>2, <2>3 DEF Reward!reviews
<1>9. ASSUME NEW o \in OrderIds, Reward!SpendReadValid(o)
      PROVE  Rows'
  <2> DEFINE balance == Reward!Available(spend[o].net, Reward!Valid)
             row == [spend[o] EXCEPT !.pc = "commit", !.balance = balance]
  <2>1. balance \in Nat
    <3>1. spend[o].net \in Int /\ Reward!Valid \in Nat
      BY SumsTyped
    <3>2. QED
      BY <3>1 DEF Reward!Available
  <2>2. spend' = [spend EXCEPT ![o] = row] /\ row \in SpendRows /\ row.points = spend[o].points
    BY <1>9, <2>1 DEF Reward!SpendReadValid
  <2>3. spend[o].pc = "valid" /\ UNCHANGED <<Reward!reviews, rewards, spent, given, lock>>
    BY <1>9 DEF Reward!SpendReadValid
  <2>4. SpendsExclude'
    BY <2>2, <2>3
  <2>5. QED
    BY <2>2, <2>3, <2>4 DEF Reward!reviews
<1>10. ASSUME NEW o \in OrderIds, Reward!SpendCommit(o) \/ Reward!SpendRollback(o) \/ Reward!GiveBack(o)
       PROVE  Rows'
  <2>1. CASE Reward!GiveBack(o)
    BY <2>1 DEF Reward!GiveBack, Reward!reviews
  <2>2. CASE Reward!SpendCommit(o) \/ Reward!SpendRollback(o)
    <3>1. spend' = [spend EXCEPT ![o] = Reward!NoSpend] /\ lock' = Reward!None /\ lock = o
          /\ UNCHANGED <<Reward!reviews, rewards, given>>
      BY <2>2 DEF Reward!SpendCommit, Reward!SpendRollback, Reward!reviews
    <3>2. Reward!NoSpend \in SpendRows /\ Reward!NoSpend.pc = "idle"
      BY DEF Reward!NoSpend
    <3>3. \A p \in OrderIds : spend'[p].pc = "idle"
      BY <3>1, <3>2
    <3>4. spend' \in [OrderIds -> SpendRows]
      BY <3>1, <3>2
    <3>5. /\ spent' \in [OrderIds -> 0..MaxSpend]
          /\ \A p \in OrderIds : spent[p] > 0 => spent'[p] > 0
      <4>1. CASE Reward!SpendCommit(o)
        <5>1. /\ spent' = [spent EXCEPT ![o] = spend[o].points] /\ spent[o] = 0
              /\ spend[o].points \in 0..MaxSpend
          BY <4>1 DEF Reward!SpendCommit
        <5>2. QED
          BY <5>1
      <4>2. CASE Reward!SpendRollback(o)
        BY <4>2 DEF Reward!SpendRollback
      <4>3. QED
        BY <2>2, <4>1, <4>2
    <3>6. QED
      BY <3>1, <3>3, <3>4, <3>5 DEF Reward!reviews
  <2>3. QED
    BY <1>10, <2>1, <2>2
<1>11. ASSUME NEW r \in rewards, Reward!Expire(r)
       PROVE  Rows'
  <2> DEFINE late == [r EXCEPT !.expired = TRUE]
  <2>1. rewards' = (rewards \ {r}) \cup {late} /\ UNCHANGED <<Reward!reviews, Reward!points>>
    BY <1>11 DEF Reward!Expire
  <2>2. late \in [item : Items, id : Reward!Serials, points : Rewarded, expired : BOOLEAN]
        /\ late.item = r.item
    <3>1. r \in [item : Items, id : Reward!Serials, points : Rewarded, expired : BOOLEAN]
      OBVIOUS
    <3>2. QED
      BY <3>1
  <2>3. Reward!RewardedOnce'
    BY <2>1, <2>2
  <2>4. IsFiniteSet(rewards')
    BY <2>1, FS_RemoveElement, FS_AddElement
  <2>5. QED
    BY <2>1, <2>2, <2>3, <2>4 DEF Reward!reviews, Reward!points
<1>12. CASE UNCHANGED Reward!vars
  BY <1>12 DEF Reward!vars
<1> HIDE Constants DEF Rows, Reward!TypeOK, RequestsKnown, Reward!RewardedOnce, SpendsExclude,
        GivenWasSpent
<1>13. CASE Reward!Next
  BY <1>1, <1>2, <1>3, <1>4, <1>5, <1>6, <1>7, <1>8, <1>9, <1>10, <1>11, <1>13 DEF Reward!Next
<1>14. QED
  BY <1>12, <1>13

\* Only a spend lowers the sum, by what it has checked.
LEMMA NextSums ==
  ASSUME RewardsInv, Rows', [Reward!Next]_Reward!vars
  PROVE  ReadSumHolds' /\ Reward!NotOverspent'
<1> DEFINE Goal == ReadSumHolds' /\ Reward!NotOverspent'
<1>0. Rows /\ Reward!Net \in Int /\ ReadSumHolds /\ Reward!NotOverspent
  BY SumsTyped DEF RewardsInv
<1>1. ASSUME Reward!Net' >= Reward!Net, UNCHANGED spend, Reward!Net' \in Int
      PROVE  Goal
  BY <1>0, <1>1 DEF ReadSumHolds, Reward!NotOverspent, Rows, Reward!TypeOK
<1>2. ASSUME UNCHANGED <<rewards, spent, given>>
      PROVE  Reward!Net' = Reward!Net
  BY <1>2, SameTotal DEF Reward!Net, Reward!Earned, Reward!TotalSpent, Reward!TotalGiven, Reward!GivenBack
<1>3. Reward!Net' \in Int
  <2>1. \A r \in rewards' : r.points \in Nat
    BY Constants DEF Rows, Reward!TypeOK
  <2>2. Reward!Earned(rewards') \in Nat
    BY <2>1, EarnedType DEF Rows
  <2>3. \A o \in OrderIds : spent'[o] \in Nat
    BY DEF Rows, Reward!TypeOK
  <2>4. IsFiniteSet(Reward!GivenBack') /\ Reward!GivenBack' \subseteq OrderIds
    BY Constants, FS_Subset DEF Reward!GivenBack
  <2>5. Total(OrderIds, spent') \in Nat /\ Total(Reward!GivenBack', spent') \in Nat
    BY <2>3, <2>4, Constants, TotalType
  <2>6. QED
    BY <2>2, <2>5, SameTotal DEF Reward!Net, Reward!Earned, Reward!TotalSpent, Reward!TotalGiven
<1>4. ASSUME NEW q \in Reqs, Reward!SubmitInsert(q)
      PROVE  Goal
  BY <1>0, <1>1, <1>3, <1>4, NetInsert DEF Reward!SubmitInsert, Reward!points
<1>5. ASSUME NEW r \in rewards, Reward!Expire(r)
      PROVE  Goal
  BY <1>0, <1>1, <1>3, <1>5, NetExpire DEF Reward!Expire, Reward!points
<1>6. ASSUME NEW o \in OrderIds, Reward!GiveBack(o)
      PROVE  Goal
  BY <1>0, <1>1, <1>3, <1>6, NetGiveBack DEF Reward!GiveBack
<1>7. ASSUME NEW o \in OrderIds, Reward!SpendCommit(o)
      PROVE  Goal
  <2>1. Reward!Net' = Reward!Net - spend[o].points
    BY <1>0, <1>7, NetSpend
  <2>2. spend[o].points <= spend[o].net /\ spend[o].net <= Reward!Net
    BY <1>0, <1>7 DEF Reward!SpendCommit, ReadSumHolds
  <2>3. spend[o].points \in Nat /\ spend[o].net \in Int
    BY <1>0 DEF Rows, Reward!TypeOK
  <2>4. \A p \in OrderIds : spend'[p].pc = "idle"
    BY <1>0, <1>7 DEF Reward!SpendCommit, Reward!NoSpend, Rows, SpendsExclude, Reward!TypeOK
  <2>5. QED
    BY <1>0, <2>1, <2>2, <2>3, <2>4 DEF ReadSumHolds, Reward!NotOverspent
<1>8. ASSUME NEW o \in OrderIds, Reward!SpendReadValid(o)
      PROVE  Goal
  <2>1. Reward!Net' = Reward!Net
    BY <1>2, <1>8 DEF Reward!SpendReadValid, Reward!reviews
  <2>2. Reward!Available(spend[o].net, Reward!Valid) >= spend[o].points /\ spend[o].points >= 1
    BY <1>0, <1>8 DEF Reward!SpendReadValid, Rows, SpendsExclude
  <2>3. spend[o].points \in Nat /\ spend[o].net \in Int /\ Reward!Valid \in Nat
    BY <1>0, SumsTyped DEF Rows, Reward!TypeOK
  <2>4. spend[o].points <= spend[o].net
    BY <2>2, <2>3 DEF Reward!Available
  <2>5. /\ spend[o].pc = "valid"
        /\ \A p \in OrderIds : /\ spend'[p].pc = IF p = o THEN "commit" ELSE spend[p].pc
                               /\ spend'[p].net = spend[p].net
                               /\ spend'[p].points = spend[p].points
    BY <1>0, <1>8 DEF Reward!SpendReadValid, Rows, Reward!TypeOK
  <2>6. QED
    BY <1>0, <2>1, <2>4, <2>5 DEF ReadSumHolds, Reward!NotOverspent
<1>9. ASSUME NEW o \in OrderIds, Reward!SpendReadNet(o)
      PROVE  Goal
  <2>1. Reward!Net' = Reward!Net
    BY <1>2, <1>9 DEF Reward!SpendReadNet, Reward!reviews
  <2>2. \A p \in OrderIds :
          IF p = o THEN spend'[p].pc = "valid" /\ spend'[p].net = Reward!Net
                   ELSE spend'[p] = spend[p]
    BY <1>0, <1>9 DEF Reward!SpendReadNet, Rows, Reward!TypeOK
  <2>3. QED
    BY <1>0, <2>1, <2>2 DEF ReadSumHolds, Reward!NotOverspent
<1>10. ASSUME NEW o \in OrderIds, Reward!SpendRollback(o) \/ \E n \in 1..MaxSpend : Reward!SpendLock(o, n)
       PROVE  Goal
  <2>1. Reward!Net' = Reward!Net
    BY <1>2, <1>10 DEF Reward!SpendRollback, Reward!SpendLock, Reward!reviews
  <2>2. PICK row : spend' = [spend EXCEPT ![o] = row] /\ row.pc \in {"idle", "net"}
    <3>1. CASE Reward!SpendRollback(o)
      <4>1. Reward!NoSpend.pc = "idle"
        BY DEF Reward!NoSpend
      <4>2. QED
        BY <3>1, <4>1 DEF Reward!SpendRollback
    <3>2. ASSUME NEW n \in 1..MaxSpend, Reward!SpendLock(o, n)
          PROVE  \E row : spend' = [spend EXCEPT ![o] = row] /\ row.pc \in {"idle", "net"}
      <4> DEFINE row == [pc |-> "net", points |-> n, net |-> 0, balance |-> 0]
      <4>1. spend' = [spend EXCEPT ![o] = row] /\ row.pc = "net"
        BY <3>2 DEF Reward!SpendLock
      <4> HIDE DEF row
      <4>2. QED
        BY <4>1
    <3>3. QED
      BY <1>10, <3>1, <3>2
  <2>3. \A p \in OrderIds : spend'[p].pc \in {"valid", "commit"} => spend'[p] = spend[p]
    BY <1>0, <2>2 DEF Rows, Reward!TypeOK
  <2>4. QED
    BY <1>0, <2>1, <2>3 DEF ReadSumHolds, Reward!NotOverspent
<1>11. ASSUME UNCHANGED <<rewards, Reward!points>>
       PROVE  Goal
  <2>1. Reward!Net' = Reward!Net /\ UNCHANGED spend
    BY <1>2, <1>11 DEF Reward!points
  <2>2. QED
    BY <1>0, <1>1, <1>3, <2>1
<1>12. ASSUME NEW q \in Reqs,
              Reward!SubmitFails(q) \/ \E i \in Items, p \in Rewarded : Reward!SubmitCheck(q, i, p)
       PROVE  Goal
  BY <1>11, <1>12 DEF Reward!SubmitFails, Reward!SubmitCheck
<1>13. ASSUME NEW i \in Items, Reward!Edit(i) \/ Reward!Delete(i) \/ \E a \in Admins : Reward!AdminReads(a, i)
       PROVE  Goal
  BY <1>11, <1>13 DEF Reward!Edit, Reward!Delete, Reward!AdminReads
<1>14. ASSUME NEW a \in Admins, NEW status, Reward!Judge(a, status)
       PROVE  Goal
  BY <1>11, <1>14 DEF Reward!Judge
<1>15. CASE UNCHANGED Reward!vars
  BY <1>11, <1>15 DEF Reward!vars, Reward!points
<1>16. QED
  BY <1>4, <1>5, <1>6, <1>7, <1>8, <1>9, <1>10, <1>12, <1>13, <1>14, <1>15 DEF Reward!Next

LEMMA RewardsInvariance == Reward!Spec => []RewardsInv
<1>1. RewardsInv /\ [Reward!Next]_Reward!vars => RewardsInv'
  BY NextRows, NextSums DEF RewardsInv
<1>2. QED
  BY RewardsInit, <1>1, PTL DEF Reward!Spec

\* Types are kept (schema/reviews.ts, schema/loyalty.ts).
THEOREM RewardsTypeCorrect == Reward!Spec => []Reward!TypeOK
<1>1. RewardsInv => Reward!TypeOK
  BY DEF RewardsInv, Rows
<1>2. QED
  BY RewardsInvariance, <1>1, PTL

\* A purchase is rewarded once, however often its review is deleted and written
\* again or submitted twice at once (submitReview, awardPoints).
THEOREM RewardsAreUnique == Reward!Spec => []RewardedOnce
<1>1. RewardsInv => RewardedOnce
  BY DEF RewardsInv, Rows, RewardedOnce
<1>2. QED
  BY RewardsInvariance, <1>1, PTL

\* No more points are spent than were given (spendPoints).
THEOREM PointsAreCovered == Reward!Spec => []NotOverspent
<1>1. RewardsInv => NotOverspent
  BY DEF RewardsInv, NotOverspent
<1>2. QED
  BY RewardsInvariance, <1>1, PTL

-----------------------------------------------------------------------------
\* The run on both components (MCPoints) has only behaviours of each, so that
\* the theorems above are about what it checks.
THEOREM RunIsOfBoth == MCSpec => Spec /\ Reward!Spec
<1>1. MCInit => Init /\ Reward!Init
  BY DEF MCInit
<1>2. [MCNext]_<<part, vars, rewarding>> => [Next]_vars /\ [Reward!Next]_Reward!vars
  BY DEF MCNext, rewarding, Reward!vars
<1>3. QED
  BY <1>1, <1>2, PTL DEF MCSpec, Spec, Reward!Spec
=============================================================================
