---------------------------- MODULE PaymentsProofs ----------------------------
(***************************************************************************)
(* What OrderPayments promises of an order and its payments, proved for any *)
(* number of payments, of initiations in progress and any choice of         *)
(* statuses and methods; then what Refunds promises, for any number of      *)
(* refunds, transfers and admins, when admins only process and reject:      *)
(* approving a refund that another request has claimed, or settling it by   *)
(* the status 'processing', breaks two of the properties.                   *)
(***************************************************************************)
EXTENDS MCPayments, FiniteSetTheorems, SequenceTheorems, WellFoundedInduction, TLAPS

\* The rows are numbered without a gap.
Numbered == \E n \in Nat : Created = 1..n

\* Whoever names a payment names one that exists.
NamesRows ==
  /\ \A p \in Payments : gateway[p] # "none" => p \in Created
  /\ \A i \in Starters : starts[i].pc \in {"clean", "gateway"} => starts[i].payment \in Created
  /\ fallback # None => fallback \in Created
  /\ refund.payment # None => refund.payment \in Created
  /\ \A e \in outbox : /\ e.payment # None => e.payment \in Created
                       /\ e.type # "CREATE_CONSIGNMENT" => Created # {}

\* What is paid at the gateway is an online payment.
PaidOnline ==
  /\ \A p \in Payments : gateway[p] # "none" \/ pay[p].status = "completed" =>
       pay[p].method = "online"
  /\ \A i \in Starters : starts[i].pc = "gateway" => pay[starts[i].payment].method = "online"

\* InitiatedIsRetryable in terms of the numbers of the rows.
LatestIsPending ==
  order.payment = "initiated" /\ order.status # "cancelled" =>
    \E n \in Created : pay[n].status = "pending" /\ \A q \in Created : q <= n

Inv == TypeOK /\ Numbered /\ NamesRows /\ PaidOnline /\ LatestIsPending
       /\ PaidHasCompletedPayment /\ CancelledPaidIsFlagged

-----------------------------------------------------------------------------
(* Rows *)

\* The greatest member of a set of row numbers is its latest.
LEMMA LatestIs ==
  ASSUME NEW S \in SUBSET Payments, NEW n \in S, \A q \in S : q <= n
  PROVE  Latest(S) = n
<1>1. \A p \in S : (\A q \in S : q <= p) => p = n
  BY OrderPaymentsAssumption DEF Payments
<1>2. QED
  BY <1>1 DEF Latest

\* A nonempty set of rows has a latest one.
LEMMA SomeLatest ==
  ASSUME TypeOK, Numbered, Created # {}
  PROVE  Latest(Created) \in Created /\ \A q \in Created : q <= Latest(Created)
<1>1. PICK n \in Nat : Created = 1..n
  BY DEF Numbered
<1>2. n \in Created /\ \A q \in Created : q <= n
  BY <1>1
<1>3. Created \subseteq Payments
  BY DEF Created
<1>4. QED
  BY <1>2, <1>3, LatestIs

\* So does a nonempty set of pending ones.
LEMMA PendingHasLatest ==
  ASSUME Numbered, Pending # {}
  PROVE  Latest(Pending) \in Pending /\ Latest(Pending) \in Payments
<1>1. PICK m \in Nat : Created = 1..m
  BY DEF Numbered
<1>2. Pending \subseteq Payments /\ Pending \subseteq Created
  BY DEF Pending, Created
<1>3. DEFINE Above == {m - q : q \in Pending}
<1>4. \E d \in Above : \A e \in Above : d <= e
  <2>1. Above \subseteq Nat /\ Above # {}
    <3>1. \A q \in Pending : m - q \in Nat
      BY <1>1, <1>2
    <3>2. PICK q \in Pending : TRUE
      OBVIOUS
    <3>3. QED
      BY <3>1, <3>2
  <2> DEFINE Less == OpToRel(<, Nat)
  <2>2. \A d, e \in Nat : <<e, d>> \in Less <=> e < d
    BY DEF OpToRel
  <2>3. IsWellFoundedOn(Less, Nat)
    BY NatLessThanWellFounded
  <2> HIDE DEF Less
  <2>4. PICK d \in Above : \A e \in Above : ~ (<<e, d>> \in Less)
    BY <2>1, <2>3, WFMin, Zenon
  <2>5. ASSUME NEW e \in Above PROVE d <= e
    <3>1. d \in Nat /\ e \in Nat /\ ~ (e < d)
      BY <2>1, <2>2, <2>4
    <3>2. QED
      BY <3>1
  <2>6. QED
    BY <2>5
<1>5. PICK n \in Pending : \A q \in Pending : m - n <= m - q
  BY <1>4
<1>6. \A q \in Pending : q <= n
  BY <1>1, <1>2, <1>5
<1>7. QED
  BY <1>2, <1>5, <1>6, LatestIs

\* The next row follows those there are.
LEMMA FreshIsNext ==
  ASSUME Numbered
  PROVE  /\ Fresh \in Nat /\ Fresh \notin Created /\ \A q \in Created : q <= Fresh
         /\ \E n \in Nat : Created \cup {Fresh} = 1..n
<1>1. PICK n \in Nat : Created = 1..n
  BY DEF Numbered
<1>2. Fresh = n + 1
  <2>1. Cardinality(1..n) = IF 1 > n THEN 0 ELSE n - 1 + 1
    BY FS_Interval
  <2>2. QED
    BY <1>1, <2>1 DEF Fresh
<1>3. Created \cup {Fresh} = 1..(n + 1)
  BY <1>1, <1>2
<1>4. QED
  BY <1>1, <1>2, <1>3

-----------------------------------------------------------------------------
(* The initial state *)

LEMMA InitInv == Init => Inv
<1> SUFFICES ASSUME Init PROVE Inv
  OBVIOUS
<1> USE OrderPaymentsAssumption DEF Init, None
<1>1. Created = {} /\ Completed = {}
  BY DEF Created, Completed, NoPayment
<1>2. TypeOK
  BY DEF TypeOK, OrderStatuses, OrderPaymentStatuses, NoPayment, PaymentRows, Ages,
         PaymentStatuses, RefundRows, Idle
<1>3. Numbered
  <2>1. 0 \in Nat /\ 1..0 = {}
    OBVIOUS
  <2>2. QED
    BY <1>1, <2>1 DEF Numbered
<1>4. NamesRows
  BY DEF NamesRows, Idle
<1>5. PaidOnline
  BY DEF PaidOnline, Idle, NoPayment
<1>6. QED
  BY <1>2, <1>3, <1>4, <1>5
     DEF Inv, LatestIsPending, PaidHasCompletedPayment, CancelledPaidIsFlagged

-----------------------------------------------------------------------------
(* Types *)

\* A step of an initiation, and what a row and an initiation may hold.
LEMMA GotoTyped ==
  ASSUME TypeOK, NEW i \in Starters, NEW method \in {"online", "cod"},
         NEW pc \in {"idle", "clean", "create", "gateway", "codRead", "codCreate"},
         NEW p \in Payments \cup {None}, Goto(i, pc, method, p)
  PROVE  starts' \in [Starters -> [pc : {"idle", "clean", "create", "gateway", "codRead", "codCreate"},
                                  method : {"online", "cod"}, payment : Payments \cup {None}]]
BY DEF TypeOK, Goto

LEMMA IdleTyped ==
  ASSUME TypeOK, NEW i \in Starters, starts' = [starts EXCEPT ![i] = Idle]
  PROVE  starts' \in [Starters -> [pc : {"idle", "clean", "create", "gateway", "codRead", "codCreate"},
                                  method : {"online", "cod"}, payment : Payments \cup {None}]]
BY DEF TypeOK, Idle

\* Overwriting the status of a row.
LEMMA StatusTyped ==
  ASSUME TypeOK, NEW p \in Payments, NEW status \in PaymentStatuses
  PROVE  [pay EXCEPT ![p].status = status] \in [Payments -> PaymentRows]
BY DEF TypeOK, PaymentRows

LEMMA RowTyped ==
  ASSUME NEW method \in {"online", "cod"}
  PROVE  [status |-> "pending", method |-> method, age |-> "recent"] \in PaymentRows
BY DEF PaymentRows, PaymentStatuses, Ages

LEMMA EmitTyped ==
  ASSUME TypeOK, NEW condition, NEW type \in EventTypes, NEW p \in Payments \cup {None},
         EmitIf(condition, type, p)
  PROVE  outbox' \subseteq [type : EventTypes, payment : Payments \cup {None}]
BY DEF TypeOK, EmitIf, Event

\* The order of a status and a payment status.
LEMMA OrderTyped ==
  ASSUME TypeOK
  PROVE  /\ \A x \in OrderPaymentStatuses :
              [order EXCEPT !.payment = x] \in [status : OrderStatuses, payment : OrderPaymentStatuses]
         /\ \A x \in OrderStatuses :
              [order EXCEPT !.status = x] \in [status : OrderStatuses, payment : OrderPaymentStatuses]
BY DEF TypeOK

LEMMA NextTyped == Inv /\ [Next]_vars => TypeOK'
<1> SUFFICES ASSUME Inv, [Next]_vars PROVE TypeOK'
  OBVIOUS
<1>0. TypeOK /\ NamesRows /\ Created \subseteq Payments
  BY DEF Inv, Created
<1>1. ASSUME NEW i \in Starters, NEW m \in Methods, StartRead(i, m)
      PROVE TypeOK'
  <2>1. m \in {"online", "cod"} /\ FirstStep(m) \in {"create", "codRead"}
    BY OrderPaymentsAssumption DEF FirstStep
  <2>2. CASE Goto(i, FirstStep(m), m, None)
    BY <1>0, <1>1, <2>1, <2>2, GotoTyped DEF TypeOK, StartRead
  <2>3. CASE order.payment = "initiated" /\ Goto(i, "clean", m, Latest(Created))
    <3>1. Created # {}
      BY <1>1, <2>3 DEF Inv, LatestIsPending, StartRead
    <3>2. Latest(Created) \in Payments
      BY <1>0, <3>1, SomeLatest DEF Inv
    <3>3. QED
      BY <1>0, <1>1, <2>1, <2>3, <3>2, GotoTyped DEF TypeOK, StartRead
  <2>4. QED
    BY <1>1, <2>2, <2>3 DEF StartRead
<1>2. ASSUME NEW i \in Starters, StartClean(i)
      PROVE TypeOK'
  <2>1. starts[i].payment \in Payments /\ starts[i].method \in {"online", "cod"}
    BY <1>0, <1>2 DEF NamesRows, StartClean, TypeOK
  <2>2. FirstStep(starts[i].method) \in {"create", "codRead"}
    BY DEF FirstStep
  <2>3. pay' \in [Payments -> PaymentRows]
    BY <1>0, <1>2, <2>1, StatusTyped DEF StartClean, PaymentStatuses
  <2>4. order' \in [status : OrderStatuses, payment : OrderPaymentStatuses]
    BY <1>0, <1>2, OrderTyped DEF StartClean, OrderPaymentStatuses
  <2>5. starts' \in [Starters -> [pc : {"idle", "clean", "create", "gateway", "codRead", "codCreate"},
                                  method : {"online", "cod"}, payment : Payments \cup {None}]]
    BY <1>0, <1>2, <2>1, <2>2, GotoTyped DEF StartClean
  <2>6. QED
    BY <1>0, <1>2, <2>3, <2>4, <2>5 DEF TypeOK, StartClean
<1>3. ASSUME NEW i \in Starters, CodRead(i)
      PROVE TypeOK'
  BY <1>0, <1>3, GotoTyped DEF TypeOK, CodRead
<1>4. ASSUME NEW i \in Starters, CodCreate(i)
      PROVE TypeOK'
  <2>1. pay' \in [Payments -> PaymentRows]
    BY <1>0, <1>4, RowTyped DEF CodCreate, TypeOK
  <2>2. order' \in [status : OrderStatuses, payment : OrderPaymentStatuses]
    BY <1>0, <1>4, OrderTyped DEF CodCreate, OrderPaymentStatuses
  <2>3. QED
    BY <1>0, <1>4, <2>1, <2>2, IdleTyped DEF TypeOK, CodCreate
<1>5. ASSUME NEW i \in Starters, StartCreate(i)
      PROVE TypeOK'
  <2>1. pay' \in [Payments -> PaymentRows]
    <3>1. ASSUME NEW p \in Payments
          PROVE [pay[p] EXCEPT !.status = "failed"] \in PaymentRows /\ pay[p] \in PaymentRows
      BY <1>0 DEF TypeOK, PaymentRows, PaymentStatuses
    <3>2. QED
      BY <1>5, <3>1, RowTyped DEF StartCreate
  <2>2. order' \in [status : OrderStatuses, payment : OrderPaymentStatuses]
    BY <1>0, <1>5, OrderTyped DEF StartCreate, OrderPaymentStatuses
  <2>3. starts' \in [Starters -> [pc : {"idle", "clean", "create", "gateway", "codRead", "codCreate"},
                                  method : {"online", "cod"}, payment : Payments \cup {None}]]
    BY <1>0, <1>5, GotoTyped DEF StartCreate
  <2>4. QED
    BY <1>0, <1>5, <2>1, <2>2, <2>3 DEF TypeOK, StartCreate
<1>6. ASSUME NEW i \in Starters, GatewayOpens(i) \/ StartEnds(i)
      PROVE TypeOK'
  BY <1>0, <1>6, IdleTyped DEF TypeOK, GatewayOpens, StartEnds
<1>7. ASSUME NEW i \in Starters, GatewayRefuses(i)
      PROVE TypeOK'
  <2>1. starts[i].payment \in Payments
    BY <1>0, <1>7 DEF NamesRows, GatewayRefuses
  <2>2. pay' \in [Payments -> PaymentRows]
    BY <1>0, <1>7, <2>1, StatusTyped DEF GatewayRefuses, PaymentStatuses
  <2>3. order' \in [status : OrderStatuses, payment : OrderPaymentStatuses]
    BY <1>0, <1>7, OrderTyped DEF GatewayRefuses, OrderPaymentStatuses
  <2>4. QED
    BY <1>0, <1>7, <2>2, <2>3, IdleTyped DEF TypeOK, GatewayRefuses
<1>8. ASSUME NEW p \in Payments, CustomerActs(p, "paid") \/ CustomerActs(p, "declined")
      PROVE TypeOK'
  BY <1>0, <1>8 DEF TypeOK, CustomerActs
<1>9. ASSUME NEW p \in Payments, PaymentSucceeds(p)
      PROVE TypeOK'
  <2>1. pay' \in [Payments -> PaymentRows]
    BY <1>0, <1>9, StatusTyped DEF PaymentSucceeds, PaymentStatuses
  <2>2. order' \in [status : OrderStatuses, payment : OrderPaymentStatuses]
    BY <1>9 DEF PaymentSucceeds, StatusAfterSuccess, OrderStatuses, OrderPaymentStatuses
  <2>3. outbox' \subseteq [type : EventTypes, payment : Payments \cup {None}]
    BY <1>0, <1>9, EmitTyped DEF PaymentSucceeds, EventTypes
  <2>4. QED
    BY <1>0, <1>9, <2>1, <2>2, <2>3 DEF TypeOK, PaymentSucceeds
<1>10. ASSUME NEW p \in Payments, MarkFailed(p), fallback' \in {fallback, None}
       PROVE TypeOK'
  <2>1. pay' \in [Payments -> PaymentRows]
    BY <1>0, <1>10, StatusTyped DEF MarkFailed, PaymentStatuses
  <2>2. PaymentAfterFailure \in OrderPaymentStatuses
    BY <1>0 DEF PaymentAfterFailure, TypeOK, OrderPaymentStatuses
  <2>3. order' \in [status : OrderStatuses, payment : OrderPaymentStatuses]
    BY <1>0, <1>10, <2>2, OrderTyped DEF MarkFailed
  <2>4. QED
    BY <1>0, <1>10, <2>1, <2>3 DEF TypeOK, MarkFailed
<1>11. ASSUME NEW p \in Payments, PaymentAges(p)
       PROVE TypeOK'
  <2>1. NextAge[pay[p].age] \in Ages
    BY <1>0 DEF NextAge, Ages, TypeOK, PaymentRows
  <2>2. pay' \in [Payments -> PaymentRows]
    BY <1>0, <1>11, <2>1 DEF PaymentAges, TypeOK, PaymentRows
  <2>3. QED
    BY <1>0, <1>11, <2>2 DEF TypeOK, PaymentAges
<1>12. CASE FallbackRead
  <2>1. Pending \subseteq Created
    BY DEF Pending, Created
  <2>2. Latest(Pending) \in Payments
    BY <1>0, <1>12, PendingHasLatest DEF FallbackRead, Inv
  <2>3. QED
    BY <1>0, <1>12, <2>2 DEF TypeOK, FallbackRead
<1>13. CASE FallbackIgnored
  BY <1>0, <1>13 DEF TypeOK, FallbackIgnored
<1>14. ASSUME CancelOrder, expiring' \in BOOLEAN
       PROVE TypeOK'
  <2>1. pay' \in [Payments -> PaymentRows]
    <3>1. ASSUME NEW p \in Payments
          PROVE [pay[p] EXCEPT !.status = "failed"] \in PaymentRows /\ pay[p] \in PaymentRows
      BY <1>0 DEF TypeOK, PaymentRows, PaymentStatuses
    <3>2. QED
      BY <1>14, <3>1 DEF CancelOrder
  <2>2. order' \in [status : OrderStatuses, payment : OrderPaymentStatuses]
    BY <1>0, <1>14, OrderTyped DEF CancelOrder, OrderStatuses
  <2>3. outbox' \subseteq [type : EventTypes, payment : Payments \cup {None}]
    BY <1>0, <1>14, EmitTyped DEF CancelOrder, EventTypes
  <2>4. QED
    BY <1>0, <1>14, <2>1, <2>2, <2>3 DEF TypeOK, CancelOrder
<1>15. CASE ExpirySelect \/ ExpireRefused
  BY <1>0, <1>15 DEF TypeOK, ExpirySelect, ExpireRefused
<1>16. ASSUME NEW s \in AdminStatuses, UpdateOrderStatus(s)
       PROVE TypeOK'
  <2>1. order' \in [status : OrderStatuses, payment : OrderPaymentStatuses]
    BY <1>0, <1>16, OrderTyped, OrderPaymentsAssumption DEF UpdateOrderStatus
  <2>2. outbox' \subseteq [type : EventTypes, payment : Payments \cup {None}]
    BY <1>0, <1>16, EmitTyped DEF UpdateOrderStatus, EventTypes
  <2>3. QED
    BY <1>0, <1>16, <2>1, <2>2 DEF TypeOK, UpdateOrderStatus
<1>17. ASSUME NEW p \in Payments \cup {None}, RequestRefund(p)
       PROVE TypeOK'
  BY <1>0, <1>17 DEF TypeOK, RequestRefund, RefundRows
<1>18. ASSUME NEW p \in Payments \cup {None}, NEW type \in EventTypes, RefundFromEvent(type, p)
       PROVE TypeOK'
  <2>1. Created # {}
    BY <1>0, <1>18 DEF NamesRows, RefundFromEvent, Event
  <2>2. (IF p = None THEN Latest(Created) ELSE p) \in Payments
    BY <1>0, <2>1, SomeLatest DEF Inv
  <2>3. QED
    BY <1>0, <1>18, <2>2 DEF TypeOK, RefundFromEvent, RefundRows
<1>19. CASE RefundSettles
  <2>1. pay' \in [Payments -> PaymentRows]
    <3>1. ASSUME NEW p \in Payments
          PROVE [pay[p] EXCEPT !.status = "refunded"] \in PaymentRows /\ pay[p] \in PaymentRows
      BY <1>0 DEF TypeOK, PaymentRows, PaymentStatuses
    <3>2. QED
      BY <1>19, <3>1 DEF RefundSettles
  <2>2. refund' \in RefundRows
    BY <1>0, <1>19 DEF TypeOK, RefundSettles, RefundRows
  <2>3. order' \in [status : OrderStatuses, payment : OrderPaymentStatuses]
    BY <1>19 DEF RefundSettles, OrderStatuses, OrderPaymentStatuses
  <2>4. QED
    BY <1>0, <1>19, <2>1, <2>2, <2>3 DEF TypeOK, RefundSettles
<1>20. CASE UNCHANGED vars
  BY <1>0, <1>20 DEF TypeOK, vars
<1>21. CASE \E p \in Payments : PaymentFails(p)
  BY <1>10, <1>21 DEF PaymentFails
<1>22. CASE FallbackFails
  <2>1. fallback \in Payments
    BY <1>0, <1>22 DEF FallbackFails, TypeOK
  <2>2. QED
    BY <1>10, <1>22, <2>1 DEF FallbackFails
<1>23. CASE Cancel
  <2>1. expiring' \in BOOLEAN
    BY <1>0, <1>23 DEF Cancel, TypeOK
  <2>2. QED
    BY <1>14, <1>23, <2>1 DEF Cancel
<1>24. CASE ExpireOrder
  <2>1. expiring' \in BOOLEAN
    BY <1>24 DEF ExpireOrder
  <2>2. QED
    BY <1>14, <1>24, <2>1 DEF ExpireOrder
<1>25. QED
  BY <1>1, <1>2, <1>3, <1>4, <1>5, <1>6, <1>7, <1>8, <1>9, <1>11, <1>12, <1>13,
     <1>15, <1>16, <1>17, <1>18, <1>19, <1>20, <1>21, <1>22, <1>23, <1>24 DEF Next

-----------------------------------------------------------------------------
(* What a step does to the rows *)

\* A callback that reports a failure never finds a completed payment.
Failure(p) == MarkFailed(p) /\ p \in Created /\ pay[p].status # "completed"

\* The steps that write the order, its payments or its events.
Writes ==
  \/ \E i \in Starters : StartClean(i) \/ CodCreate(i) \/ StartCreate(i) \/ GatewayRefuses(i)
  \/ \E p \in Payments : PaymentSucceeds(p) \/ Failure(p) \/ PaymentAges(p)
  \/ CancelOrder
  \/ \E s \in AdminStatuses : UpdateOrderStatus(s)
  \/ RefundSettles

LEMMA NextWrites == Inv /\ [Next]_vars => UNCHANGED <<order, pay, outbox>> \/ Writes
<1> SUFFICES ASSUME Inv, [Next]_vars PROVE UNCHANGED <<order, pay, outbox>> \/ Writes
  OBVIOUS
<1>1. ASSUME NEW p \in Payments, PaymentFails(p)
      PROVE Failure(p)
  BY <1>1 DEF Failure, PaymentFails, Inv, NamesRows
<1>2. ASSUME FallbackFails
      PROVE Failure(fallback) /\ fallback \in Payments
  <2>1. fallback \in Created /\ fallback \in Payments
    BY <1>2 DEF FallbackFails, Inv, NamesRows, TypeOK
  <2>2. pay[fallback].status # "completed"
    BY <1>2, <2>1 DEF FallbackFails, Inv, PaidOnline
  <2>3. QED
    BY <1>2, <2>1, <2>2 DEF Failure, FallbackFails
<1>3. CASE UNCHANGED vars
  BY <1>3 DEF vars
<1>4. CASE \E i \in Starters :
             \/ \E m \in Methods : StartRead(i, m)
             \/ StartClean(i) \/ CodRead(i) \/ CodCreate(i) \/ StartCreate(i)
             \/ GatewayOpens(i) \/ GatewayRefuses(i) \/ StartEnds(i)
  BY <1>4 DEF Writes, StartRead, CodRead, GatewayOpens, StartEnds
<1>5. CASE \E p \in Payments :
             \/ CustomerActs(p, "paid") \/ CustomerActs(p, "declined")
             \/ PaymentSucceeds(p) \/ PaymentFails(p) \/ PaymentAges(p)
  BY <1>1, <1>5 DEF Writes, CustomerActs
<1>6. CASE FallbackRead \/ FallbackFails \/ FallbackIgnored
  BY <1>2, <1>6 DEF Writes, FallbackRead, FallbackIgnored
<1>7. CASE Cancel \/ ExpirySelect \/ ExpireOrder \/ ExpireRefused
  BY <1>7 DEF Writes, Cancel, ExpirySelect, ExpireOrder, ExpireRefused
<1>8. CASE \E p \in Payments \cup {None} :
             \/ RequestRefund(p)
             \/ \E type \in EventTypes : RefundFromEvent(type, p)
  BY <1>8 DEF RequestRefund, RefundFromEvent
<1>9. CASE (\E s \in AdminStatuses : UpdateOrderStatus(s)) \/ RefundSettles
  BY <1>9 DEF Writes
<1>10. QED
  BY <1>3, <1>4, <1>5, <1>6, <1>7, <1>8, <1>9 DEF Next

\* Rows are neither added nor removed, and keep their method.
Kept(p) == /\ pay'[p].status = "none" <=> pay[p].status = "none"
           /\ pay'[p].method = pay[p].method

RowsKept == \A p \in Payments : Kept(p)

\* One row follows those there are, and the order waits for it.
RowAdded ==
  /\ Fresh \in Payments /\ pay'[Fresh].status = "pending"
  /\ \A p \in Payments \ {Fresh} : Kept(p)

LEMMA NextRows == Inv /\ Writes => RowsKept \/ RowAdded
<1> SUFFICES ASSUME Inv, Writes PROVE RowsKept \/ RowAdded
  OBVIOUS
<1>0. TypeOK /\ NamesRows /\ Fresh \notin Created
  BY FreshIsNext DEF Inv
<1>1. ASSUME NEW p \in Created, NEW status \in {"failed", "completed"},
             pay' = [pay EXCEPT ![p].status = status]
      PROVE RowsKept
  BY <1>0, <1>1 DEF RowsKept, Kept, Created, TypeOK, PaymentRows
<1>2. ASSUME NEW i \in Starters, StartClean(i) \/ GatewayRefuses(i)
      PROVE RowsKept
  BY <1>0, <1>1, <1>2 DEF StartClean, GatewayRefuses, NamesRows
<1>3. ASSUME NEW p \in Payments, PaymentSucceeds(p) \/ Failure(p)
      PROVE RowsKept
  <2>1. p \in Created
    BY <1>0, <1>3 DEF PaymentSucceeds, Failure, NamesRows
  <2>2. QED
    BY <1>1, <1>3, <2>1 DEF PaymentSucceeds, Failure, MarkFailed
<1>4. ASSUME NEW i \in Starters, CodCreate(i)
      PROVE RowAdded
  BY <1>0, <1>4 DEF CodCreate, RowAdded, Kept, TypeOK
<1>5. ASSUME NEW i \in Starters, StartCreate(i)
      PROVE RowAdded
  <2>1. ASSUME NEW p \in Superseded
        PROVE pay[p].status = "pending"
    <3>1. Latest(Pending) \in Pending
      BY <2>1, PendingHasLatest DEF Superseded, Inv
    <3>2. QED
      BY <2>1, <3>1 DEF Superseded, Pending
  <2>2. Fresh \in Payments /\ pay'[Fresh].status = "pending"
    BY <1>5 DEF StartCreate
  <2>3. ASSUME NEW p \in Payments \ {Fresh}
        PROVE Kept(p)
    <3>1. pay[p] \in PaymentRows
      BY <1>0 DEF TypeOK
    <3>2. CASE p \in Superseded
      BY <1>5, <2>1, <3>1, <3>2 DEF StartCreate, Kept, PaymentRows
    <3>3. CASE p \notin Superseded
      BY <1>5, <3>3 DEF StartCreate, Kept
    <3>4. QED
      BY <3>2, <3>3
  <2>4. QED
    BY <2>2, <2>3 DEF RowAdded
<1>6. ASSUME NEW p \in Payments, PaymentAges(p)
      PROVE RowsKept
  BY <1>0, <1>6 DEF PaymentAges, RowsKept, Kept, TypeOK, PaymentRows
<1>7. ASSUME CancelOrder
      PROVE RowsKept
  BY <1>0, <1>7 DEF CancelOrder, FailedByCancel, Pending, RowsKept, Kept, TypeOK, PaymentRows
<1>8. ASSUME NEW s \in AdminStatuses, UpdateOrderStatus(s)
      PROVE RowsKept
  BY <1>8 DEF UpdateOrderStatus, RowsKept, Kept
<1>9. ASSUME RefundSettles
      PROVE RowsKept
  <2>1. refund.payment # None => refund.payment \in Created
    BY <1>0 DEF NamesRows
  <2>2. \A p \in Payments : p # None
    BY OrderPaymentsAssumption DEF Payments, None
  <2>3. \A p \in Payments : p = refund.payment => pay[p].status # "none"
    BY <2>1, <2>2 DEF Created
  <2>4. QED
    BY <1>0, <1>9, <2>3 DEF RefundSettles, RowsKept, Kept, TypeOK, PaymentRows
<1>10. QED
  BY <1>2, <1>3, <1>4, <1>5, <1>6, <1>7, <1>8, <1>9 DEF Writes

LEMMA CreatedGrows ==
  ASSUME RowsKept \/ RowAdded
  PROVE  /\ RowsKept => Created' = Created
         /\ RowAdded => Created' = Created \cup {Fresh}
BY DEF RowsKept, RowAdded, Kept, Created

LEMMA NextNumbered == Inv /\ [Next]_vars => Numbered' /\ Created \subseteq Created'
<1> SUFFICES ASSUME Inv, [Next]_vars PROVE Numbered' /\ Created \subseteq Created'
  OBVIOUS
<1>1. CASE UNCHANGED <<order, pay, outbox>>
  BY <1>1 DEF Inv, Numbered, Created
<1>2. CASE RowsKept
  <2>1. Created' = Created
    BY <1>2, CreatedGrows
  <2>2. QED
    BY <2>1 DEF Inv, Numbered
<1>3. CASE RowAdded
  <2>1. Created' = Created \cup {Fresh}
    BY <1>3, CreatedGrows
  <2>2. \E n \in Nat : Created \cup {Fresh} = 1..n
    BY FreshIsNext DEF Inv
  <2>3. QED
    BY <2>1, <2>2 DEF Numbered
<1>4. QED
  BY <1>1, <1>2, <1>3, NextWrites, NextRows

-----------------------------------------------------------------------------
(* What a step does to whoever names a row *)

LEMMA NextNames == Inv /\ [Next]_vars => NamesRows'
<1> SUFFICES ASSUME Inv, [Next]_vars PROVE NamesRows'
  OBVIOUS
<1>0. TypeOK /\ NamesRows /\ Created \subseteq Created' /\ Created \subseteq Payments
  BY NextNumbered DEF Inv, Created
<1> USE DEF None
<1>1. ASSUME NEW p \in Payments, gateway'[p] # "none"
      PROVE p \in Created'
  <2>1. \/ gateway' = gateway
        \/ \E i \in Starters : GatewayOpens(i)
        \/ \E q \in Payments : CustomerActs(q, "paid") \/ CustomerActs(q, "declined")
    BY DEF Next, vars, StartRead, StartClean, CodRead, CodCreate, StartCreate, GatewayRefuses,
           StartEnds, PaymentSucceeds, PaymentFails, PaymentAges, MarkFailed, FallbackRead,
           FallbackFails, FallbackIgnored, Cancel, CancelOrder, ExpirySelect, ExpireOrder,
           ExpireRefused, UpdateOrderStatus, RequestRefund, RefundFromEvent, RefundSettles
  <2>2. CASE gateway' = gateway
    BY <1>0, <1>1, <2>2 DEF NamesRows
  <2>3. ASSUME NEW i \in Starters, GatewayOpens(i)
        PROVE p \in Created'
    <3>1. starts[i].payment \in Created /\ gateway' = [gateway EXCEPT ![starts[i].payment] = "open"]
      BY <1>0, <2>3 DEF NamesRows, GatewayOpens
    <3>2. QED
      BY <1>0, <1>1, <3>1 DEF NamesRows, TypeOK
  <2>4. ASSUME NEW q \in Payments, CustomerActs(q, "paid") \/ CustomerActs(q, "declined")
        PROVE p \in Created'
    BY <1>0, <1>1, <2>4 DEF NamesRows, CustomerActs, TypeOK
  <2>5. QED
    BY <2>1, <2>2, <2>3, <2>4
<1>2. ASSUME NEW i \in Starters, starts'[i].pc \in {"clean", "gateway"}
      PROVE starts'[i].payment \in Created'
  <2>1. \/ starts' = starts
        \/ \E j \in Starters :
             \/ \E m \in Methods : StartRead(j, m)
             \/ StartClean(j) \/ CodRead(j) \/ CodCreate(j) \/ StartCreate(j)
             \/ GatewayOpens(j) \/ GatewayRefuses(j) \/ StartEnds(j)
    BY DEF Next, vars, CustomerActs, PaymentSucceeds, PaymentFails, PaymentAges, MarkFailed,
           FallbackRead, FallbackFails, FallbackIgnored, Cancel, CancelOrder, ExpirySelect,
           ExpireOrder, ExpireRefused, UpdateOrderStatus, RequestRefund, RefundFromEvent,
           RefundSettles
  <2>2. CASE starts' = starts
    BY <1>0, <1>2, <2>2 DEF NamesRows
  <2>3. ASSUME NEW j \in Starters, NEW m \in Methods, StartRead(j, m)
        PROVE starts'[i].payment \in Created'
    <3>1. FirstStep(m) \notin {"clean", "gateway"}
      BY DEF FirstStep
    <3>2. order.payment = "initiated" => Latest(Created) \in Created
      <4>1. order.payment = "initiated" => Created # {}
        BY <2>3 DEF Inv, LatestIsPending, StartRead
      <4>2. QED
        BY <4>1, SomeLatest DEF Inv
    <3>3. QED
      BY <1>0, <1>2, <2>3, <3>1, <3>2 DEF StartRead, Goto, NamesRows, TypeOK
  <2>4. ASSUME NEW j \in Starters, StartCreate(j)
        PROVE starts'[i].payment \in Created'
    <3>1. Fresh \in Created'
      BY <2>4 DEF StartCreate, Created
    <3>2. QED
      BY <1>0, <1>2, <2>4, <3>1 DEF StartCreate, Goto, NamesRows, TypeOK
  <2>5. ASSUME NEW j \in Starters, StartClean(j) \/ CodRead(j)
        PROVE starts'[i].payment \in Created'
    <3>1. FirstStep(starts[j].method) \notin {"clean", "gateway"}
      BY DEF FirstStep
    <3>2. QED
      BY <1>0, <1>2, <2>5, <3>1 DEF StartClean, CodRead, Goto, NamesRows, TypeOK
  <2>6. ASSUME NEW j \in Starters, CodCreate(j) \/ GatewayOpens(j) \/ GatewayRefuses(j) \/ StartEnds(j)
        PROVE starts'[i].payment \in Created'
    <3>1. starts' = [starts EXCEPT ![j] = Idle]
      BY <2>6 DEF CodCreate, GatewayOpens, GatewayRefuses, StartEnds
    <3>2. QED
      BY <1>0, <1>2, <3>1 DEF Idle, NamesRows, TypeOK
  <2>7. QED
    BY <2>1, <2>2, <2>3, <2>4, <2>5, <2>6
<1>3. fallback' # None => fallback' \in Created'
  <2>1. fallback' = fallback \/ fallback' = None \/ FallbackRead
    BY DEF Next, vars, StartRead, StartClean, CodRead, CodCreate, StartCreate, GatewayOpens,
           GatewayRefuses, StartEnds, CustomerActs, PaymentSucceeds, PaymentFails, PaymentAges,
           FallbackFails, FallbackIgnored, Cancel, CancelOrder, ExpirySelect, ExpireOrder,
           ExpireRefused, UpdateOrderStatus, RequestRefund, RefundFromEvent, RefundSettles
  <2>2. CASE FallbackRead
    <3>1. Latest(Pending) \in Pending
      BY <2>2, PendingHasLatest DEF FallbackRead, Inv
    <3>2. QED
      BY <1>0, <2>2, <3>1 DEF FallbackRead, Pending, Created
  <2>3. QED
    BY <1>0, <2>1, <2>2 DEF NamesRows
<1>4. refund'.payment # None => refund'.payment \in Created'
  <2>1. \/ refund' = refund \/ RefundSettles
        \/ \E p \in Payments \cup {None} :
             RequestRefund(p) \/ \E type \in EventTypes : RefundFromEvent(type, p)
    BY DEF Next, vars, StartRead, StartClean, CodRead, CodCreate, StartCreate, GatewayOpens,
           GatewayRefuses, StartEnds, CustomerActs, PaymentSucceeds, PaymentFails, PaymentAges,
           MarkFailed, FallbackRead, FallbackFails, FallbackIgnored, Cancel, CancelOrder,
           ExpirySelect, ExpireOrder, ExpireRefused, UpdateOrderStatus
  <2>2. CASE refund' = refund \/ RefundSettles
    BY <1>0, <2>2 DEF NamesRows, RefundSettles, TypeOK, RefundRows
  <2>3. ASSUME NEW p \in Payments \cup {None}, RequestRefund(p)
        PROVE refund'.payment # None => refund'.payment \in Created'
    BY <1>0, <2>3 DEF RequestRefund, Completed, Created
  <2>4. ASSUME NEW p \in Payments \cup {None}, NEW type \in EventTypes, RefundFromEvent(type, p)
        PROVE refund'.payment # None => refund'.payment \in Created'
    <3>1. Created # {} /\ (p # None => p \in Created)
      BY <1>0, <2>4 DEF NamesRows, RefundFromEvent, Event
    <3>2. Latest(Created) \in Created
      BY <1>0, <3>1, SomeLatest DEF Inv
    <3>3. QED
      BY <1>0, <2>4, <3>1, <3>2 DEF RefundFromEvent
  <2>5. QED
    BY <2>1, <2>2, <2>3, <2>4
<1>5. ASSUME NEW e \in outbox'
      PROVE /\ e.payment # None => e.payment \in Created'
            /\ e.type # "CREATE_CONSIGNMENT" => Created' # {}
  <2>1. CASE e \in outbox
    BY <1>0, <2>1 DEF NamesRows
  <2>2. CASE e \notin outbox
    <3>1. Writes
      BY <2>2, NextWrites
    <3>2. ASSUME NEW p \in Payments, PaymentSucceeds(p)
          PROVE e.payment \in Created
      BY <1>0, <2>2, <3>2 DEF PaymentSucceeds, EmitIf, Event, NamesRows
    <3>3. ASSUME CancelOrder
          PROVE e.payment = None /\ Created # {}
      <4>1. order.payment = "paid" /\ e = Event("REFUND_REQUIRED", None)
        BY <2>2, <3>3 DEF CancelOrder, EmitIf
      <4>2. Completed # {} /\ Completed \subseteq Created
        BY <4>1 DEF Inv, PaidHasCompletedPayment, Completed, Created
      <4>3. QED
        BY <4>1, <4>2 DEF Event
    <3>4. ASSUME NEW s \in AdminStatuses, UpdateOrderStatus(s)
          PROVE e.payment = None /\ e.type = "CREATE_CONSIGNMENT"
      BY <2>2, <3>4 DEF UpdateOrderStatus, EmitIf, Event
    <3>5. \/ \E p \in Payments : PaymentSucceeds(p)
          \/ CancelOrder
          \/ \E s \in AdminStatuses : UpdateOrderStatus(s)
      BY <2>2, <3>1 DEF Writes, StartClean, CodCreate, StartCreate, GatewayRefuses, Failure,
                        MarkFailed, PaymentAges, RefundSettles
    <3>6. QED
      BY <1>0, <3>2, <3>3, <3>4, <3>5
  <2>3. QED
    BY <2>1, <2>2
<1>6. QED
  BY <1>1, <1>2, <1>3, <1>4, <1>5 DEF NamesRows

-----------------------------------------------------------------------------
(* What a step does to the order and to completed payments *)

\* Only a payment that the gateway has been paid for completes, and no step but
\* one that takes the order out of "paid" undoes a completion.
LEMMA NextCompleted ==
  ASSUME Inv, Writes, NEW p \in Payments
  PROVE  /\ pay'[p].status = "completed" => pay[p].status = "completed" \/ gateway[p] # "none"
         /\ pay[p].status = "completed" /\ order'.payment = "paid" => pay'[p].status = "completed"
<1>0. TypeOK /\ NamesRows /\ Fresh \notin Created /\ pay[p] \in PaymentRows
  BY FreshIsNext DEF Inv, TypeOK
<1> DEFINE Good == /\ pay'[p].status = "completed" => pay[p].status = "completed" \/ gateway[p] # "none"
                   /\ pay[p].status = "completed" /\ order'.payment = "paid" => pay'[p].status = "completed"
<1>1. ASSUME NEW i \in Starters, StartClean(i) \/ GatewayRefuses(i)
      PROVE Good
  <2>1. /\ pay' = [pay EXCEPT ![starts[i].payment].status = "failed"]
        /\ order' = [order EXCEPT !.payment = "unpaid"]
    BY <1>1 DEF StartClean, GatewayRefuses
  <2>2. order'.payment = "unpaid" /\ pay'[p].status \in {"failed", pay[p].status}
    BY <1>0, <2>1 DEF TypeOK, PaymentRows
  <2>3. QED
    BY <2>2
<1>2. ASSUME NEW i \in Starters, CodCreate(i)
      PROVE Good
  BY <1>0, <1>2 DEF CodCreate, TypeOK
<1>3. ASSUME NEW i \in Starters, StartCreate(i)
      PROVE Good
  <2>1. order'.payment = "initiated"
    BY <1>0, <1>3 DEF StartCreate, TypeOK
  <2>2. pay'[p].status = "completed" => pay[p].status = "completed"
    BY <1>0, <1>3 DEF StartCreate, PaymentRows
  <2>3. QED
    BY <2>1, <2>2
<1>4. ASSUME NEW q \in Payments, PaymentSucceeds(q)
      PROVE Good
  BY <1>0, <1>4 DEF PaymentSucceeds, TypeOK, PaymentRows
<1>5. ASSUME NEW q \in Payments, Failure(q)
      PROVE Good
  BY <1>0, <1>5 DEF Failure, MarkFailed, TypeOK, PaymentRows
<1>6. ASSUME NEW q \in Payments, PaymentAges(q)
      PROVE Good
  BY <1>0, <1>6 DEF PaymentAges, TypeOK, PaymentRows
<1>7. ASSUME CancelOrder
      PROVE Good
  BY <1>0, <1>7 DEF CancelOrder, FailedByCancel, Pending, PaymentRows
<1>8. ASSUME NEW s \in AdminStatuses, UpdateOrderStatus(s)
      PROVE Good
  BY <1>8 DEF UpdateOrderStatus
<1>9. ASSUME RefundSettles
      PROVE Good
  BY <1>0, <1>9 DEF RefundSettles, PaymentRows
<1>10. QED
  BY <1>1, <1>2, <1>3, <1>4, <1>5, <1>6, <1>7, <1>8, <1>9 DEF Writes

LEMMA NextOnline == Inv /\ [Next]_vars => PaidOnline'
<1> SUFFICES ASSUME Inv, [Next]_vars PROVE PaidOnline'
  OBVIOUS
<1>0. TypeOK /\ NamesRows /\ PaidOnline /\ Fresh \notin Created /\ Created \subseteq Payments
  BY FreshIsNext DEF Inv, Created
\* A row that there was keeps its method.
<1>1. \A p \in Created : pay'[p].method = pay[p].method
  BY <1>0, NextWrites, NextRows DEF RowsKept, RowAdded, Kept
<1>2. ASSUME NEW p \in Payments, gateway'[p] # "none" \/ pay'[p].status = "completed"
      PROVE pay'[p].method = "online"
  <2>1. CASE p \in Created /\ (gateway[p] # "none" \/ pay[p].status = "completed")
    BY <1>0, <1>1, <2>1 DEF PaidOnline
  <2>2. ASSUME NEW i \in Starters, GatewayOpens(i), p = starts[i].payment
        PROVE pay'[p].method = "online"
    BY <1>0, <1>1, <2>2 DEF PaidOnline, NamesRows, GatewayOpens
  <2>3. gateway'[p] # "none" =>
          gateway[p] # "none" \/ \E i \in Starters : GatewayOpens(i) /\ p = starts[i].payment
    <3>1. \/ gateway' = gateway
          \/ \E i \in Starters : GatewayOpens(i)
          \/ \E q \in Payments : CustomerActs(q, "paid") \/ CustomerActs(q, "declined")
      BY DEF Next, vars, StartRead, StartClean, CodRead, CodCreate, StartCreate, GatewayRefuses,
             StartEnds, PaymentSucceeds, PaymentFails, PaymentAges, MarkFailed, FallbackRead,
             FallbackFails, FallbackIgnored, Cancel, CancelOrder, ExpirySelect, ExpireOrder,
             ExpireRefused, UpdateOrderStatus, RequestRefund, RefundFromEvent, RefundSettles
    <3>2. QED
      BY <1>0, <3>1 DEF GatewayOpens, CustomerActs, TypeOK
  <2>4. pay'[p].status = "completed" => pay[p].status = "completed" \/ gateway[p] # "none"
    BY NextWrites, NextCompleted
  <2>5. gateway[p] # "none" \/ pay[p].status = "completed" => p \in Created
    BY <1>0 DEF NamesRows, Created
  <2>6. QED
    BY <1>2, <2>1, <2>2, <2>3, <2>4, <2>5
<1>3. ASSUME NEW i \in Starters, starts'[i].pc = "gateway"
      PROVE pay'[starts'[i].payment].method = "online"
  <2>1. CASE starts[i].pc = "gateway" /\ starts'[i] = starts[i]
    BY <1>0, <1>1, <2>1 DEF PaidOnline, NamesRows
  <2>2. ASSUME NEW j \in Starters, StartCreate(j), starts'[i].payment = Fresh
        PROVE pay'[starts'[i].payment].method = "online"
    BY <2>2 DEF StartCreate
  <2>3. \/ starts[i].pc = "gateway" /\ starts'[i] = starts[i]
        \/ \E j \in Starters : StartCreate(j) /\ starts'[i].payment = Fresh
    <3>1. \/ starts' = starts
          \/ \E j \in Starters :
               \/ \E m \in Methods : StartRead(j, m)
               \/ StartClean(j) \/ CodRead(j) \/ CodCreate(j) \/ StartCreate(j)
               \/ GatewayOpens(j) \/ GatewayRefuses(j) \/ StartEnds(j)
      BY DEF Next, vars, CustomerActs, PaymentSucceeds, PaymentFails, PaymentAges, MarkFailed,
             FallbackRead, FallbackFails, FallbackIgnored, Cancel, CancelOrder, ExpirySelect,
             ExpireOrder, ExpireRefused, UpdateOrderStatus, RequestRefund, RefundFromEvent,
             RefundSettles
    <3>2. ASSUME NEW j \in Starters, NEW pc, NEW m, NEW p, Goto(j, pc, m, p), pc # "gateway"
          PROVE starts[i].pc = "gateway" /\ starts'[i] = starts[i]
      BY <1>0, <1>3, <3>2 DEF Goto, TypeOK
    <3>3. \A m : FirstStep(m) # "gateway"
      BY DEF FirstStep
    <3>4. ASSUME NEW j \in Starters,
                 \/ \E m \in Methods : StartRead(j, m)
                 \/ StartClean(j) \/ CodRead(j)
          PROVE starts[i].pc = "gateway" /\ starts'[i] = starts[i]
      BY <3>2, <3>3, <3>4 DEF StartRead, StartClean, CodRead
    <3>5. ASSUME NEW j \in Starters, CodCreate(j) \/ GatewayOpens(j) \/ GatewayRefuses(j) \/ StartEnds(j)
          PROVE starts[i].pc = "gateway" /\ starts'[i] = starts[i]
      <4>1. starts' = [starts EXCEPT ![j] = Idle]
        BY <3>5 DEF CodCreate, GatewayOpens, GatewayRefuses, StartEnds
      <4>2. QED
        BY <1>0, <1>3, <4>1 DEF Idle, TypeOK
    <3>6. ASSUME NEW j \in Starters, StartCreate(j)
          PROVE starts'[i].payment = Fresh \/ (starts[i].pc = "gateway" /\ starts'[i] = starts[i])
      BY <1>0, <1>3, <3>6 DEF StartCreate, Goto, TypeOK
    <3>7. QED
      BY <1>3, <3>1, <3>4, <3>5, <3>6
  <2>4. QED
    BY <2>1, <2>2, <2>3
<1>4. QED
  BY <1>2, <1>3 DEF PaidOnline

\* A step makes an order paid only by a success, cancelled only by a cancellation,
\* and takes no cancelled order back.
LEMMA NextOrder ==
  ASSUME Inv, Writes
  PROVE  /\ order'.payment = "paid" =>
              order.payment = "paid" \/ \E p \in Payments : PaymentSucceeds(p)
         /\ order'.status = "cancelled" => order.status = "cancelled" \/ CancelOrder
         /\ order'.status # "cancelled" /\ order'.payment = "initiated" =>
              order.status # "cancelled"
<1>0. TypeOK
  BY DEF Inv
<1> DEFINE Good == /\ order'.payment = "paid" =>
                        order.payment = "paid" \/ \E p \in Payments : PaymentSucceeds(p)
                   /\ order'.status = "cancelled" => order.status = "cancelled" \/ CancelOrder
                   /\ order'.status # "cancelled" /\ order'.payment = "initiated" =>
                        order.status # "cancelled"
<1>1. ASSUME NEW i \in Starters, StartClean(i) \/ CodCreate(i) \/ StartCreate(i) \/ GatewayRefuses(i)
      PROVE Good
  <2>1. order' = [order EXCEPT !.payment = "unpaid"] \/ order' = [order EXCEPT !.payment = "initiated"]
    BY <1>1 DEF StartClean, CodCreate, StartCreate, GatewayRefuses
  <2>2. QED
    BY <1>0, <2>1 DEF TypeOK
<1>2. ASSUME NEW p \in Payments, PaymentSucceeds(p)
      PROVE Good
  BY <1>2 DEF PaymentSucceeds, StatusAfterSuccess
<1>3. ASSUME NEW p \in Payments, Failure(p)
      PROVE Good
  <2>1. order' = [order EXCEPT !.payment = PaymentAfterFailure]
    BY <1>3 DEF Failure, MarkFailed
  <2>2. PaymentAfterFailure \in {"unpaid", order.payment}
    BY DEF PaymentAfterFailure
  <2>3. QED
    BY <1>0, <2>1, <2>2 DEF TypeOK
<1>4. ASSUME NEW p \in Payments, PaymentAges(p)
      PROVE Good
  BY <1>4 DEF PaymentAges
<1>5. ASSUME CancelOrder
      PROVE Good
  BY <1>0, <1>5 DEF CancelOrder, TypeOK
<1>6. ASSUME NEW s \in AdminStatuses, UpdateOrderStatus(s)
      PROVE Good
  <2>1. order' = [order EXCEPT !.status = s] /\ s # "cancelled"
        /\ s \in ORDER_STATE_TRANSITIONS[order.status]
    BY <1>6 DEF UpdateOrderStatus
  <2>2. ORDER_STATE_TRANSITIONS["cancelled"] = {}
    BY DEF ORDER_STATE_TRANSITIONS, OrderStatuses
  <2>3. order'.status = s /\ order'.payment = order.payment
    BY <1>0, <2>1 DEF TypeOK
  <2>4. QED
    BY <2>1, <2>2, <2>3
<1>7. ASSUME RefundSettles
      PROVE Good
  BY <1>7 DEF RefundSettles
<1>8. QED
  BY <1>1, <1>2, <1>3, <1>4, <1>5, <1>6, <1>7 DEF Writes

LEMMA NextPaid == Inv /\ [Next]_vars => PaidHasCompletedPayment' /\ CancelledPaidIsFlagged'
<1> SUFFICES ASSUME Inv, [Next]_vars PROVE PaidHasCompletedPayment' /\ CancelledPaidIsFlagged'
  OBVIOUS
<1>0. TypeOK /\ PaidHasCompletedPayment /\ CancelledPaidIsFlagged
  BY DEF Inv
<1>1. CASE UNCHANGED <<order, pay, outbox>>
  BY <1>0, <1>1 DEF PaidHasCompletedPayment, CancelledPaidIsFlagged, Completed
<1>2. CASE Writes
  <2>1. order'.payment = "paid" =>
          order.payment = "paid" \/ \E p \in Payments : PaymentSucceeds(p)
    BY <1>2, NextOrder
  <2>2. PaidHasCompletedPayment'
    <3>1. ASSUME NEW p \in Payments, PaymentSucceeds(p)
          PROVE p \in Completed'
      BY <1>0, <3>1 DEF PaymentSucceeds, Completed, TypeOK
    <3>2. ASSUME order'.payment = "paid", order.payment = "paid"
          PROVE Completed' # {}
      <4>1. PICK p \in Completed : TRUE
        BY <1>0, <3>2 DEF PaidHasCompletedPayment
      <4>2. p \in Completed'
        BY <1>2, <3>2, <4>1, NextCompleted DEF Completed
      <4>3. QED
        BY <4>2
    <3>3. QED
      BY <2>1, <3>1, <3>2 DEF PaidHasCompletedPayment
  <2>3. CancelledPaidIsFlagged'
    <3>1. ASSUME NEW p \in Payments, PaymentSucceeds(p), order'.status = "cancelled"
          PROVE Event("RECONCILIATION_REQUIRED", p) \in outbox'
      BY <3>1 DEF PaymentSucceeds, StatusAfterSuccess, EmitIf, NeedsReconciliation
    <3>2. ASSUME CancelOrder, order'.payment = "paid"
          PROVE Event("REFUND_REQUIRED", None) \in outbox'
      BY <1>0, <3>2 DEF CancelOrder, EmitIf, TypeOK
    <3>3. outbox \subseteq outbox'
      BY <1>2 DEF Writes, StartClean, CodCreate, StartCreate, GatewayRefuses, Failure, MarkFailed,
             PaymentAges, PaymentSucceeds, CancelOrder, UpdateOrderStatus, RefundSettles, EmitIf
    <3>4. order'.status = "cancelled" => order.status = "cancelled" \/ CancelOrder
      BY <1>2, NextOrder
    <3>5. QED
      BY <1>0, <2>1, <3>1, <3>2, <3>3, <3>4 DEF CancelledPaidIsFlagged, Event
  <2>4. QED
    BY <2>2, <2>3
<1>3. QED
  BY <1>1, <1>2, NextWrites

LEMMA NextLatest == Inv /\ [Next]_vars => LatestIsPending'
<1> SUFFICES ASSUME Inv, [Next]_vars, order'.payment = "initiated", order'.status # "cancelled"
             PROVE  \E n \in Created' : pay'[n].status = "pending" /\ \A q \in Created' : q <= n
  BY DEF LatestIsPending
<1>0. TypeOK /\ LatestIsPending /\ Created \subseteq Payments
  BY DEF Inv, Created
<1>1. ASSUME order = order', Created' = Created, \A p \in Created : pay'[p].status = pay[p].status
      PROVE  \E n \in Created' : pay'[n].status = "pending" /\ \A q \in Created' : q <= n
  BY <1>0, <1>1 DEF LatestIsPending
<1>2. CASE UNCHANGED <<order, pay, outbox>>
  BY <1>1, <1>2 DEF Created
<1>3. CASE RowAdded
  <2>1. Created' = Created \cup {Fresh}
    BY <1>3, CreatedGrows
  <2>2. Fresh \in Nat /\ \A q \in Created : q <= Fresh
    BY FreshIsNext DEF Inv
  <2>3. QED
    BY <1>3, <2>1, <2>2 DEF RowAdded
<1>4. CASE Writes /\ RowsKept
  <2>1. Created' = Created /\ order.status # "cancelled"
    BY <1>4, CreatedGrows, NextOrder
  <2>2. ASSUME NEW i \in Starters, StartClean(i) \/ GatewayRefuses(i)
        PROVE order'.payment = "unpaid"
    <3>1. order' = [order EXCEPT !.payment = "unpaid"]
      BY <2>2 DEF StartClean, GatewayRefuses
    <3>2. QED
      BY <1>0, <3>1 DEF TypeOK
  <2>3. ASSUME NEW i \in Starters, CodCreate(i) \/ StartCreate(i)
        PROVE FALSE
    <3>1. Fresh \in Payments /\ Fresh \notin Created
      BY <2>3, FreshIsNext DEF CodCreate, StartCreate, Inv
    <3>2. pay'[Fresh].status = "pending"
      BY <1>0, <2>3, <3>1 DEF CodCreate, StartCreate, TypeOK
    <3>3. QED
      BY <1>4, <3>1, <3>2 DEF RowsKept, Kept, Created
  <2>4. ASSUME NEW p \in Payments, PaymentSucceeds(p)
        PROVE order'.payment = "paid"
    BY <2>4 DEF PaymentSucceeds
  <2>5. ASSUME NEW p \in Payments, Failure(p)
        PROVE order'.payment \in {"unpaid", "paid"}
    <3>1. order' = [order EXCEPT !.payment = PaymentAfterFailure]
      BY <2>5 DEF Failure, MarkFailed
    <3>2. order'.payment = PaymentAfterFailure
      BY <1>0, <3>1 DEF TypeOK
    <3>3. QED
      BY <2>1, <3>2 DEF PaymentAfterFailure
  <2>6. ASSUME NEW p \in Payments, PaymentAges(p)
        PROVE \A q \in Created : order' = order /\ pay'[q].status = pay[q].status
    BY <1>0, <2>6 DEF PaymentAges, TypeOK, PaymentRows
  <2>7. ASSUME CancelOrder
        PROVE order'.status = "cancelled"
    BY <1>0, <2>7 DEF CancelOrder, TypeOK
  <2>8. ASSUME NEW s \in AdminStatuses, UpdateOrderStatus(s)
        PROVE pay' = pay /\ order'.payment = order.payment
    BY <1>0, <2>8 DEF UpdateOrderStatus, TypeOK
  <2>9. ASSUME RefundSettles
        PROVE order'.payment = "refunded"
    BY <2>9 DEF RefundSettles
  <2>10. \/ \E p \in Payments : PaymentAges(p)
         \/ \E s \in AdminStatuses : UpdateOrderStatus(s)
    BY <1>4, <2>2, <2>3, <2>4, <2>5, <2>7, <2>9 DEF Writes
  <2>11. ASSUME NEW p \in Payments, PaymentAges(p)
         PROVE  \E n \in Created' : pay'[n].status = "pending" /\ \A q \in Created' : q <= n
    <3>1. order' = order
      BY <2>11 DEF PaymentAges
    <3>2. QED
      BY <1>1, <2>1, <2>6, <2>11, <3>1
  <2>12. ASSUME NEW s \in AdminStatuses, UpdateOrderStatus(s)
         PROVE  \E n \in Created' : pay'[n].status = "pending" /\ \A q \in Created' : q <= n
    BY <1>0, <2>1, <2>8, <2>12 DEF LatestIsPending
  <2>13. QED
    BY <2>10, <2>11, <2>12
<1>5. QED
  BY <1>2, <1>3, <1>4, NextWrites, NextRows

LEMMA NextInv == Inv /\ [Next]_vars => Inv'
BY NextTyped, NextNumbered, NextNames, NextOnline, NextPaid, NextLatest DEF Inv

-----------------------------------------------------------------------------
(* The theorems *)

LEMMA Invariance == Spec => []Inv
<1>1. Init => Inv
  BY InitInv
<1>2. Inv /\ [Next]_vars => Inv'
  BY NextInv
<1>3. QED
  BY <1>1, <1>2, PTL DEF Spec

\* Every variable keeps its type: no step of a payment, a callback or a worker
\* names a row that there is not.
THEOREM TypeCorrect == Spec => []TypeOK
<1>1. Inv => TypeOK
  BY DEF Inv
<1>2. QED
  BY <1>1, Invariance, PTL

\* An order says "paid" only while a payment of it is completed, whatever
\* callbacks, clean-ups, cancellations and refunds overtake each other.
THEOREM PaidIsBacked == Spec => []PaidHasCompletedPayment
<1>1. Inv => PaidHasCompletedPayment
  BY DEF Inv
<1>2. QED
  BY <1>1, Invariance, PTL

\* Money taken for an order that is cancelled is flagged to the back office,
\* whichever of the payment and the cancellation comes first.
THEOREM CancelledMoneyIsFlagged == Spec => []CancelledPaidIsFlagged
<1>1. Inv => CancelledPaidIsFlagged
  BY DEF Inv
<1>2. QED
  BY <1>1, Invariance, PTL

\* An order whose payment is in progress can always be paid by another try.
THEOREM CustomersCanRetry == Spec => []InitiatedIsRetryable
<1>1. ASSUME Inv PROVE InitiatedIsRetryable
  <2>1. SUFFICES ASSUME order.payment = "initiated", order.status # "cancelled"
                 PROVE  Pending # {} /\ Latest(Pending) = Latest(Created)
    BY DEF InitiatedIsRetryable
  <2>2. PICK n \in Created : pay[n].status = "pending" /\ \A q \in Created : q <= n
    BY <1>1, <2>1 DEF Inv, LatestIsPending
  <2>3. Pending \subseteq Created /\ Created \subseteq Payments /\ n \in Pending
    BY <2>2 DEF Pending, Created
  <2>4. Latest(Created) = n /\ Latest(Pending) = n
    BY <2>2, <2>3, LatestIs
  <2>5. QED
    BY <2>3, <2>4
<1>2. QED
  BY <1>1, Invariance, PTL

\* The expiry worker cancels no order that has been paid since it was selected.
THEOREM ExpirySparesPaidOrders == Spec => ExpiryNeverCancelsPaid
<1>1. ASSUME [Next]_vars
      PROVE  [expiring /\ ~expiring' /\ order'.status = "cancelled" =>
                order.payment # "paid" \/ order.status = "cancelled"]_vars
  <2>1. SUFFICES ASSUME expiring, ~expiring', order'.status = "cancelled"
                 PROVE  order.payment # "paid" \/ order.status = "cancelled"
    OBVIOUS
  <2>2. ExpireOrder \/ ExpireRefused
    BY <1>1, <2>1 DEF Next, vars, StartRead, StartClean, CodRead, CodCreate, StartCreate,
         GatewayOpens, GatewayRefuses, StartEnds, CustomerActs, PaymentSucceeds, PaymentFails,
         PaymentAges, MarkFailed, FallbackRead, FallbackFails, FallbackIgnored, Cancel,
         ExpirySelect, UpdateOrderStatus, RequestRefund, RefundFromEvent, RefundSettles
  <2>3. QED
    BY <2>1, <2>2 DEF ExpireOrder, ExpireRefused, MayExpire
<1>2. QED
  BY <1>1, PTL DEF Spec, ExpiryNeverCancelsPaid

-----------------------------------------------------------------------------
(* Refunds: the invariant *)

\* Admins process and reject.
Usual ==
  /\ MaxRefunds \in Nat /\ MaxTransfers \in Nat
  /\ Statuses \subseteq {"rejected", "processed"}

\* The refund has been claimed, and no request may claim it again.
Claimed(r) == refunds[r].status \in Refund!Closed \cup {"processing"}

\* The gateway has paid transfer t to the customer.
PaidOut(t) == t \in Refund!Transfers /\ transfers[t].state = "refunded"

\* A request names a refund, and only a rejection is written by Decide.
Requests ==
  \A a \in Starters :
    /\ admin[a].pc # "idle" => admin[a].refund \in Refund!Ids
    /\ admin[a].pc = "decide" => admin[a].status = "rejected"

\* The gateway numbers what it accepts, and keeps for whom.
TransfersNumbered ==
  /\ \E n \in 0..MaxTransfers : Refund!Accepted = 1..n
  /\ \A t \in Refund!Transfers : transfers[t].state = "none" => transfers[t].refund = 0

\* Whatever was sent to the gateway, or is being sent, was claimed for it, and
\* by one request.
RefundsClaimed ==
  /\ \A a \in Starters : admin[a].pc = "call" => Claimed(admin[a].refund)
  /\ \A t \in Refund!Accepted : transfers[t].refund \in Refund!Ids /\ Claimed(transfers[t].refund)
  /\ \A a, b \in Starters : admin[a].pc = "call" /\ admin[b].pc = "call" =>
       a = b \/ admin[a].refund # admin[b].refund
  /\ \A a \in Starters, t \in Refund!Accepted : admin[a].pc = "call" =>
       admin[a].refund # transfers[t].refund
  /\ \A t, q \in Refund!Accepted : t = q \/ transfers[t].refund # transfers[q].refund

\* A refund that was not claimed has no reference of the gateway's, and a
\* request that settles an online payment has one the gateway has paid, or one
\* an admin has typed.
Confirmations ==
  /\ \A r \in Refund!Ids : ~Claimed(r) => refunds[r].ref = Refund!NoRef
  /\ \A a \in Starters : admin[a].pc = "confirmed" => PaidOut(admin[a].ref)
  /\ \A a \in Starters : admin[a].pc = "settle" /\ payment.online =>
       payment.refunded \/ admin[a].source = "admin" \/ PaidOut(admin[a].ref)
  /\ Refund!SettledOnConfirmation

RefundsInv == Refund!TypeOK /\ Requests /\ TransfersNumbered /\ RefundsClaimed /\ Confirmations

-----------------------------------------------------------------------------
(* Types *)

AdminRows ==
  [pc : {"idle", "decide", "claim", "call", "initiated", "failed", "unknown",
         "settle", "inquire", "confirmed", "unresolved"},
   refund : Refund!Ids \cup {0}, ref : Refund!Refs, source : {"none", "admin", "gateway"},
   status : {"approved", "rejected", "processing", "processed"}]

RefundTable ==
  [status : {"none", "requested", "approved", "processing", "processed", "rejected"},
   ref : Refund!Refs]

TransferRows ==
  [refund : Refund!Ids \cup {0}, state : {"none", "processing", "refunded", "cancelled"}]

\* The numbers that Refunds counts with are those of this module.
LEMMA SameCardinality == \A S : Refund!Cardinality(S) = Cardinality(S)
BY DEF Refund!Cardinality, Cardinality

\* The types of the rows, by name.
LEMMA RefundsTyped ==
  Refund!TypeOK <=> /\ sold \in {"delivered", "cancelled", "refunded"}
                    /\ payment \in [online : BOOLEAN, refunded : BOOLEAN]
                    /\ refunds \in [Refund!Ids -> RefundTable] /\ asking \in BOOLEAN
                    /\ admin \in [Starters -> AdminRows]
                    /\ transfers \in [Refund!Transfers -> TransferRows]
                    /\ restocks \in Seq(Refund!Ids \cup {Refund!TheOrder}) /\ restored \in Nat /\ vouched \in BOOLEAN
BY DEF Refund!TypeOK, RefundTable, AdminRows, TransferRows

\* What a request becomes when it only moves on.
LEMMA Moves ==
  ASSUME Refund!TypeOK, NEW a \in Starters, NEW pc, Refund!Goto(a, pc)
  PROVE  admin' = [admin EXCEPT ![a] = [admin[a] EXCEPT !.pc = pc]]
BY RefundsTyped DEF Refund!Goto, AdminRows

LEMMA NoRequestTyped == Refund!Idle \in AdminRows
BY DEF Refund!Idle, AdminRows, Refund!NoRef, Refund!Refs

\* The tables start with values of their types.
LEMMA RefundsInitTypeOK == Usual /\ Refund!Init => Refund!TypeOK
<1> SUFFICES ASSUME Usual, Refund!Init
             PROVE  Refund!TypeOK
  OBVIOUS
<1>1. Refund!NoRefund \in RefundTable /\ Refund!NoTransfer \in TransferRows
  BY DEF Refund!NoRefund, Refund!NoTransfer, RefundTable, TransferRows, Refund!NoRef, Refund!Refs
<1>2. restocks \in Seq(Refund!Ids \cup {Refund!TheOrder})
  <2>1. restocks = <<Refund!TheOrder>> \/ restocks = <<>>
    BY DEF Refund!Init
  <2>2. <<Refund!TheOrder>> \in Seq(Refund!Ids \cup {Refund!TheOrder}) /\ <<>> \in Seq(Refund!Ids \cup {Refund!TheOrder})
    OBVIOUS
  <2>3. QED
    BY <2>1, <2>2
<1>3. QED
  BY <1>1, <1>2, NoRequestTyped, RefundsTyped DEF Refund!Init

\* The rows that are read by a request, and what it may write.
LEMMA StartTyped ==
  ASSUME Usual, Refund!TypeOK, NEW a \in Starters, NEW r \in Refund!Ids,
         NEW status \in {"rejected", "processed"}, NEW given \in Refund!Refs,
         NEW source \in {"none", "admin", "gateway"}, Refund!Start(a, r, status, given, source)
  PROVE  /\ Refund!LocalRef(r, status, given) \in Refund!Refs
         /\ admin' = [admin EXCEPT ![a] =
                        [pc |-> Refund!FirstStep(status, Refund!LocalRef(r, status, given)), refund |-> r,
                         status |-> status, ref |-> Refund!LocalRef(r, status, given),
                         source |-> source]]
         /\ admin' \in [Starters -> AdminRows]
         /\ UNCHANGED <<sold, payment, refunds, asking, transfers, restocks, restored, vouched>>
<1>1. Refund!LocalRef(r, status, given) \in Refund!Refs
  BY RefundsTyped DEF Refund!LocalRef, Refund!Refs, RefundTable
<1>2. Refund!FirstStep(status, Refund!LocalRef(r, status, given)) \in {"decide", "claim", "settle"}
  BY DEF Refund!FirstStep
<1> DEFINE row == [pc |-> Refund!FirstStep(status, Refund!LocalRef(r, status, given)), refund |-> r,
                   status |-> status, ref |-> Refund!LocalRef(r, status, given),
                   source |-> source]
<1>3. row \in AdminRows
  BY <1>1, <1>2 DEF AdminRows
<1>4. admin' = [admin EXCEPT ![a] = row]
  BY DEF Refund!Start
<1>5. QED
  BY <1>1, <1>3, <1>4, RefundsTyped DEF Refund!Start

\* A reference that comes with an admin's request is the admin's.
LEMMA AdminStartsTyped ==
  ASSUME Usual, Refund!TypeOK, NEW a \in Starters, NEW r \in Refund!Ids, NEW s \in Statuses,
         Refund!AdminStarts(a, r, s)
  PROVE  /\ s \in {"rejected", "processed"} /\ admin[a].pc = "idle"
         /\ \E given \in Refund!Refs, source \in {"none", "admin", "gateway"} :
              /\ given # Refund!NoRef => source = "admin"
              /\ Refund!Start(a, r, s, given, source)
<1>1. PICK given \in {Refund!NoRef, Refund!ManualRef} \cup Refund!Accepted :
        Refund!Start(a, r, s, given, IF given = Refund!NoRef THEN "none" ELSE "admin")
  BY DEF Refund!AdminStarts
<1>2. given \in Refund!Refs
  BY DEF Refund!Refs, Refund!Accepted
<1>3. CASE given = Refund!NoRef
  BY <1>1, <1>2, <1>3 DEF Refund!AdminStarts, Usual
<1>4. CASE given # Refund!NoRef
  BY <1>1, <1>2, <1>4 DEF Refund!AdminStarts, Usual
<1>5. QED
  BY <1>3, <1>4

\* Every step keeps the types.
LEMMA NextRefundsTypeOK == Usual /\ Refund!TypeOK /\ Requests /\ [Refund!Next]_Refund!vars => Refund!TypeOK'
<1> SUFFICES ASSUME Usual, Refund!TypeOK, Requests, [Refund!Next]_Refund!vars
             PROVE  Refund!TypeOK'
  OBVIOUS
<1> DEFINE Goal == /\ sold' \in {"delivered", "cancelled", "refunded"}
                   /\ payment' \in [online : BOOLEAN, refunded : BOOLEAN]
                   /\ refunds' \in [Refund!Ids -> RefundTable] /\ asking' \in BOOLEAN
                   /\ admin' \in [Starters -> AdminRows]
                   /\ transfers' \in [Refund!Transfers -> TransferRows]
                   /\ restocks' \in Seq(Refund!Ids \cup {Refund!TheOrder}) /\ restored' \in Nat
                   /\ vouched' \in BOOLEAN
<1> SUFFICES Goal
  BY DEF Refund!TypeOK, RefundTable, AdminRows, TransferRows
<1>0. /\ sold \in {"delivered", "cancelled", "refunded"}
      /\ payment \in [online : BOOLEAN, refunded : BOOLEAN]
      /\ refunds \in [Refund!Ids -> RefundTable] /\ asking \in BOOLEAN
      /\ admin \in [Starters -> AdminRows]
      /\ transfers \in [Refund!Transfers -> TransferRows]
      /\ restocks \in Seq(Refund!Ids \cup {Refund!TheOrder}) /\ restored \in Nat /\ vouched \in BOOLEAN
      /\ Refund!Idle \in AdminRows
      /\ \A a \in Starters : admin[a].pc # "idle" => admin[a].refund \in Refund!Ids
  BY RefundsTyped, NoRequestTyped DEF Requests
<1>1. CASE Refund!RequestRead
  BY <1>0, <1>1 DEF Refund!RequestRead
<1>2. CASE Refund!AdminMarksRefunded
  BY <1>0, <1>2 DEF Refund!AdminMarksRefunded
<1>3. ASSUME NEW r \in Refund!Ids, Refund!RequestCreate(r) \/ Refund!EventCreates(r)
      PROVE  Goal
  <2>1. refunds' \in [Refund!Ids -> RefundTable]
    <3>1. [refunds EXCEPT ![r].status = "requested"] \in [Refund!Ids -> RefundTable]
      BY <1>0 DEF RefundTable
    <3>2. QED
      BY <1>0, <1>3, <3>1 DEF Refund!RequestCreate, Refund!EventCreates, Refund!Insert
  <2>2. QED
    BY <1>0, <1>3, <2>1 DEF Refund!RequestCreate, Refund!EventCreates
<1>4. ASSUME NEW a \in Starters, NEW r \in Refund!Ids, Refund!ReconcileRead(a, r)
      PROVE  Goal
  <2>1. [Refund!Idle EXCEPT !.pc = "inquire", !.refund = r, !.ref = refunds[r].ref] \in AdminRows
    BY <1>0 DEF AdminRows, Refund!Idle, RefundTable
  <2>2. QED
    BY <1>0, <1>4, <2>1 DEF Refund!ReconcileRead
<1>5. ASSUME NEW a \in Starters, NEW r \in Refund!Ids, NEW s \in Statuses, Refund!AdminStarts(a, r, s)
      PROVE  Goal
  <2>1. /\ admin' \in [Starters -> AdminRows]
        /\ UNCHANGED <<sold, payment, refunds, asking, transfers, restocks, restored, vouched>>
    BY <1>5, AdminStartsTyped, StartTyped
  <2>2. QED
    BY <1>0, <2>1
<1>6. ASSUME NEW a \in Starters, Refund!Decide(a)
      PROVE  Goal
  <2>1. refunds' \in [Refund!Ids -> RefundTable]
    <3>1. admin[a].refund \in Refund!Ids /\ admin[a].status = "rejected"
      BY <1>6 DEF Refund!Decide, Requests
    <3>2. admin[a].ref \in Refund!Refs /\ refunds[admin[a].refund].ref \in Refund!Refs
      BY <1>0, <3>1 DEF AdminRows, RefundTable
    <3>3. QED
      BY <1>0, <1>6, <3>1, <3>2 DEF Refund!Decide, RefundTable
  <2>2. QED
    BY <1>0, <1>6, <2>1 DEF Refund!Decide, Refund!Leave
<1>7. ASSUME NEW a \in Starters, Refund!Claim(a)
      PROVE  Goal
  <2>1. admin[a].refund \in Refund!Ids /\ admin[a] \in AdminRows
    BY <1>0, <1>7 DEF Refund!Claim
  <2>2. refunds' \in [Refund!Ids -> RefundTable]
    <3>1. [refunds EXCEPT ![admin[a].refund].status = "processing"] \in [Refund!Ids -> RefundTable]
      BY <1>0, <2>1 DEF RefundTable
    <3>2. QED
      BY <1>0, <1>7, <3>1 DEF Refund!Claim
  <2>3. admin' \in [Starters -> AdminRows]
    <3>1. [admin[a] EXCEPT !.pc = "call"] \in AdminRows
      BY <2>1 DEF AdminRows
    <3>2. CASE Refund!Goto(a, "call")
      BY <1>0, <3>1, <3>2, Moves
    <3>3. CASE Refund!Leave(a)
      BY <1>0, <3>3 DEF Refund!Leave
    <3>4. QED
      BY <1>7, <3>2, <3>3 DEF Refund!Claim
  <2>4. QED
    BY <1>0, <1>7, <2>2, <2>3 DEF Refund!Claim
<1>8. ASSUME NEW a \in Starters, Refund!CallAccepted(a)
      PROVE  Goal
  <2>1. admin[a].refund \in Refund!Ids /\ admin[a] \in AdminRows /\ Refund!NextTransfer \in Refund!Transfers
    BY <1>0, <1>8 DEF Refund!CallAccepted
  <2>2. transfers' \in [Refund!Transfers -> TransferRows]
    <3>1. [refund |-> admin[a].refund, state |-> "processing"] \in TransferRows
      BY <2>1 DEF TransferRows
    <3>2. QED
      BY <1>0, <1>8, <3>1 DEF Refund!CallAccepted
  <2>3. admin' \in [Starters -> AdminRows]
    <3>1. /\ [admin[a] EXCEPT !.pc = "failed"] \in AdminRows
          /\ [admin[a] EXCEPT !.pc = "unknown"] \in AdminRows
          /\ [admin[a] EXCEPT !.pc = "initiated", !.ref = Refund!NextTransfer] \in AdminRows
      BY <2>1 DEF AdminRows, Refund!Refs
    <3>2. ASSUME NEW pc \in {"failed", "unknown"}, Refund!Goto(a, pc)
          PROVE  admin' \in [Starters -> AdminRows]
      <4>1. admin' = [admin EXCEPT ![a] = [admin[a] EXCEPT !.pc = pc]]
        BY <1>0, <3>2, Moves
      <4>2. [admin[a] EXCEPT !.pc = pc] \in AdminRows
        BY <3>1
      <4>3. QED
        BY <1>0, <4>1, <4>2
    <3>3. CASE admin' = [admin EXCEPT ![a].pc = "initiated", ![a].ref = Refund!NextTransfer]
      <4>1. admin' = [admin EXCEPT ![a] = [admin[a] EXCEPT !.pc = "initiated", !.ref = Refund!NextTransfer]]
        BY <1>0, <2>1, <3>3 DEF AdminRows
      <4>2. QED
        BY <1>0, <3>1, <4>1
    <3>4. QED
      BY <1>8, <3>2, <3>3 DEF Refund!CallAccepted
  <2>4. QED
    BY <1>0, <1>8, <2>2, <2>3 DEF Refund!CallAccepted
<1>9. ASSUME NEW a \in Starters, Refund!CallFails(a) \/ Refund!Inquire(a)
      PROVE  Goal
  <2>1. /\ [admin[a] EXCEPT !.pc = "failed"] \in AdminRows
        /\ [admin[a] EXCEPT !.pc = "unknown"] \in AdminRows
        /\ [admin[a] EXCEPT !.pc = "confirmed"] \in AdminRows
        /\ [admin[a] EXCEPT !.pc = "unresolved"] \in AdminRows
    BY <1>0 DEF AdminRows
  <2>2. \E pc \in {"failed", "unknown", "confirmed", "unresolved"} : Refund!Goto(a, pc)
    BY <1>9 DEF Refund!CallFails, Refund!Inquire
  <2>3. admin' \in [Starters -> AdminRows]
    <3>1. PICK pc \in {"failed", "unknown", "confirmed", "unresolved"} : Refund!Goto(a, pc)
      BY <2>2
    <3>2. admin' = [admin EXCEPT ![a] = [admin[a] EXCEPT !.pc = pc]]
      BY <3>1, Moves
    <3>3. QED
      BY <1>0, <2>1, <3>1, <3>2
  <2>4. QED
    BY <1>0, <1>9, <2>3 DEF Refund!CallFails, Refund!Inquire
<1>10. ASSUME NEW a \in Starters, Refund!WriteOutcome(a)
       PROVE  Goal
  <2>1. admin[a].refund \in Refund!Ids /\ admin[a].ref \in Refund!Refs /\ refunds[admin[a].refund].ref \in Refund!Refs
    BY <1>0, <1>10 DEF Refund!WriteOutcome, AdminRows, RefundTable
  <2>2. refunds' \in [Refund!Ids -> RefundTable]
    BY <1>0, <1>10, <2>1 DEF Refund!WriteOutcome, Refund!Overwrite, Refund!Outcome, RefundTable
  <2>3. QED
    BY <1>0, <1>10, <2>2 DEF Refund!WriteOutcome, Refund!Leave
<1>11. ASSUME NEW a \in Starters, Refund!Settle(a)
       PROVE  Goal
  <2>1. admin[a].refund \in Refund!Ids /\ admin[a].ref \in Refund!Refs /\ refunds[admin[a].refund].ref \in Refund!Refs
    BY <1>0, <1>11 DEF Refund!Settle, AdminRows, RefundTable
  <2>2. refunds' \in [Refund!Ids -> RefundTable]
    <3> DEFINE ref == IF admin[a].ref # Refund!NoRef THEN admin[a].ref
                      ELSE refunds[admin[a].refund].ref
               row == [status |-> "processed", ref |-> ref]
    <3>1. row \in RefundTable
      BY <2>1 DEF RefundTable
    <3>2. UNCHANGED refunds \/ refunds' = [refunds EXCEPT ![admin[a].refund] = row]
      BY <1>11 DEF Refund!Settle
    <3> HIDE DEF row
    <3>3. QED
      BY <1>0, <2>1, <3>1, <3>2
  <2>3. payment' \in [online : BOOLEAN, refunded : BOOLEAN]
    BY <1>0, <1>11 DEF Refund!Settle
  <2>4. restocks' \in Seq(Refund!Ids \cup {Refund!TheOrder})
    <3>1. restocks' = restocks \/ restocks' = Append(restocks, admin[a].refund)
      BY <1>11 DEF Refund!Settle
    <3>2. Append(restocks, admin[a].refund) \in Seq(Refund!Ids \cup {Refund!TheOrder})
      <4>1. admin[a].refund \in Refund!Ids \cup {Refund!TheOrder}
        BY <2>1
      <4>2. QED
        BY <1>0, <4>1, AppendProperties
    <3>3. QED
      BY <1>0, <3>1, <3>2
  <2>5. restored' \in Nat /\ sold' \in {"delivered", "cancelled", "refunded"}
    BY <1>0, <1>11 DEF Refund!Settle
  <2>6. QED
    BY <1>0, <1>11, <2>2, <2>3, <2>4, <2>5 DEF Refund!Settle, Refund!Leave
<1>12. ASSUME NEW a \in Starters, Refund!SettleConfirmed(a)
       PROVE  Goal
  <2>1. admin[a].refund \in Refund!Ids /\ admin[a].ref \in Refund!Refs
    BY <1>0, <1>12 DEF Refund!SettleConfirmed, AdminRows
  <2>2. CASE Refund!Start(a, admin[a].refund, "processed", admin[a].ref, "gateway")
    <3>1. /\ admin' \in [Starters -> AdminRows]
          /\ UNCHANGED <<sold, payment, refunds, asking, transfers, restocks, restored, vouched>>
      BY <2>1, <2>2, StartTyped
    <3>2. QED
      BY <1>0, <3>1
  <2>3. CASE Refund!Leave(a) /\ UNCHANGED <<sold, payment, refunds, asking, transfers, restocks, restored, vouched>>
    BY <1>0, <2>3 DEF Refund!Leave
  <2>4. QED
    BY <1>12, <2>2, <2>3 DEF Refund!SettleConfirmed
<1>13. ASSUME NEW a \in Starters, Refund!Crash(a)
       PROVE  Goal
  BY <1>0, <1>13 DEF Refund!Crash, Refund!Leave
<1>14. ASSUME NEW t \in Refund!Transfers, NEW state \in {"refunded", "cancelled"}, Refund!GatewayDecides(t, state)
       PROVE  Goal
  <2>1. transfers' \in [Refund!Transfers -> TransferRows]
    BY <1>0, <1>14 DEF Refund!GatewayDecides, TransferRows
  <2>2. QED
    BY <1>0, <1>14, <2>1 DEF Refund!GatewayDecides
<1>15. CASE UNCHANGED Refund!vars
  BY <1>0, <1>15 DEF Refund!vars
<1>16. QED
  BY <1>1, <1>2, <1>3, <1>4, <1>5, <1>6, <1>7, <1>8, <1>9, <1>10, <1>11, <1>12,
     <1>13, <1>14, <1>15 DEF Refund!Next

-----------------------------------------------------------------------------
(* Requests, references and claims *)

\* Requests name a refund from their first step to their last.
LEMMA NextRequests == Usual /\ Refund!TypeOK /\ Requests /\ [Refund!Next]_Refund!vars => Requests'
<1> SUFFICES ASSUME Usual, Refund!TypeOK, Requests, [Refund!Next]_Refund!vars
             PROVE  Requests'
  OBVIOUS
<1>0. /\ admin \in [Starters -> AdminRows] /\ refunds \in [Refund!Ids -> RefundTable]
  BY RefundsTyped
<1>1. ASSUME \A a \in Starters : \/ admin'[a] = Refund!Idle
                                 \/ /\ admin'[a].refund = admin[a].refund
                                    /\ admin[a].pc # "idle" /\ admin'[a].pc # "decide"
                                 \/ admin'[a] = admin[a]
      PROVE  Requests'
  BY <1>1 DEF Requests, Refund!Idle
<1>2. ASSUME NEW a \in Starters, \E pc \in {"call", "failed", "unknown", "confirmed", "unresolved"} :
                                 Refund!Goto(a, pc),
             admin[a].pc # "idle"
      PROVE  Requests'
  <2>1. PICK pc \in {"call", "failed", "unknown", "confirmed", "unresolved"} : Refund!Goto(a, pc)
    BY <1>2
  <2>2. admin' = [admin EXCEPT ![a] = [admin[a] EXCEPT !.pc = pc]]
    BY <2>1, Moves
  <2>3. admin'[a].refund = admin[a].refund /\ admin'[a].pc = pc
    BY <1>0, <2>2 DEF AdminRows
  <2>4. \A b \in Starters \ {a} : admin'[b] = admin[b]
    BY <1>0, <2>2
  <2>5. QED
    BY <1>1, <1>2, <2>3, <2>4
<1>3. ASSUME NEW a \in Starters, Refund!Leave(a)
      PROVE  Requests'
  <2>1. \A b \in Starters : admin'[b] = Refund!Idle \/ admin'[b] = admin[b]
    BY <1>0, <1>3 DEF Refund!Leave
  <2>2. QED
    BY <1>1, <2>1
<1>4. CASE UNCHANGED admin
  BY <1>1, <1>4
<1>5. ASSUME NEW a \in Starters, NEW r \in Refund!Ids, Refund!ReconcileRead(a, r)
      PROVE  Requests'
  <2>1. /\ admin'[a].refund = r /\ admin'[a].pc = "inquire"
        /\ \A b \in Starters \ {a} : admin'[b] = admin[b]
    BY <1>0, <1>5 DEF Refund!ReconcileRead, Refund!Idle
  <2>2. QED
    BY <2>1 DEF Requests
<1>6. ASSUME NEW a \in Starters, NEW r \in Refund!Ids, NEW status \in {"rejected", "processed"},
             NEW given \in Refund!Refs,
         NEW source \in {"none", "admin", "gateway"}, Refund!Start(a, r, status, given, source)
      PROVE  Requests'
  <2>1. /\ admin'[a].refund = r /\ admin'[a].status = status
        /\ admin'[a].pc = Refund!FirstStep(status, Refund!LocalRef(r, status, given))
        /\ \A b \in Starters \ {a} : admin'[b] = admin[b]
    BY <1>0, <1>6, StartTyped
  <2>2. admin'[a].pc = "decide" => status = "rejected"
    BY <2>1 DEF Refund!FirstStep
  <2>3. QED
    BY <2>1, <2>2 DEF Requests
<1>7. ASSUME NEW a \in Starters, Refund!CallAccepted(a)
      PROVE  Requests'
  <2>1. admin[a].pc = "call"
    BY <1>7 DEF Refund!CallAccepted
  <2>2. CASE admin' = [admin EXCEPT ![a].pc = "initiated", ![a].ref = Refund!NextTransfer]
    <3>1. admin'[a].refund = admin[a].refund /\ admin'[a].pc = "initiated"
      BY <1>0, <2>2 DEF AdminRows
    <3>2. \A b \in Starters \ {a} : admin'[b] = admin[b]
      BY <1>0, <2>2
    <3>3. QED
      BY <1>1, <2>1, <3>1, <3>2
  <2>3. QED
    BY <1>2, <1>7, <2>1, <2>2 DEF Refund!CallAccepted
<1>8. ASSUME NEW a \in Starters, Refund!SettleConfirmed(a)
      PROVE  Requests'
  <2>1. admin[a].refund \in Refund!Ids /\ admin[a].ref \in Refund!Refs
    BY <1>0, <1>8 DEF Refund!SettleConfirmed, Requests, AdminRows
  <2>2. QED
    BY <1>3, <1>6, <1>8, <2>1 DEF Refund!SettleConfirmed
<1>9. ASSUME NEW a \in Starters, NEW r \in Refund!Ids, NEW s \in Statuses, Refund!AdminStarts(a, r, s)
      PROVE  Requests'
  BY <1>6, <1>9, AdminStartsTyped
<1>10. ASSUME NEW a \in Starters,
              Refund!Claim(a) \/ Refund!CallFails(a) \/ Refund!Inquire(a)
       PROVE  Requests'
  BY <1>2, <1>3, <1>10 DEF Refund!Claim, Refund!CallFails, Refund!Inquire
<1>11. QED
  BY <1>3, <1>4, <1>5, <1>7, <1>8, <1>9, <1>10
     DEF Refund!Next, Refund!vars, Refund!RequestRead, Refund!RequestCreate, Refund!EventCreates, Refund!AdminMarksRefunded,
         Refund!Decide, Refund!WriteOutcome, Refund!Settle, Refund!Crash, Refund!GatewayDecides

\* A claimed refund stays claimed, whoever writes it next.
LEMMA ClaimedStays ==
  ASSUME Usual, Refund!TypeOK, Requests, [Refund!Next]_Refund!vars, NEW r \in Refund!Ids, Claimed(r)
  PROVE  Claimed(r)'
<1>0. refunds \in [Refund!Ids -> RefundTable]
  BY RefundsTyped
<1>1. CASE UNCHANGED refunds
  BY <1>1 DEF Claimed
<1>2. ASSUME NEW q \in Refund!Ids, Refund!RequestCreate(q) \/ Refund!EventCreates(q)
      PROVE  Claimed(r)'
  <2>1. q # r \/ UNCHANGED refunds
    BY <1>2 DEF Refund!RequestCreate, Refund!EventCreates, Refund!IsFresh, Claimed, Refund!Closed
  <2>2. refunds'[r] = refunds[r]
    BY <1>0, <1>2, <2>1 DEF Refund!RequestCreate, Refund!EventCreates, Refund!Insert
  <2>3. QED
    BY <2>2 DEF Claimed
<1>3. ASSUME NEW q \in Refund!Ids, NEW row, row.status \in Refund!Closed \cup {"processing"},
             refunds' = [refunds EXCEPT ![q] = row] \/ UNCHANGED refunds
      PROVE  Claimed(r)'
  BY <1>0, <1>3 DEF Claimed
<1>4. ASSUME NEW a \in Starters, Refund!Decide(a) \/ Refund!Claim(a) \/ Refund!WriteOutcome(a) \/ Refund!Settle(a)
      PROVE  Claimed(r)'
  <2> DEFINE q == admin[a].refund
  <2>1. q \in Refund!Ids /\ (admin[a].pc = "decide" => admin[a].status = "rejected")
    BY <1>4 DEF Refund!Decide, Refund!Claim, Refund!WriteOutcome, Refund!Settle, Requests
  <2>2. \E row : /\ row.status \in Refund!Closed \cup {"processing"}
                 /\ refunds' = [refunds EXCEPT ![q] = row] \/ UNCHANGED refunds
    <3>1. CASE Refund!Decide(a)
      <4> DEFINE row == [status |-> admin[a].status,
                         ref |-> IF admin[a].source = "none" THEN refunds[q].ref ELSE admin[a].ref]
      <4>1. row.status = "rejected"
        BY <2>1, <3>1 DEF Refund!Decide
      <4>2. refunds' = [refunds EXCEPT ![q] = row] \/ UNCHANGED refunds
        BY <3>1 DEF Refund!Decide
      <4>3. QED
        BY <4>1, <4>2 DEF Refund!Closed
    <3>2. CASE Refund!Claim(a)
      <4> DEFINE row == [refunds[q] EXCEPT !.status = "processing"]
      <4>1. row.status = "processing"
        BY <1>0, <2>1 DEF RefundTable
      <4>2. refunds' = [refunds EXCEPT ![q] = row] \/ UNCHANGED refunds
        BY <1>0, <2>1, <3>2 DEF Refund!Claim, RefundTable
      <4>3. QED
        BY <4>1, <4>2
    <3>3. CASE Refund!WriteOutcome(a)
      <4> DEFINE row == [status |-> Refund!Outcome(admin[a].pc),
                         ref |-> IF admin[a].pc = "initiated" THEN admin[a].ref ELSE refunds[q].ref]
      <4>1. row.status \in {"rejected", "processing"}
        BY DEF Refund!Outcome
      <4>2. refunds' = [refunds EXCEPT ![q] = row] \/ UNCHANGED refunds
        BY <3>3 DEF Refund!WriteOutcome, Refund!Overwrite
      <4>3. QED
        BY <4>1, <4>2 DEF Refund!Closed
    <3>4. CASE Refund!Settle(a)
      <4> DEFINE row == [status |-> "processed",
                         ref |-> IF admin[a].ref # Refund!NoRef THEN admin[a].ref ELSE refunds[q].ref]
      <4>1. row.status = "processed"
        OBVIOUS
      <4>2. refunds' = [refunds EXCEPT ![q] = row] \/ UNCHANGED refunds
        BY <3>4 DEF Refund!Settle
      <4>3. QED
        BY <4>1, <4>2 DEF Refund!Closed
    <3>5. QED
      BY <1>4, <3>1, <3>2, <3>3, <3>4
  <2>3. QED
    BY <1>3, <2>1, <2>2
<1>5. ASSUME NEW a \in Starters, Refund!SettleConfirmed(a)
      PROVE  UNCHANGED refunds
  BY <1>5 DEF Refund!SettleConfirmed, Refund!Start
<1>6. QED
  BY <1>1, <1>2, <1>4, <1>5
     DEF Refund!Next, Refund!vars, Refund!RequestRead, Refund!AdminMarksRefunded, Refund!ReconcileRead, Refund!AdminStarts, Refund!Start,
         Refund!CallAccepted, Refund!CallFails, Refund!Inquire, Refund!Crash, Refund!GatewayDecides

\* Only an accepted call and the gateway's decisions write transfers.
LEMMA TransferWriters ==
  [Refund!Next]_Refund!vars =>
    \/ UNCHANGED transfers
    \/ \E a \in Starters : Refund!CallAccepted(a)
    \/ \E t \in Refund!Transfers, state \in {"refunded", "cancelled"} : Refund!GatewayDecides(t, state)
<1>1. ASSUME NEW a \in Starters, NEW r \in Refund!Ids, NEW s \in Statuses, Refund!AdminStarts(a, r, s)
      PROVE  UNCHANGED transfers
  BY <1>1 DEF Refund!AdminStarts, Refund!Start
<1>2. ASSUME NEW a \in Starters, Refund!Decide(a) \/ Refund!Claim(a) \/ Refund!CallFails(a) \/ Refund!WriteOutcome(a)
      PROVE  UNCHANGED transfers
  BY <1>2 DEF Refund!Decide, Refund!Claim, Refund!CallFails, Refund!WriteOutcome
<1>3. ASSUME NEW a \in Starters, Refund!Settle(a) \/ Refund!Inquire(a) \/ Refund!SettleConfirmed(a) \/ Refund!Crash(a)
      PROVE  UNCHANGED transfers
  BY <1>3 DEF Refund!Settle, Refund!Inquire, Refund!SettleConfirmed, Refund!Start, Refund!Crash
<1>4. QED
  BY <1>1, <1>2, <1>3
     DEF Refund!Next, Refund!vars, Refund!RequestRead, Refund!RequestCreate, Refund!EventCreates, Refund!AdminMarksRefunded, Refund!ReconcileRead

\* An accepted call gets the next number, for the refund it was made for.
LEMMA Accepting ==
  ASSUME Usual, Refund!TypeOK, TransfersNumbered, NEW a \in Starters, Refund!CallAccepted(a)
  PROVE  /\ Refund!NextTransfer \in Refund!Transfers /\ Refund!NextTransfer \notin Refund!Accepted
         /\ Refund!Accepted' = Refund!Accepted \cup {Refund!NextTransfer}
         /\ \E n \in 0..MaxTransfers : Refund!Accepted' = 1..n
         /\ transfers' = [transfers EXCEPT ![Refund!NextTransfer] =
                            [refund |-> admin[a].refund, state |-> "processing"]]
<1>1. PICK n \in 0..MaxTransfers : Refund!Accepted = 1..n
  BY DEF TransfersNumbered
<1>2. n \in Nat /\ MaxTransfers \in Nat
  BY DEF Usual
<1>3. Refund!NextTransfer = n + 1
  <2>1. Cardinality(1..n) = n
    BY <1>2, FS_Interval
  <2>2. QED
    BY <1>1, <1>2, <2>1, SameCardinality DEF Refund!NextTransfer
<1>4. /\ Refund!NextTransfer \in Refund!Transfers
      /\ transfers' = [transfers EXCEPT ![Refund!NextTransfer] =
                         [refund |-> admin[a].refund, state |-> "processing"]]
  BY DEF Refund!CallAccepted
<1>5. Refund!NextTransfer \notin Refund!Accepted
  BY <1>1, <1>2, <1>3
<1>6. Refund!Accepted' = Refund!Accepted \cup {Refund!NextTransfer}
  BY <1>4, RefundsTyped DEF Refund!Accepted
<1>7. Refund!Accepted' = 1..(n + 1) /\ n + 1 \in 0..MaxTransfers
  <2>1. n + 1 <= MaxTransfers
    BY <1>2, <1>3, <1>4 DEF Refund!Transfers
  <2>2. QED
    BY <1>1, <1>2, <1>3, <1>6, <2>1
<1>8. QED
  BY <1>4, <1>5, <1>6, <1>7

\* A decision of the gateway accepts nothing and keeps the refund of it.
LEMMA Deciding ==
  ASSUME Refund!TypeOK, NEW t \in Refund!Transfers, NEW state \in {"refunded", "cancelled"},
         Refund!GatewayDecides(t, state)
  PROVE  /\ Refund!Accepted' = Refund!Accepted /\ t \in Refund!Accepted
         /\ \A q \in Refund!Transfers : transfers'[q].refund = transfers[q].refund
         /\ \A q \in Refund!Transfers : transfers[q].state = "refunded" => transfers'[q].state = "refunded"
         /\ \A q \in Refund!Transfers : transfers'[q].state = "none" <=> transfers[q].state = "none"
<1>1. /\ transfers[t].state = "processing"
      /\ transfers'[t].state = state /\ transfers'[t].refund = transfers[t].refund
      /\ \A q \in Refund!Transfers \ {t} : transfers'[q] = transfers[q]
  BY RefundsTyped DEF Refund!GatewayDecides, TransferRows
<1>2. QED
  BY <1>1 DEF Refund!Accepted

\* Transfers stay numbered.
LEMMA NextTransfersNumbered == Usual /\ Refund!TypeOK /\ TransfersNumbered /\ [Refund!Next]_Refund!vars => TransfersNumbered'
<1> SUFFICES ASSUME Usual, Refund!TypeOK, TransfersNumbered, [Refund!Next]_Refund!vars
             PROVE  TransfersNumbered'
  OBVIOUS
<1>1. CASE UNCHANGED transfers
  BY <1>1 DEF TransfersNumbered, Refund!Accepted
<1>2. ASSUME NEW a \in Starters, Refund!CallAccepted(a)
      PROVE  TransfersNumbered'
  <2>1. \A t \in Refund!Transfers : transfers'[t].state = "none" => transfers'[t] = transfers[t]
    BY <1>2, Accepting, RefundsTyped
  <2>2. QED
    BY <1>2, <2>1, Accepting DEF TransfersNumbered
<1>3. ASSUME NEW t \in Refund!Transfers, NEW state \in {"refunded", "cancelled"}, Refund!GatewayDecides(t, state)
      PROVE  TransfersNumbered'
  BY <1>3, Deciding DEF TransfersNumbered
<1>4. QED
  BY <1>1, <1>2, <1>3, TransferWriters

\* What the gateway has paid out stays paid out.
LEMMA PaidOutStays ==
  ASSUME Usual, Refund!TypeOK, TransfersNumbered, [Refund!Next]_Refund!vars, NEW t, PaidOut(t)
  PROVE  PaidOut(t)'
<1>1. t \in Refund!Accepted /\ t \in Refund!Transfers /\ transfers[t].state = "refunded"
  BY DEF PaidOut, Refund!Accepted
<1>2. ASSUME NEW a \in Starters, Refund!CallAccepted(a)
      PROVE  transfers'[t] = transfers[t]
  BY <1>1, <1>2, Accepting, RefundsTyped
<1>3. ASSUME NEW q \in Refund!Transfers, NEW state \in {"refunded", "cancelled"}, Refund!GatewayDecides(q, state)
      PROVE  transfers'[t].state = "refunded"
  BY <1>1, <1>3, Deciding
<1>4. QED
  BY <1>1, <1>2, <1>3, TransferWriters DEF PaidOut

\* A call is begun by the claim, which found the refund unclaimed: nobody
\* else was calling for it, and nothing had been accepted for it.
LEMMA NextRefundsClaimed ==
  Usual /\ Refund!TypeOK /\ Requests /\ TransfersNumbered /\ RefundsClaimed /\ [Refund!Next]_Refund!vars => RefundsClaimed'
<1> SUFFICES ASSUME Usual, Refund!TypeOK, Requests, TransfersNumbered, RefundsClaimed, [Refund!Next]_Refund!vars
             PROVE  RefundsClaimed'
  OBVIOUS
<1>0. /\ admin \in [Starters -> AdminRows] /\ refunds \in [Refund!Ids -> RefundTable]
      /\ transfers \in [Refund!Transfers -> TransferRows] /\ Refund!Accepted \subseteq Refund!Transfers
      /\ \A a \in Starters : admin[a].pc = "call" => admin[a].refund \in Refund!Ids
      /\ \A t \in Refund!Accepted : transfers[t].refund \in Refund!Ids
      /\ \A r \in Refund!Ids : Claimed(r) => Claimed(r)'
  BY RefundsTyped, ClaimedStays DEF Requests, Refund!Accepted, RefundsClaimed
\* Steps that begin no call and are not accepted.
<1>1. ASSUME \A a \in Starters : admin'[a].pc = "call" => admin'[a] = admin[a],
             Refund!Accepted' = Refund!Accepted, \A t \in Refund!Accepted : transfers'[t].refund = transfers[t].refund
      PROVE  RefundsClaimed'
  BY <1>0, <1>1 DEF RefundsClaimed
<1>2. ASSUME NEW a \in Starters, NEW row, row.pc # "call", admin' = [admin EXCEPT ![a] = row],
             UNCHANGED transfers
      PROVE  RefundsClaimed'
  <2>1. \A b \in Starters : admin'[b].pc = "call" => admin'[b] = admin[b]
    BY <1>0, <1>2
  <2>2. QED
    BY <1>1, <1>2, <2>1 DEF Refund!Accepted
<1>3. ASSUME NEW a \in Starters, NEW pc \in {"failed", "unknown", "confirmed", "unresolved"},
             Refund!Goto(a, pc), UNCHANGED transfers
      PROVE  RefundsClaimed'
  <2>1. admin' = [admin EXCEPT ![a] = [admin[a] EXCEPT !.pc = pc]]
    BY <1>3, Moves
  <2>2. [admin[a] EXCEPT !.pc = pc].pc # "call"
    BY <1>0 DEF AdminRows
  <2>3. QED
    BY <1>2, <1>3, <2>1, <2>2
<1>4. ASSUME NEW a \in Starters, Refund!Leave(a), UNCHANGED transfers
      PROVE  RefundsClaimed'
  <2>1. Refund!Idle.pc # "call" /\ admin' = [admin EXCEPT ![a] = Refund!Idle]
    BY <1>4 DEF Refund!Leave, Refund!Idle
  <2>2. QED
    BY <1>2, <1>4, <2>1
<1>5. CASE UNCHANGED <<admin, transfers>>
  BY <1>1, <1>5 DEF Refund!Accepted
<1>6. ASSUME NEW a \in Starters, NEW r \in Refund!Ids, Refund!ReconcileRead(a, r)
      PROVE  RefundsClaimed'
  <2> DEFINE row == [Refund!Idle EXCEPT !.pc = "inquire", !.refund = r, !.ref = refunds[r].ref]
  <2>1. row.pc # "call" /\ admin' = [admin EXCEPT ![a] = row] /\ UNCHANGED transfers
    BY <1>6 DEF Refund!ReconcileRead, Refund!Idle
  <2>2. QED
    BY <1>2, <2>1
<1>7. ASSUME NEW a \in Starters, NEW r \in Refund!Ids, NEW status \in {"rejected", "processed"},
             NEW given \in Refund!Refs,
         NEW source \in {"none", "admin", "gateway"}, Refund!Start(a, r, status, given, source)
      PROVE  RefundsClaimed'
  <2> DEFINE row == [pc |-> Refund!FirstStep(status, Refund!LocalRef(r, status, given)), refund |-> r,
                     status |-> status, ref |-> Refund!LocalRef(r, status, given),
                     source |-> source]
  <2>1. admin' = [admin EXCEPT ![a] = row] /\ UNCHANGED transfers
    BY <1>7, StartTyped
  <2>2. row.pc # "call"
    BY DEF Refund!FirstStep
  <2>3. QED
    BY <1>2, <2>1, <2>2
<1>8. ASSUME NEW a \in Starters, Refund!Claim(a)
      PROVE  RefundsClaimed'
  <2>1. CASE Refund!Leave(a)
    BY <1>4, <1>8, <2>1 DEF Refund!Claim
  <2>2. CASE Refund!MayClaim(admin[a].refund)
    <3> DEFINE r == admin[a].refund
    <3>1. /\ r \in Refund!Ids /\ ~Claimed(r)
          /\ UNCHANGED transfers
          /\ refunds' = [refunds EXCEPT ![r].status = "processing"]
          /\ Refund!Goto(a, "call")
      BY <1>8, <2>2 DEF Refund!Claim, Refund!MayClaim, Claimed, Refund!Closed, Requests
    <3>2. admin' = [admin EXCEPT ![a] = [admin[a] EXCEPT !.pc = "call"]]
      BY <3>1, Moves
    <3>3. /\ admin'[a].refund = admin[a].refund
          /\ \A b \in Starters \ {a} : admin'[b] = admin[b]
      BY <1>0, <3>2 DEF AdminRows
    <3>4. refunds'[admin[a].refund].status = "processing"
      BY <1>0, <3>1 DEF RefundTable
    <3>5. Claimed(admin[a].refund)'
      BY <3>3, <3>4 DEF Claimed
    <3>6. /\ \A b \in Starters : admin[b].pc = "call" => admin[b].refund # admin[a].refund
          /\ \A t \in Refund!Accepted : transfers[t].refund # admin[a].refund
      BY <3>1 DEF RefundsClaimed
    <3>7. Refund!Accepted' = Refund!Accepted
      BY <3>1 DEF Refund!Accepted
    <3>8. /\ \A b \in Starters : admin'[b].pc = "call" => Claimed(admin[b].refund)'
          /\ \A t \in Refund!Accepted' : transfers'[t].refund \in Refund!Ids /\ Claimed(transfers[t].refund)'
      BY <1>0, <3>1, <3>3, <3>5, <3>7 DEF RefundsClaimed
    <3>9. /\ \A b, c \in Starters : admin'[b].pc = "call" /\ admin'[c].pc = "call" =>
                b = c \/ admin'[b].refund # admin'[c].refund
          /\ \A b \in Starters, t \in Refund!Accepted' : admin'[b].pc = "call" =>
                admin'[b].refund # transfers'[t].refund
          /\ \A t, q \in Refund!Accepted' : t = q \/ transfers'[t].refund # transfers'[q].refund
      BY <3>1, <3>3, <3>6, <3>7 DEF RefundsClaimed
    <3>10. QED
      BY <3>8, <3>9 DEF RefundsClaimed
  <2>3. QED
    BY <1>8, <2>1, <2>2 DEF Refund!Claim
<1>9. ASSUME NEW a \in Starters, Refund!CallAccepted(a)
      PROVE  RefundsClaimed'
  <2>1. PICK n \in Refund!Transfers :
          /\ n \notin Refund!Accepted /\ Refund!Accepted' = Refund!Accepted \cup {n}
          /\ transfers'[n].refund = admin[a].refund
          /\ \A t \in Refund!Accepted : transfers'[t] = transfers[t]
    <3>1. /\ Refund!NextTransfer \in Refund!Transfers /\ Refund!NextTransfer \notin Refund!Accepted
          /\ Refund!Accepted' = Refund!Accepted \cup {Refund!NextTransfer}
          /\ transfers' = [transfers EXCEPT ![Refund!NextTransfer] =
                             [refund |-> admin[a].refund, state |-> "processing"]]
      BY <1>9, Accepting
    <3>2. QED
      BY <1>0, <3>1
  <2>2. /\ admin[a].pc = "call" /\ admin'[a].pc # "call"
        /\ \A b \in Starters \ {a} : admin'[b] = admin[b]
    <3>1. CASE admin' = [admin EXCEPT ![a].pc = "initiated", ![a].ref = Refund!NextTransfer]
      BY <1>0, <1>9, <3>1 DEF Refund!CallAccepted, AdminRows
    <3>2. ASSUME NEW pc \in {"failed", "unknown"}, Refund!Goto(a, pc)
          PROVE  admin'[a].pc # "call" /\ \A b \in Starters \ {a} : admin'[b] = admin[b]
      <4>1. admin' = [admin EXCEPT ![a] = [admin[a] EXCEPT !.pc = pc]]
        BY <3>2, Moves
      <4>2. QED
        BY <1>0, <4>1 DEF AdminRows
    <3>3. QED
      BY <1>9, <3>1, <3>2 DEF Refund!CallAccepted
  <2>3. admin[a].refund \in Refund!Ids /\ Claimed(admin[a].refund)
    BY <1>0, <2>2 DEF RefundsClaimed
  <2>4. /\ \A b \in Starters : admin'[b].pc = "call" => Claimed(admin[b].refund)'
        /\ \A b, c \in Starters : admin'[b].pc = "call" /\ admin'[c].pc = "call" =>
              b = c \/ admin'[b].refund # admin'[c].refund
    BY <1>0, <2>2 DEF RefundsClaimed
  <2>5. \A t \in Refund!Accepted' : transfers'[t].refund \in Refund!Ids /\ Claimed(transfers[t].refund)'
    BY <1>0, <2>1, <2>3 DEF RefundsClaimed
  <2>6. \A b \in Starters, t \in Refund!Accepted' : admin'[b].pc = "call" =>
          admin'[b].refund # transfers'[t].refund
    BY <2>1, <2>2 DEF RefundsClaimed
  <2>7. \A t, q \in Refund!Accepted' : t = q \/ transfers'[t].refund # transfers'[q].refund
    BY <2>1, <2>2 DEF RefundsClaimed
  <2>8. QED
    BY <2>4, <2>5, <2>6, <2>7 DEF RefundsClaimed
<1>10. ASSUME NEW t \in Refund!Transfers, NEW state \in {"refunded", "cancelled"}, Refund!GatewayDecides(t, state)
       PROVE  RefundsClaimed'
  <2>1. UNCHANGED admin
    BY <1>10 DEF Refund!GatewayDecides
  <2>2. QED
    BY <1>0, <1>1, <1>10, <2>1, Deciding
<1>11. ASSUME NEW a \in Starters, Refund!SettleConfirmed(a)
       PROVE  RefundsClaimed'
  <2>1. admin[a].refund \in Refund!Ids /\ admin[a].ref \in Refund!Refs
    BY <1>0, <1>11 DEF Refund!SettleConfirmed, Requests, AdminRows
  <2>2. QED
    BY <1>4, <1>7, <1>11, <2>1 DEF Refund!SettleConfirmed
<1>12. ASSUME NEW a \in Starters, NEW r \in Refund!Ids, NEW s \in Statuses, Refund!AdminStarts(a, r, s)
       PROVE  RefundsClaimed'
  BY <1>7, <1>12, AdminStartsTyped
<1>13. ASSUME NEW a \in Starters, Refund!CallFails(a) \/ Refund!Inquire(a)
       PROVE  RefundsClaimed'
  BY <1>3, <1>13 DEF Refund!CallFails, Refund!Inquire
<1>14. ASSUME NEW a \in Starters, Refund!Decide(a) \/ Refund!WriteOutcome(a) \/ Refund!Settle(a) \/ Refund!Crash(a)
       PROVE  RefundsClaimed'
  BY <1>4, <1>14 DEF Refund!Decide, Refund!WriteOutcome, Refund!Settle, Refund!Crash
<1>15. QED
  BY <1>5, <1>6, <1>8, <1>9, <1>10, <1>11, <1>12, <1>13, <1>14
     DEF Refund!Next, Refund!vars, Refund!RequestRead, Refund!RequestCreate, Refund!EventCreates, Refund!AdminMarksRefunded

-----------------------------------------------------------------------------
(* Confirmation by the gateway *)

\* A reference is written only to a refund that is claimed by then.
LEMMA RefsKept ==
  ASSUME Usual, Refund!TypeOK, Requests, [Refund!Next]_Refund!vars, NEW r \in Refund!Ids
  PROVE  Claimed(r)' \/ refunds'[r].ref = refunds[r].ref
<1>0. refunds \in [Refund!Ids -> RefundTable]
  BY RefundsTyped
<1>1. SUFFICES ASSUME refunds'[r] # refunds[r]
               PROVE  Claimed(r)' \/ refunds'[r].ref = refunds[r].ref
  OBVIOUS
<1>2. ASSUME NEW q \in Refund!Ids, Refund!RequestCreate(q) \/ Refund!EventCreates(q)
      PROVE  refunds'[r].ref = refunds[r].ref
  BY <1>0, <1>2 DEF Refund!RequestCreate, Refund!EventCreates, Refund!Insert, RefundTable
<1>3. ASSUME NEW a \in Starters, Refund!Decide(a)
      PROVE  Claimed(r)'
  <2>1. admin[a].status = "rejected" /\ admin[a].refund \in Refund!Ids
    BY <1>3 DEF Refund!Decide, Requests
  <2>2. refunds'[r].status = "rejected"
    BY <1>0, <1>1, <1>3, <2>1 DEF Refund!Decide, RefundTable
  <2>3. QED
    BY <2>2 DEF Claimed, Refund!Closed
<1>4. ASSUME NEW a \in Starters, Refund!Claim(a)
      PROVE  Claimed(r)'
  <2>1. refunds'[r].status = "processing"
    BY <1>0, <1>1, <1>4 DEF Refund!Claim, RefundTable
  <2>2. QED
    BY <2>1 DEF Claimed
<1>5. ASSUME NEW a \in Starters, Refund!WriteOutcome(a)
      PROVE  Claimed(r)'
  <2>1. refunds'[r].status = Refund!Outcome(admin[a].pc)
    BY <1>0, <1>1, <1>5 DEF Refund!WriteOutcome, Refund!Overwrite
  <2>2. QED
    BY <2>1 DEF Claimed, Refund!Closed, Refund!Outcome
<1>6. ASSUME NEW a \in Starters, Refund!Settle(a)
      PROVE  Claimed(r)'
  <2>1. refunds'[r].status = "processed"
    BY <1>0, <1>1, <1>6 DEF Refund!Settle
  <2>2. QED
    BY <2>1 DEF Claimed, Refund!Closed
<1>7. ASSUME NEW a \in Starters, NEW q \in Refund!Ids, NEW s \in Statuses, Refund!AdminStarts(a, q, s)
      PROVE  UNCHANGED refunds
  BY <1>7 DEF Refund!AdminStarts, Refund!Start
<1>8. ASSUME NEW a \in Starters, Refund!SettleConfirmed(a)
      PROVE  UNCHANGED refunds
  BY <1>8 DEF Refund!SettleConfirmed, Refund!Start
<1>9. QED
  BY <1>1, <1>2, <1>3, <1>4, <1>5, <1>6, <1>7, <1>8
     DEF Refund!Next, Refund!vars, Refund!RequestRead, Refund!AdminMarksRefunded, Refund!ReconcileRead, Refund!CallAccepted,
         Refund!CallFails, Refund!Inquire, Refund!Crash, Refund!GatewayDecides

\* Only a settlement writes the payment, and it makes it refunded; one with a
\* typed reference is remembered.
LEMMA PaymentWriters ==
  ASSUME Refund!TypeOK, [Refund!Next]_Refund!vars
  PROVE  /\ vouched => vouched'
         /\ \/ UNCHANGED payment
            \/ \E a \in Starters : /\ admin[a].pc = "settle" /\ payment'.online = payment.online
                                   /\ payment'.refunded /\ (admin[a].source = "admin" => vouched')
<1>1. ASSUME NEW a \in Starters, NEW r \in Refund!Ids, NEW s \in Statuses, Refund!AdminStarts(a, r, s)
      PROVE  UNCHANGED <<payment, vouched>>
  BY <1>1 DEF Refund!AdminStarts, Refund!Start
<1>2. ASSUME NEW a \in Starters, Refund!SettleConfirmed(a)
      PROVE  UNCHANGED <<payment, vouched>>
  BY <1>2 DEF Refund!SettleConfirmed, Refund!Start
<1>3. ASSUME NEW a \in Starters, Refund!Settle(a)
      PROVE  /\ vouched => vouched'
             /\ \/ UNCHANGED payment
                \/ /\ admin[a].pc = "settle" /\ payment'.online = payment.online
                   /\ payment'.refunded /\ (admin[a].source = "admin" => vouched')
  <2>1. payment \in [online : BOOLEAN, refunded : BOOLEAN]
    BY RefundsTyped
  <2>2. CASE payment' = [payment EXCEPT !.refunded = TRUE]
    <3>1. payment'.online = payment.online /\ payment'.refunded = TRUE
      BY <2>1, <2>2
    <3>2. QED
      BY <1>3, <3>1 DEF Refund!Settle
  <2>3. QED
    BY <1>3, <2>2 DEF Refund!Settle
<1>4. ASSUME ~\E a \in Starters : Refund!Settle(a)
      PROVE  UNCHANGED <<payment, vouched>>
  BY <1>1, <1>2, <1>4
     DEF Refund!Next, Refund!vars, Refund!RequestRead, Refund!RequestCreate, Refund!EventCreates, Refund!AdminMarksRefunded,
         Refund!ReconcileRead, Refund!Decide, Refund!Claim, Refund!CallAccepted, Refund!CallFails, Refund!WriteOutcome, Refund!Inquire,
         Refund!Crash, Refund!GatewayDecides
<1>5. QED
  BY <1>3, <1>4

\* A request goes on to settle an online payment only with a reference that
\* was typed or confirmed: one without it claims and calls.
LEMMA StartConfirmed ==
  ASSUME Usual, Refund!TypeOK, Confirmations, NEW a \in Starters, NEW r \in Refund!Ids,
         NEW status \in {"rejected", "processed"}, NEW given \in Refund!Refs,
         NEW source \in {"none", "admin", "gateway"},
         given # Refund!NoRef => source = "admin" \/ PaidOut(given),
         Refund!Start(a, r, status, given, source), payment.online,
         Refund!FirstStep(status, Refund!LocalRef(r, status, given)) = "settle"
  PROVE  payment.refunded \/ source = "admin" \/ PaidOut(Refund!LocalRef(r, status, given))
<1>1. SUFFICES ASSUME ~payment.refunded, source # "admin"
               PROVE  PaidOut(Refund!LocalRef(r, status, given))
  OBVIOUS
<1>2. Refund!IsOnline
  BY <1>1 DEF Refund!IsOnline
<1>3. status = "processed" /\ Refund!LocalRef(r, status, given) # Refund!NoRef
  BY <1>2 DEF Refund!FirstStep
<1>4. CASE given # Refund!NoRef
  BY <1>1, <1>4 DEF Refund!LocalRef
<1>5. CASE given = Refund!NoRef
  <2>1. Refund!LocalRef(r, status, given) = refunds[r].ref
    BY <1>2, <1>5 DEF Refund!LocalRef
  <2>2. ~Claimed(r)
    BY <1>5 DEF Refund!Start, Claimed
  <2>3. refunds[r].ref = Refund!NoRef
    BY <2>2 DEF Confirmations
  <2>4. QED
    BY <1>3, <2>1, <2>3
<1>6. QED
  BY <1>4, <1>5

\* A payment is refunded only after the gateway has paid, or on an admin's word.
LEMMA NextConfirmations ==
  Usual /\ Refund!TypeOK /\ Requests /\ TransfersNumbered /\ Confirmations /\ [Refund!Next]_Refund!vars => Confirmations'
<1> SUFFICES ASSUME Usual, Refund!TypeOK, Requests, TransfersNumbered, Confirmations, [Refund!Next]_Refund!vars
             PROVE  Confirmations'
  OBVIOUS
<1> DEFINE PaidNext(t) == t \in Refund!Transfers /\ transfers'[t].state = "refunded"
<1>0. /\ admin \in [Starters -> AdminRows]
      /\ \A t : PaidOut(t) => PaidNext(t)
      /\ payment'.online => payment.online
      /\ payment'.online /\ payment.refunded => payment'.refunded
      /\ vouched => vouched'
  BY RefundsTyped, PaidOutStays, PaymentWriters DEF PaidOut
<1>1. \A r \in Refund!Ids : ~Claimed(r)' => refunds'[r].ref = Refund!NoRef
  BY ClaimedStays, RefsKept DEF Confirmations
<1>2. Refund!SettledOnConfirmation'
  <2>1. SUFFICES ASSUME payment'.online, payment'.refunded, ~vouched'
                 PROVE  \E t \in Refund!Transfers : PaidOut(t)
    BY <1>0 DEF Refund!SettledOnConfirmation, Refund!PaidBack
  <2>2. payment.online
    BY <1>0, <2>1
  <2>3. CASE payment.refunded
    BY <1>0, <2>1, <2>2, <2>3 DEF Confirmations, Refund!SettledOnConfirmation, Refund!PaidBack, PaidOut
  <2>4. CASE ~payment.refunded
    <3>1. PICK a \in Starters : admin[a].pc = "settle" /\ admin[a].source # "admin"
      BY <2>1, <2>4, PaymentWriters
    <3>2. PaidOut(admin[a].ref)
      BY <2>2, <2>4, <3>1 DEF Confirmations
    <3>3. QED
      BY <3>2 DEF PaidOut
  <2>5. QED
    BY <2>3, <2>4
<1> DEFINE Fine(row) == /\ row.pc = "confirmed" => PaidNext(row.ref)
                        /\ row.pc = "settle" /\ payment'.online =>
                             payment'.refunded \/ row.source = "admin" \/ PaidNext(row.ref)
\* Requests that stay as they are, stay confirmed.
<1>3. \A a \in Starters : Fine(admin[a])
  BY <1>0 DEF Confirmations
<1>4. ASSUME \A a \in Starters : Fine(admin'[a])
      PROVE  Confirmations'
  <2>1. /\ \A a \in Starters : admin'[a].pc = "confirmed" => PaidNext(admin'[a].ref)
        /\ \A a \in Starters : admin'[a].pc = "settle" /\ payment'.online =>
             payment'.refunded \/ admin'[a].source = "admin" \/ PaidNext(admin'[a].ref)
    BY <1>4
  <2>2. QED
    BY <1>1, <1>2, <2>1 DEF Confirmations, PaidOut
<1>5. ASSUME NEW a \in Starters, NEW row, Fine(row), admin' = [admin EXCEPT ![a] = row]
      PROVE  \A b \in Starters : Fine(admin'[b])
  <2>1. \A b \in Starters : admin'[b] = row \/ admin'[b] = admin[b]
    BY <1>0, <1>5
  <2> HIDE DEF Fine
  <2>2. QED
    BY <1>3, <1>5, <2>1
<1>6. CASE UNCHANGED admin
  <2> HIDE DEF Fine
  <2> QED
    BY <1>3, <1>4, <1>6
<1>7. ASSUME NEW a \in Starters, Refund!Leave(a)
      PROVE  Confirmations'
  <2>1. Fine(Refund!Idle) /\ admin' = [admin EXCEPT ![a] = Refund!Idle]
    BY <1>7 DEF Refund!Leave, Refund!Idle
  <2> HIDE DEF Fine
  <2>2. QED
    BY <1>4, <1>5, <2>1
<1>8. ASSUME NEW a \in Starters, NEW pc, Refund!Goto(a, pc), pc \notin {"confirmed", "settle"}
      PROVE  Confirmations'
  <2> DEFINE row == [admin[a] EXCEPT !.pc = pc]
  <2>1. admin' = [admin EXCEPT ![a] = row]
    BY <1>8, Moves
  <2>2. row.pc = pc
    BY <1>0 DEF AdminRows
  <2>3. Fine(row)
    BY <1>8, <2>2
  <2> HIDE DEF Fine, row
  <2>4. QED
    BY <1>4, <1>5, <2>1, <2>3
<1>9. ASSUME NEW a \in Starters, NEW r \in Refund!Ids, NEW status \in {"rejected", "processed"},
             NEW given \in Refund!Refs, NEW source \in {"none", "admin", "gateway"},
             given # Refund!NoRef => source = "admin" \/ PaidOut(given),
             Refund!Start(a, r, status, given, source)
      PROVE  Confirmations'
  <2> DEFINE ref == Refund!LocalRef(r, status, given)
             row == [pc |-> Refund!FirstStep(status, ref), refund |-> r,
                     status |-> status, ref |-> ref, source |-> source]
  <2>1. admin' = [admin EXCEPT ![a] = row] /\ UNCHANGED <<payment, transfers>>
    BY <1>9, StartTyped
  <2>2. /\ row.pc # "confirmed" /\ row.ref = ref /\ row.source = source
        /\ row.pc = Refund!FirstStep(status, ref)
    BY DEF Refund!FirstStep
  <2>3. row.pc = "settle" /\ payment.online => payment.refunded \/ source = "admin" \/ PaidOut(ref)
    BY <1>9, <2>2, StartConfirmed
  <2>4. Fine(row)
    <3> HIDE DEF row, ref
    <3> QED
      BY <1>0, <2>1, <2>2, <2>3
  <2> HIDE DEF Fine, row
  <2>5. QED
    BY <1>4, <1>5, <2>1, <2>4
<1>10. ASSUME NEW a \in Starters, NEW r \in Refund!Ids, NEW s \in Statuses, Refund!AdminStarts(a, r, s)
       PROVE  Confirmations'
  <2>1. s \in {"rejected", "processed"}
    BY <1>10, AdminStartsTyped
  <2>2. PICK given \in Refund!Refs, source \in {"none", "admin", "gateway"} :
          /\ given # Refund!NoRef => source = "admin"
          /\ Refund!Start(a, r, s, given, source)
    BY <1>10, AdminStartsTyped
  <2>3. QED
    BY <1>9, <2>1, <2>2
<1>11. ASSUME NEW a \in Starters, Refund!SettleConfirmed(a)
       PROVE  Confirmations'
  <2>1. /\ admin[a].refund \in Refund!Ids /\ admin[a].ref \in Refund!Refs
        /\ PaidOut(admin[a].ref)
    BY <1>0, <1>11 DEF Refund!SettleConfirmed, Requests, AdminRows, Confirmations
  <2>2. QED
    BY <1>7, <1>9, <1>11, <2>1 DEF Refund!SettleConfirmed
<1>12. ASSUME NEW a \in Starters, Refund!Inquire(a)
       PROVE  Confirmations'
  <2>1. CASE Refund!Goto(a, "confirmed") /\ admin[a].ref \in Refund!Transfers /\ Refund!Confirms(admin[a].ref)
    <3> DEFINE row == [admin[a] EXCEPT !.pc = "confirmed"]
    <3>1. admin' = [admin EXCEPT ![a] = row]
      BY <2>1, Moves
    <3>2. row.pc = "confirmed" /\ row.ref = admin[a].ref
      BY <1>0 DEF AdminRows
    <3>3. PaidOut(row.ref)
      BY <2>1, <3>2 DEF Refund!Confirms, PaidOut
    <3>4. Fine(row)
      <4> HIDE DEF row
      <4> QED
        BY <1>0, <3>2, <3>3
    <3> HIDE DEF Fine, row
    <3>5. QED
      BY <1>4, <1>5, <3>1, <3>4
  <2>2. QED
    BY <1>8, <1>12, <2>1 DEF Refund!Inquire
<1>13. ASSUME NEW a \in Starters, Refund!CallAccepted(a)
       PROVE  Confirmations'
  <2>1. CASE admin' = [admin EXCEPT ![a].pc = "initiated", ![a].ref = Refund!NextTransfer]
    <3> DEFINE row == [admin[a] EXCEPT !.pc = "initiated", !.ref = Refund!NextTransfer]
    <3>1. admin' = [admin EXCEPT ![a] = row]
      BY <1>0, <2>1 DEF AdminRows
    <3>2. row.pc = "initiated"
      BY <1>0 DEF AdminRows
    <3>3. Fine(row)
      BY <3>2
    <3> HIDE DEF Fine, row
    <3>4. QED
      BY <1>4, <1>5, <3>1, <3>3
  <2>2. QED
    BY <1>8, <1>13, <2>1 DEF Refund!CallAccepted
<1>14. ASSUME NEW a \in Starters, NEW r \in Refund!Ids, Refund!ReconcileRead(a, r)
       PROVE  Confirmations'
  <2> DEFINE row == [Refund!Idle EXCEPT !.pc = "inquire", !.refund = r, !.ref = refunds[r].ref]
  <2>1. row.pc = "inquire" /\ admin' = [admin EXCEPT ![a] = row]
    BY <1>14 DEF Refund!ReconcileRead, Refund!Idle
  <2>2. Fine(row)
    BY <2>1
  <2> HIDE DEF Fine, row
  <2>3. QED
    BY <1>4, <1>5, <2>1, <2>2
<1>15. ASSUME NEW a \in Starters, Refund!Claim(a) \/ Refund!CallFails(a)
       PROVE  Confirmations'
  BY <1>7, <1>8, <1>15 DEF Refund!Claim, Refund!CallFails
<1>16. ASSUME NEW a \in Starters, Refund!Decide(a) \/ Refund!WriteOutcome(a) \/ Refund!Settle(a) \/ Refund!Crash(a)
       PROVE  Confirmations'
  BY <1>7, <1>16 DEF Refund!Decide, Refund!WriteOutcome, Refund!Settle, Refund!Crash
<1>17. QED
  BY <1>6, <1>10, <1>11, <1>12, <1>13, <1>14, <1>15, <1>16
     DEF Refund!Next, Refund!vars, Refund!RequestRead, Refund!RequestCreate, Refund!EventCreates, Refund!AdminMarksRefunded, Refund!GatewayDecides

-----------------------------------------------------------------------------
(* The goods a settlement puts back *)

\* Only a settlement puts goods back.
LEMMA RestockWriters ==
  ASSUME [Refund!Next]_Refund!vars
  PROVE  UNCHANGED restocks \/ \E a \in Starters : Refund!Settle(a)
<1>1. ASSUME NEW a \in Starters, NEW r \in Refund!Ids, NEW s \in Statuses, Refund!AdminStarts(a, r, s)
      PROVE  UNCHANGED restocks
  BY <1>1 DEF Refund!AdminStarts, Refund!Start
<1>2. ASSUME NEW a \in Starters, Refund!SettleConfirmed(a)
      PROVE  UNCHANGED restocks
  BY <1>2 DEF Refund!SettleConfirmed, Refund!Start
<1>3. ASSUME NEW a \in Starters,
             \/ Refund!Decide(a) \/ Refund!Claim(a) \/ Refund!CallAccepted(a) \/ Refund!CallFails(a)
             \/ Refund!WriteOutcome(a) \/ Refund!Inquire(a) \/ Refund!Crash(a)
      PROVE  UNCHANGED restocks
  BY <1>3 DEF Refund!Decide, Refund!Claim, Refund!CallAccepted, Refund!CallFails, Refund!WriteOutcome, Refund!Inquire, Refund!Crash
<1>4. QED
  BY <1>1, <1>2, <1>3
     DEF Refund!Next, Refund!vars, Refund!RequestRead, Refund!RequestCreate, Refund!EventCreates, Refund!AdminMarksRefunded,
         Refund!ReconcileRead, Refund!GatewayDecides

\* No refund puts the goods back that it, or the cancellation, has put back.
LEMMA NextRestocked ==
  ASSUME Refund!TypeOK, Requests, Refund!RestockedOncePerRefund, [Refund!Next]_Refund!vars
  PROVE  Refund!RestockedOncePerRefund'
<1>1. CASE UNCHANGED restocks
  BY <1>1 DEF Refund!RestockedOncePerRefund
<1>2. ASSUME NEW a \in Starters, Refund!Settle(a), restocks' # restocks
      PROVE  Refund!RestockedOncePerRefund'
  <2> DEFINE r == admin[a].refund
  <2>1. r \in Refund!Ids /\ r # Refund!TheOrder
    BY <1>2 DEF Refund!Settle, Requests, Refund!Ids, Refund!TheOrder
  <2>2. restocks' = Append(restocks, r) /\ ~Refund!RestockedFor(Refund!TheOrder) /\ ~Refund!RestockedFor(r)
    BY <1>2 DEF Refund!Settle, Refund!Restocks
  <2>3. restocks \in Seq(Refund!Ids \cup {Refund!TheOrder})
    BY RefundsTyped
  <2> DEFINE n == Len(restocks)
  <2>4. /\ n \in Nat /\ Len(restocks') = n + 1 /\ restocks'[n + 1] = r
        /\ \A i \in 1..n : restocks'[i] = restocks[i]
    BY <2>1, <2>2, <2>3, AppendProperties
  <2>5. \A i \in 1..n : restocks[i] # Refund!TheOrder /\ restocks[i] # r
    BY <2>2 DEF Refund!RestockedFor
  <2> HIDE DEF n, r
  <2>6. \A i \in 1..(n + 1) : i \in 1..n \/ i = n + 1
    BY <2>4
  <2>7. \A i, j \in 1..n : i # j => restocks[i] # restocks[j]
    BY DEF Refund!RestockedOncePerRefund, n
  <2>8. \A i, j \in 1..(n + 1) :
          i # j => restocks'[i] # restocks'[j] /\ restocks'[i] # Refund!TheOrder
    BY <2>1, <2>4, <2>5, <2>6, <2>7
  <2>9. QED
    BY <2>4, <2>8 DEF Refund!RestockedOncePerRefund
<1>3. QED
  BY <1>1, <1>2, RestockWriters

-----------------------------------------------------------------------------
(* The invariant *)

\* It holds before the first request.
LEMMA RefundsInit == Usual /\ Refund!Init => RefundsInv /\ Refund!RestockedOncePerRefund
<1> SUFFICES ASSUME Usual, Refund!Init
             PROVE  RefundsInv /\ Refund!RestockedOncePerRefund
  OBVIOUS
<1>1. /\ \A a \in Starters : admin[a].pc = "idle"
      /\ \A r \in Refund!Ids : refunds[r].ref = Refund!NoRef
      /\ \A t \in Refund!Transfers : transfers[t].state = "none" /\ transfers[t].refund = 0
      /\ payment.refunded = FALSE
  BY DEF Refund!Init, Refund!Idle, Refund!NoRefund, Refund!NoTransfer
<1>2. Refund!TypeOK
  BY RefundsInitTypeOK
<1>3. Requests
  BY <1>1 DEF Requests
<1>4. Refund!Accepted = {}
  BY <1>1 DEF Refund!Accepted
<1>5. TransfersNumbered
  <2>1. 0 \in 0..MaxTransfers /\ 1..0 = {}
    BY DEF Usual
  <2>2. QED
    BY <1>1, <1>4, <2>1 DEF TransfersNumbered
<1>6. RefundsClaimed
  BY <1>1, <1>4 DEF RefundsClaimed
<1>7. Confirmations
  BY <1>1 DEF Confirmations, Refund!SettledOnConfirmation
<1>8. Refund!RestockedOncePerRefund
  <2>1. Len(restocks) \in {0, 1}
    BY DEF Refund!Init
  <2>2. QED
    BY <2>1 DEF Refund!RestockedOncePerRefund
<1>9. QED
  BY <1>2, <1>3, <1>5, <1>6, <1>7, <1>8 DEF RefundsInv

\* Every step keeps it.
LEMMA RefundsInvariance ==
  ASSUME Usual
  PROVE  Refund!Spec => [](RefundsInv /\ Refund!RestockedOncePerRefund)
<1>1. Refund!Init => RefundsInv /\ Refund!RestockedOncePerRefund
  BY RefundsInit
<1>2. RefundsInv /\ Refund!RestockedOncePerRefund /\ [Refund!Next]_Refund!vars =>
        (RefundsInv /\ Refund!RestockedOncePerRefund)'
  BY NextRefundsTypeOK, NextRequests, NextTransfersNumbered, NextRefundsClaimed, NextConfirmations,
     NextRestocked DEF RefundsInv
<1>3. QED
  BY <1>1, <1>2, PTL DEF Refund!Spec

-----------------------------------------------------------------------------
(* What it promises *)

\* Rows, requests and transfers keep their types, so no settlement names a
\* refund that does not exist.
THEOREM RefundsTypeCorrect ==
  ASSUME Usual
  PROVE  Refund!Spec => []Refund!TypeOK
<1>1. RefundsInv => Refund!TypeOK
  BY DEF RefundsInv
<1>2. QED
  BY <1>1, RefundsInvariance, PTL

\* One claim, one call of the gateway: two requests are never sending the same
\* refund, and none sends one that the gateway has accepted, however answers
\* are lost.
THEOREM OneInitiationHolds ==
  ASSUME Usual
  PROVE  Refund!Spec => []OneInitiation
<1>1. RefundsInv => OneInitiation
  <2> SUFFICES ASSUME RefundsInv, NEW r \in Refund!Ids
               PROVE  Cardinality({a \in Starters : admin[a].pc = "call" /\ admin[a].refund = r})
                        + Cardinality({t \in Refund!Transfers : transfers[t].refund = r}) <= 1
    BY SameCardinality DEF OneInitiation, Refund!OneInitiation
  <2> DEFINE C == {a \in Starters : admin[a].pc = "call" /\ admin[a].refund = r}
             T == {t \in Refund!Transfers : transfers[t].refund = r}
  <2>1. T \subseteq Refund!Accepted
    <3>1. r # 0
      BY DEF Refund!Ids
    <3>2. QED
      BY <3>1 DEF RefundsInv, TransfersNumbered, Refund!Accepted
  <2>2. \A a, b \in C : a = b
    BY DEF RefundsInv, RefundsClaimed
  <2>3. \A t, q \in T : t = q
    BY <2>1 DEF RefundsInv, RefundsClaimed
  <2>4. C = {} \/ T = {}
    BY <2>1 DEF RefundsInv, RefundsClaimed
  <2> HIDE DEF C, T
  <2>5. C = {} \/ \E a : C = {a}
    <3>1. ASSUME NEW a \in C
          PROVE  C = {a}
      BY <2>2
    <3>2. QED
      BY <3>1
  <2>6. T = {} \/ \E t : T = {t}
    <3>1. ASSUME NEW t \in T
          PROVE  T = {t}
      BY <2>3
    <3>2. QED
      BY <3>1
  <2>7. Cardinality(C) \in {0, 1} /\ (C = {} => Cardinality(C) = 0)
    BY <2>5, FS_EmptySet, FS_Singleton
  <2>8. Cardinality(T) \in {0, 1} /\ (T = {} => Cardinality(T) = 0)
    BY <2>6, FS_EmptySet, FS_Singleton
  <2>9. Cardinality(C) + Cardinality(T) <= 1
    BY <2>4, <2>7, <2>8
  <2>10. QED
    BY <2>9 DEF C, T
<1>2. QED
  BY <1>1, RefundsInvariance, PTL

\* An online payment becomes refunded only after the gateway has paid the
\* customer, or by a request with a reference an admin has typed.
THEOREM PaidBackOnConfirmation ==
  ASSUME Usual
  PROVE  Refund!Spec => []SettledOnConfirmation
<1>1. RefundsInv => SettledOnConfirmation
  BY DEF RefundsInv, Confirmations, SettledOnConfirmation
<1>2. QED
  BY <1>1, RefundsInvariance, PTL

\* A refund puts the goods back once, and never those of a cancelled order.
THEOREM GoodsComeBackOnce ==
  ASSUME Usual
  PROVE  Refund!Spec => []RestockedOncePerRefund
BY RefundsInvariance, PTL DEF RestockedOncePerRefund

-----------------------------------------------------------------------------
\* The run on both components (MCPayments) has only behaviours of each, so that
\* the theorems above are about what it checks.
THEOREM RunIsOfBoth == MCSpec => Spec /\ Refund!Spec
<1>1. MCInit => Init /\ Refund!Init
  BY DEF MCInit
<1>2. [MCNext]_<<part, vars, refunding>> => [Next]_vars /\ [Refund!Next]_Refund!vars
  BY DEF MCNext, refunding, Refund!vars
<1>3. QED
  BY <1>1, <1>2, PTL DEF MCSpec, Spec, Refund!Spec
=============================================================================
