\* Two customers compete for the last unit of two SKUs and one promo use: one
\* SKU is in their carts, the other they may add.
SPECIFICATION Spec
CONSTANTS
  Null = Null
  Users = {u1, u2}
  PhoneUsers = {u1, u2}
  Skus = {1, 2}
  OrderIds = {o1, o2}
  Keys = {}
  Hashes = {h1}
  Reqs = {r1, r2}
  Cancels = {c1, c2}
  InitStock <- OneOfEach
  InitCart <- CartsWithTheFirst
  InitPoints <- NoPoints
  MaxUses = 1
  MaxAdded = 1
  AdminStatuses = {"processing"}
SYMMETRY Symmetry
CONSTRAINT Explored
VIEW Goods
INVARIANTS LocksProtect StockConserved PromoUsesCounted CheckoutsDeadlockFree OrderedAtMostAdded
CHECK_DEADLOCK FALSE
