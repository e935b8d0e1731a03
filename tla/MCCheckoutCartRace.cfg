\* The customer adds another unit while the checkout is in progress.
SPECIFICATION Spec
CONSTANTS
  Null = Null
  Users = {u1}
  PhoneUsers = {}
  Skus = {1}
  OrderIds = {o1}
  Keys = {}
  Hashes = {h1}
  Reqs = {r1}
  Cancels = {c1}
  InitStock <- TwoOfEach
  InitCart <- CartsWithOneOfEach
  InitPoints <- NoPoints
  MaxUses = 1
  MaxAdded = 2
  AdminStatuses = {}
PROPERTY CartAdditionsPreserved
CHECK_DEADLOCK FALSE
