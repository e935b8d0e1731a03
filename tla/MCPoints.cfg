\* Two purchases are reviewed, deleted and reviewed again while two orders spend
\* points that expire; one customer sends the same checkout twice, with and
\* without a key, while changing the cart, and orders reach every status.
SPECIFICATION MCSpec
CONSTANTS
  Items = {i1, i2}
  Reqs = {r1, r2}
  OrderIds = {o1, o2}
  Admins = {a1}
  Rewarded = {0, 1}
  MaxSpend = 1
  MaxSerial = 3
  Users = {Customer}
  PhoneUsers = {Customer}
  Skus = {1}
  Keys = {Key}
  Null = Null
  Hashes = {i1, i2}
  Cancels = {Cancel}
  InitStock <- TwoOfEach
  InitCart <- OneOfEach
  InitPoints <- TwoPoints
  MaxUses = 1
  MaxAdded = 2
  AdminStatuses = {"processing", "shipped", "out_for_delivery", "delivered", "refunded"}
SYMMETRY Symmetry
VIEW Visible
INVARIANTS RewardedOnce NotOverspent PointsConserved OneOrderPerKey ReplaysAgree CancelledMoneyIsOwed
CHECK_DEADLOCK FALSE
