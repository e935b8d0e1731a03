\* An initiation that cleans up a stale payment races its success.
SPECIFICATION MCSpec
CONSTANTS
  Starters = {i1}
  MaxPayments = 2
  AdminStatuses = {}
  Methods = {"online"}
  Statuses = {}
  MaxRefunds = 1
  MaxTransfers = 1
PROPERTY PaidIsNotDemoted
CHECK_DEADLOCK FALSE
