\* Two initiations and two payment rows, every callback late or repeated; two
\* admins with what their page offers, and a resubmission of the refund.
SPECIFICATION MCSpec
CONSTANTS
  Starters = {i1, i2}
  MaxPayments = 2
  AdminStatuses = {"processing", "shipped", "out_for_delivery", "delivered", "refunded"}
  Methods = {"online", "cod"}
  Statuses = {"processed", "rejected"}
  MaxRefunds = 2
  MaxTransfers = 2
SYMMETRY Symmetry
CONSTRAINT InTurn
INVARIANTS PaidHasCompletedPayment CancelledPaidIsFlagged InitiatedIsRetryable OneInitiation SettledOnConfirmation RestockedOncePerRefund
PROPERTIES ExpiryNeverCancelsPaid
CHECK_DEADLOCK FALSE
