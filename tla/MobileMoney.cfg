SPECIFICATION MomoSpec
CONSTANTS
  Workers = {w1, w2}
  Providers = {p1, p2}
  Escrows = {e1}
  MaxOrders = 2
  MaxOpen = 0
INVARIANT TwiceOnlyIfGivenUp
PROPERTIES TransferIsRecorded
CHECK_DEADLOCK FALSE
