SPECIFICATION Spec
CONSTANTS
  o1 = o1
  o2 = o2
  Orders = {o1, o2}
  Quantity <- TwoAndOne
  Rowless = {}
  Columnless = {o2}
  Matching = {o1}
  NoJob = NoJob
  MaxFaults = 1
  MaxRestarts = 1
INVARIANTS
  TypeOK
  WalletFollowsExchange
  RowFollowsExchange
  SuccessIsBooked
  CancelledRowGone
CHECK_DEADLOCK FALSE
