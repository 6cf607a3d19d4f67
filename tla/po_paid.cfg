SPECIFICATION PathSpec
CONSTANTS
  Requests = {r1, r2}
  Offered <- AllTransfers
  Amounts = {1, 2}
  Funds = 2
  MaxFaults = 1
INVARIANTS
  TypeOK
  RowsTellOfTransfers
  FailureIsUnpaid
  SuccessIsFunded
  PaidIsPursued
PROPERTIES
  PaidIsRecorded
  ImplementsFollowUp
CHECK_DEADLOCK FALSE
