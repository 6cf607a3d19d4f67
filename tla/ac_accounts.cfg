SPECIFICATION Spec
CONSTANTS
  Requests = {r1, r2, r3}
  Emails = {e1, e2}
  Phones = {p1}
  NoPhone = NoPhone
  Networks = {n1}
INVARIANTS
  TypeOK
  UsersDistinct
  RowsDistinct
  AddressIsKept
CHECK_DEADLOCK FALSE
