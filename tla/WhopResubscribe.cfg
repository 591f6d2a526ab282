CONSTANTS
  m1 = m1
  m2 = m2
  u1 = u1
  u2 = u2
  org1 = org1
  prod = prod
  other = other
  Memberships = {m1, m2}
  AccountOf <- OneAccount
  UserOf <- OneUser
  EventTypes <- TwoTypes
  Products = {prod}
  RequiredProduct = prod
  Replicas = {p1}
  InOrder = TRUE
  MaxEvents = 2
  MaxFaults = 0
  None = None
SPECIFICATION Spec
INVARIANTS FalseForDuplicates
CHECK_DEADLOCK FALSE
