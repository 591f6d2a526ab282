CONSTANTS
  m1 = m1
  m2 = m2
  u1 = u1
  u2 = u2
  org1 = org1
  prod = prod
  other = other
  Memberships = {m1}
  AccountOf <- OneAccount
  UserOf <- TwoUsers
  EventTypes <- TwoTypes
  Products = {prod, other, None}
  RequiredProduct = prod
  Replicas = {p1, p2}
  InOrder = TRUE
  MaxEvents = 2
  MaxFaults = 2
  None = None
SPECIFICATION FairSpec
INVARIANTS TypeOK AppliedOnce AccessFollowsWhop
PROPERTIES NeverGoesBack EventsAnswered
CHECK_DEADLOCK FALSE
