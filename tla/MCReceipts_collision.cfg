SPECIFICATION Spec
CONSTANTS
  o1 = o1
  o2 = o2
  i1 = i1
  i2 = i2
  i3 = i3
  Org = {o1, o2}
  Issuer = {i1, i2}
  OrgOf <- Pair
  Clerk = {}
  LastKey = 0
  MaxSaleAttempts = 2
  Nobody = Nobody
INVARIANTS
  CollisionIsRetried
