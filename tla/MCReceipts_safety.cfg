SPECIFICATION FairSpec
CONSTANTS
  o1 = o1
  o2 = o2
  i1 = i1
  i2 = i2
  i3 = i3
  Org = {o1, o2}
  Issuer = {i1, i2, i3}
  OrgOf <- TwoOrgs
  Clerk = {c1}
  LastKey = 1
  MaxSaleAttempts = 2
  Nobody = Nobody
INVARIANTS
  TypeOK
  OrgNumbersDistinct
  CounterCountsReceipts
  RefundVoids
PROPERTIES
  SaleAnswered
