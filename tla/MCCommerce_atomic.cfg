SPECIFICATION FairSpec
CONSTANTS
  Row = {r1, r2}
  r1 = r1
  r2 = r2
  Nobody = Nobody
  Seller = {s1, s2}
  Refunder = {f1}
  Stocker = {k1}
  Carts <- CrossCarts
  StockJobs <- AllJobs
  Amounts = {5}
  OpeningStock <- Opening
  MaxQty = 3
  MaxAttempts = 3
PROPERTIES
  AtomicSpec
  EveryRequestAnswered
