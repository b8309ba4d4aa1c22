SPECIFICATION Spec
CONSTANTS
  Row = {r1, r2}
  r1 = r1
  r2 = r2
  Nobody = Nobody
  Seller = {s1}
  Refunder = {f1, f2}
  Stocker = {}
  Carts <- CrossCarts
  StockJobs <- Purchases
  Amounts = {5}
  OpeningStock <- Opening
  MaxQty = 3
  MaxAttempts = 2
INVARIANTS
  RefundedOnce
