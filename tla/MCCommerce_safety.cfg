SPECIFICATION Spec
CONSTANTS
  Row = {r1, r2}
  r1 = r1
  r2 = r2
  Nobody = Nobody
  Seller = {s1, s2}
  Refunder = {f1}
  Stocker = {k1, k2}
  Carts <- BothCarts
  StockJobs <- LedgerJobs
  Amounts = {5}
  OpeningStock <- Opening
  MaxQty = 3
  MaxAttempts = 3
INVARIANTS
  TypeOK
  StockInRange
  LedgerExplainsStock
  BooksAgree
  StockAccountsForSales
SYMMETRY Symmetry
