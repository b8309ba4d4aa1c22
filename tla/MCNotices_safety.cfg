SPECIFICATION FairSpec
CONSTANTS
  Orgs = {"o", "p"}
  Shops = {"a", "b"}
  OrgOf <- MCOrgOf
  Traders = {"t1", "t2"}
  ShopOf <- MCShopOf
  Readers = {"r1", "r2"}
  Homes <- MCHomes
  Limit = 1
  MaxTrades <- MCMaxTrades
INVARIANTS
  TypeOK
  TradesAccounted
  MarkedAll
PROPERTIES
  NotesStay
  TradeAnswered
CHECK_DEADLOCK FALSE
