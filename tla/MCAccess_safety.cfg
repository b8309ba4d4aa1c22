SPECIFICATION Spec
CONSTANTS
  Orgs = {"o", "p", "q"}
  Shops = {1, 2, 3}
  OrgOf <- MCOrgOf
  Owned = {1}
  Rows <- MCRows
  Written <- MCWritten
  Requests = {"r1"}
  MaxChanges = 3
INVARIANTS
  TypeOK
  MatrixHolds
  HalvesHold
CHECK_DEADLOCK FALSE
