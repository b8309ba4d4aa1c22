SPECIFICATION Spec
CONSTANTS
  Shops = {"a", "b"}
  Variants = {"x", "y"}
  Methods = {"CASH", "MOBILE"}
  Categories = {"rent", "fuel"}
  Writes <- MCWrites
  What <- MCWhat
  Bodies <- MCBodies
  Allowed = {"a", "b"}
  Opening <- MCOpening
  PeriodLength <- MCPeriodLength
  ListLimit = 2
  MaxRange = 2
  MaxPoints = 3
  MaxTop = 2
  MaxMoves = 2
  MaxTime = 1
  MaxOpen = 1
  MaxCommits = 2
  MaxDuring = 1
  TicksInReport = FALSE
INVARIANTS
  NetCashIsLedgerNet
CHECK_DEADLOCK FALSE
