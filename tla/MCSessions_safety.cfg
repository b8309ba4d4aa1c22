SPECIFICATION FairSpec
CONSTANTS
  User = {u1}
  Rank = {"OWNER", "STAFF"}
  Device = {d1, d2}
  Refresh = {t1, t2}
  Access = {a1, a2}
  Handler = {h1, h2}
  RefreshLife = 2
  AccessLife = 1
  None = None
INVARIANTS
  TypeOK
  StaysBound
PROPERTIES
  InactiveGetsNothing
  StandingCatchesUp
