SPECIFICATION Spec
CONSTANTS
  Email = {e1}
  Uid = {i1}
  User = {u1}
  Org = {o1, o2}
  Shop = {s1}
  Handler = {h1, h2}
  Platform = {"SUPER_ADMIN"}
  MaxChanges = 0
  None = None
INVARIANTS
  SuperAdminHasNoOrg
