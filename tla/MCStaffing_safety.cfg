SPECIFICATION Spec
CONSTANTS
  Email = {e1, e2}
  Uid = {i1}
  User = {u1, u2}
  Org = {o1, o2}
  Platform = {"SUPER_ADMIN"}
  Shop = {s1}
  Handler = {h1, h2}
  MaxChanges = 1
  None = None
SYMMETRY Symmetry
INVARIANTS
  TypeOK
  AssignmentFits
  AssignedWithinOrg
  InvitedHasAccount
PROPERTIES
  InvitedStaysInvited
