-------------------------------- MODULE MCAccess --------------------------------
\* Two shops of one organization, a shop of another and an organization without
\* shops; a person of each role, with and without an organization.
EXTENDS Access

R(role, org, access, staff) ==
  [role |-> role, org |-> org, access |-> access, active |-> TRUE, staff |-> staff]
MCRows ==
  {R("STAFF", "o", "NONE", {1}), R("MANAGER", "o", "ONE_SHOP", {2}),
   R("MANAGER", "o", "ALL_SHOPS", {}),
   R("OWNER", "o", "NONE", {}), R("OWNER", NoOrg, "NONE", {}), R("ADMIN", NoOrg, "NONE", {}),
   R("ADMIN", "p", "NONE", {}), R("SUPER_ADMIN", NoOrg, "NONE", {})}
\* Unfiltered bodies: another organization, an unfit assignment, and another role.
MCWritten ==
  {R("OWNER", "p", "NONE", {}), R("MANAGER", "o", "NONE", {1}), R("STAFF", "o", "NONE", {1})}
MCOrgOf == [s \in 1..3 |-> IF s = 3 THEN "p" ELSE "o"]
===============================================================================
