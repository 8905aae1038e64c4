SPECIFICATION OrgSpec
CONSTANTS
  Null = Null
  Users = {u1, u2}
  Reqs = {r1, r2, r3}
  SeedOrgs = {o1}
  SeedLinks = {l1}
  Names = {n1}
  Stamps = {1}
  Roles = {"OWNER", "ADMIN", "MEMBER"}
  Ops <- AllOps
  Exclusive = TRUE
SYMMETRY Symmetry
PROPERTIES UsedLinkAdmitsNobody LeavingKeepsAnOwner WriterIsAdmin
CHECK_DEADLOCK FALSE
