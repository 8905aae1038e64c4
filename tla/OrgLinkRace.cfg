SPECIFICATION OrgSpec
CONSTANTS
  Null = Null
  Users = {u1, u2, u3}
  Reqs = {r1, r2}
  SeedOrgs = {o1}
  SeedLinks = {l1}
  Names = {n1}
  Stamps = {1}
  Roles = {"OWNER", "ADMIN"}
  Ops = {"joinByToken"}
  Exclusive = FALSE
PROPERTIES UsedLinkAdmitsNobody
CHECK_DEADLOCK FALSE
