SPECIFICATION OrgSpec
CONSTANTS
  Null = Null
  Users = {u1, u2}
  Reqs = {r1, r2, r3}
  SeedOrgs = {o1}
  SeedLinks = {l1}
  Names = {n1}
  Stamps = {1}
  Roles = {"OWNER", "ADMIN"}
  Ops <- MemberOps
  Exclusive = FALSE
SYMMETRY Symmetry
INVARIANT OrgInv
PROPERTIES RemovalHitsOnlyTarget RoleChangeKeepsRow JoinersComeThroughLinks
CHECK_DEADLOCK FALSE
