SPECIFICATION RegisteredSpec
CONSTANTS
  Null = Null
  Users = {u1, u2}
  Reqs = {r1, r2, r3}
  SeedOrgs = {o1}
  SeedLinks = {l1}
  SeedInvs = {i1}
  Names = {n1}
  Stamps = {1}
  Roles = {"OWNER", "ADMIN"}
  Ops = {"joinByToken", "removeMember"}
  Exclusive = FALSE
  InvOps = {"accept"}
  InvExclusive = FALSE
SYMMETRY Symmetry
PROPERTIES OneDoorPerMember NothingSpentForNothing
CHECK_DEADLOCK FALSE
