SPECIFICATION InvSpec
CONSTANTS
  Null = Null
  Users = {u1, u2}
  Reqs = {r1, r2, r3}
  SeedOrgs = {o1}
  SeedInvs = {i1}
  Names = {n1}
  Stamps = {1}
  Roles = {"OWNER", "ADMIN", "MEMBER"}
  InvOps <- AnswerOps
  InvExclusive = FALSE
SYMMETRY Symmetry
INVARIANTS InvInv ExpiredMeansPast
PROPERTIES AcceptanceJoinsAddressee MembersWereInvited
CHECK_DEADLOCK FALSE
