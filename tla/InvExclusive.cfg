SPECIFICATION InvSpec
CONSTANTS
  Null = Null
  Users = {u1, u2}
  Reqs = {r1, r2}
  SeedOrgs = {o1}
  SeedInvs = {i1}
  Names = {n1}
  Stamps = {1}
  Roles = {"OWNER", "ADMIN"}
  InvOps <- AllInvOps
  InvExclusive = TRUE
SYMMETRY Symmetry
INVARIANT OnePendingPerAddress
PROPERTIES TerminalIsFinal ImplementsLifecycle
CHECK_DEADLOCK FALSE
