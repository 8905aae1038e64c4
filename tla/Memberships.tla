---------------------------- MODULE Memberships ----------------------------
(***************************************************************************)
(* The two tables OrganizationsService and InvitationsService share:       *)
(* organizations and organization_members.  This module has no actions of  *)
(* its own; the services' modules extend it and say who writes them.       *)
(*                                                                         *)
(* Identifiers.  A row inserted while the model runs is identified by the  *)
(* request that inserted it (a request inserts at most one row of a table, *)
(* and cuid()s are never reused).  Rows that exist before the first        *)
(* request carry the seed identifiers.                                     *)
(***************************************************************************)

CONSTANTS
  Users,      \* user rows, as the JWT guard leaves them in the request
  SeedOrgs,   \* organizations that exist in the initial state
  Reqs,       \* HTTP requests; each is issued at most once
  Roles,      \* the member roles requests and rows may carry
  Names,      \* slugified organization names
  Stamps,     \* Date.now() values, appended to a name whose slug is taken
  Null        \* SQL NULL, and "no such row"

OrgIds    == SeedOrgs \cup Reqs
MemberIds == (SeedOrgs \X Users) \cup Reqs
Slugs     == Names \cup (Names \X Stamps)

AllRoles   == {"OWNER", "ADMIN", "MEMBER", "EXTERNAL_TECH"}
AdminRoles == {"OWNER", "ADMIN"}

ASSUME RolesAssumption == AdminRoles \subseteq Roles /\ Roles \subseteq AllRoles
ASSUME IdAssumption ==
  /\ SeedOrgs \cap Reqs = {}
  /\ (SeedOrgs \X Users) \cap Reqs = {}
  /\ Null \notin Users \cup OrgIds \cup MemberIds \cup Slugs

VARIABLES
  orgs,       \* orgs[o]: the organizations row; slug = Null until inserted
  members     \* members[o][u]: the row of the unique key (userId, organizationId)

NoOrg     == [slug |-> Null, isActive |-> FALSE, deleted |-> FALSE]
OrgRow    == [slug : Slugs \cup {Null}, isActive : BOOLEAN, deleted : BOOLEAN]
NoMember  == [id |-> Null, role |-> "NONE"]
MemberRow == [id : MemberIds, role : Roles]

TablesOK ==
  /\ orgs \in [OrgIds -> OrgRow]
  /\ members \in [OrgIds -> [Users -> MemberRow \cup {NoMember}]]

(***************************************************************************)
(* Queries.                                                                *)
(***************************************************************************)
ExistingOrg          == {o \in OrgIds : orgs[o].slug # Null}
IsMember(u, o)       == members[o][u] # NoMember
IsAdminOrOwner(u, o) == members[o][u].role \in AdminRoles
IsOwner(u, o)        == members[o][u].role = "OWNER"
Owners(o)            == {u \in Users : IsOwner(u, o)}
Admins(o)            == {u \in Users : IsAdminOrOwner(u, o)}

(***************************************************************************)
(* Writes.  update and delete address a row by its primary key, so they    *)
(* find it wherever it is and whatever has happened to it since it was     *)
(* read.                                                                   *)
(***************************************************************************)
InsertMember(id, u, o, role) ==
  members' = [members EXCEPT ![o][u] = [id |-> id, role |-> role]]

(* What if the update were by organization and not by row? *)
SetRoleInOrg(id, role) ==
  members' = [o \in OrgIds |-> [u \in Users |->
    IF members[o][u] # NoMember /\ \E v \in Users : members[o][v].id = id
    THEN [members[o][u] EXCEPT !.role = role] ELSE members[o][u]]]

SetRoleById(id, role) ==
  members' = [o \in OrgIds |-> [u \in Users |->
    IF members[o][u].id = id THEN [id |-> id, role |-> role] ELSE members[o][u]]]

DeleteMemberById(id) ==
  members' = [o \in OrgIds |-> [u \in Users |->
    IF members[o][u].id = id THEN NoMember ELSE members[o][u]]]

(***************************************************************************)
(* The organizations a behaviour starts with: live, active, each with an   *)
(* owner and any other members.  All of these states are reached from an   *)
(* empty database by create, invite links and updateMemberRole.            *)
(***************************************************************************)
SeedMembers(role) ==
  [o \in OrgIds |-> [u \in Users |->
     IF o \in SeedOrgs /\ role[<<o, u>>] # "NONE"
     THEN [id |-> <<o, u>>, role |-> role[<<o, u>>]] ELSE NoMember]]

TablesInit ==
  /\ \E slug \in [SeedOrgs -> Names] :
       /\ \A a, b \in SeedOrgs : slug[a] = slug[b] => a = b
       /\ orgs = [o \in OrgIds |->
            IF o \in SeedOrgs
            THEN [slug |-> slug[o], isActive |-> TRUE, deleted |-> FALSE] ELSE NoOrg]
  /\ \E role \in [SeedOrgs \X Users -> Roles \cup {"NONE"}] :
       /\ \A o \in SeedOrgs : \E u \in Users : role[<<o, u>>] = "OWNER"
       /\ members = SeedMembers(role)
=============================================================================
