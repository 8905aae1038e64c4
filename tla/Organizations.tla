--------------------------- MODULE Organizations ---------------------------
(***************************************************************************)
(* OrganizationsService: creating, updating and removing organizations,    *)
(* changing and removing memberships, and invite links.                    *)
(*                                                                         *)
(* Every handler is an async function.  Each awaited Prisma call is one    *)
(* atomic step, and handlers interleave freely between the calls; req[r]   *)
(* is the frame of request r: pc names the database call it makes next,    *)
(* the other fields are its parameters and the local variables it keeps    *)
(* across an await.  A check that throws ends the request.                 *)
(***************************************************************************)
EXTENDS Memberships

CONSTANTS
  SeedLinks,  \* invite links that exist, unused, in the initial state
  Ops,        \* the operations clients call
  Exclusive   \* TRUE: clients never overlap two requests whose scopes meet

LinkIds == SeedLinks \cup Reqs

AllOps == {"create", "updateMemberRole", "update", "remove", "removeMember",
           "createInviteLink", "revokeInviteLink", "joinByToken"}

ASSUME LinkAssumption == SeedLinks \cap Reqs = {} /\ Null \notin LinkIds
ASSUME OpsAssumption  == Ops \subseteq AllOps
ASSUME ExclusiveAssumption == Exclusive \in BOOLEAN

VARIABLES
  links,      \* links[l]: the invite_links row
  req,        \* req[r]: the frame of request r
  fired       \* notifications handed to NotificationsService.fire/fireBulk

orgVars == <<orgs, members, links, req, fired>>

(* state "none": not inserted yet; "open": usedAt is null; "gone": deleted  *)
(* (its other fields are read by no action after that).                     *)
NoLink  == [state |-> "none", org |-> Null, role |-> "NONE", expired |-> FALSE]
LinkRow == [state : {"none", "open", "used", "gone"}, org : OrgIds \cup {Null},
            role : Roles \cup {"NONE"}, expired : BOOLEAN]

Blank == [pc |-> "new", op |-> "none", by |-> Null, org |-> Null, user |-> Null,
          row |-> Null, link |-> Null, role |-> "NONE", slug |-> Null, flag |-> FALSE]
Done  == [Blank EXCEPT !.pc = "done"]

PCs == {"new", "caller", "slug", "insert", "write", "count", "target", "delete",
        "find", "link", "existing", "tx", "notify", "done"}

Frame == [pc : PCs, op : AllOps \cup {"none"}, by : Users \cup {Null},
          org : OrgIds \cup {Null}, user : Users \cup {Null},
          row : MemberIds \cup {Null}, link : LinkIds \cup {Null},
          role : Roles \cup {"NONE"}, slug : Slugs \cup {Null}, flag : BOOLEAN]

Notice == [type : {"ROLE_CHANGED", "INVITE_ACCEPTED"}, to : Users, req : Reqs]

OrgTypeOK ==
  /\ TablesOK
  /\ links \in [LinkIds -> LinkRow]
  /\ req \in [Reqs -> Frame]
  /\ fired \subseteq Notice

OrgInit ==
  /\ TablesInit
  /\ \E org \in [SeedLinks -> SeedOrgs], role \in [SeedLinks -> Roles] :
       links = [l \in LinkIds |->
         IF l \in SeedLinks
         THEN [state |-> "open", org |-> org[l], role |-> role[l], expired |-> FALSE]
         ELSE NoLink]
  /\ req = [r \in Reqs |-> Blank]
  /\ fired = {}

-----------------------------------------------------------------------------
(***************************************************************************)
(* Requests.                                                               *)
(***************************************************************************)
At(r, op, pc)  == req[r].op = op /\ req[r].pc = pc
InFlight(r)    == req[r].pc \notin {"new", "done"}
Goto(r, pc)    == req' = [req EXCEPT ![r].pc = pc]
Finish(r)      == req' = [req EXCEPT ![r] = Done]

(* Go on at pc if the check holds; otherwise the handler throws. *)
Check(r, ok, pc) == IF ok THEN Goto(r, pc) ELSE Finish(r)

(* The organizations a request is about: the one in its URL, or of the link *)
(* it names, and the one of the membership it names by row id.              *)
Scope(f) ==
  {IF f.link # Null THEN links[f.link].org ELSE f.org}
  \cup {o \in OrgIds : \E v \in Users : IsMember(v, o) /\ members[o][v].id = f.row}

(* Clients of an Exclusive instance wait for the requests of their scope.   *)
MayIssue(f) == Exclusive => \A q \in Reqs : InFlight(q) => Scope(req[q]) \cap Scope(f) = {}

Issue(r, f) ==
  /\ req[r].pc = "new"
  /\ f.op \in Ops
  /\ MayIssue(f)
  /\ req' = [req EXCEPT ![r] = f]
  /\ UNCHANGED <<orgs, members, links, fired>>

KnownLink == {l \in LinkIds : links[l].state # "none"}

Ask(op, u, o) == [Blank EXCEPT !.pc = "caller", !.op = op, !.by = u, !.org = o]

(* The calls of organizations.controller.ts that user u can make.  A role   *)
(* change names a membership by its row id, whichever organization the URL  *)
(* names beside it.                                                         *)
OwnCall(r, u) ==
  \/ \E n \in Names :
       Issue(r, [Blank EXCEPT !.pc = "slug", !.op = "create", !.by = u, !.slug = n])
  \/ \E l \in KnownLink :
       Issue(r, [Blank EXCEPT !.pc = "link", !.op = "joinByToken", !.by = u, !.link = l])

CallAbout(r, u, o) ==
  \/ \E p \in OrgIds, v \in Users, role \in Roles :
       /\ IsMember(v, p)
       /\ Issue(r, [Ask("updateMemberRole", u, o) EXCEPT
                      !.row = members[p][v].id, !.role = role])
  \/ \E b \in BOOLEAN : Issue(r, [Ask("update", u, o) EXCEPT !.flag = b])
  \/ Issue(r, Ask("remove", u, o))
  \/ \E v \in Users : Issue(r, [Ask("removeMember", u, o) EXCEPT !.user = v])
  \/ \E role \in Roles, past \in BOOLEAN :
       Issue(r, [Ask("createInviteLink", u, o) EXCEPT !.role = role, !.flag = past])
  \/ \E l \in KnownLink :
       Issue(r, [Ask("revokeInviteLink", u, o) EXCEPT !.link = l])

Call(r) ==
  \E u \in Users : OwnCall(r, u) \/ \E o \in ExistingOrg : CallAbout(r, u, o)

-----------------------------------------------------------------------------
(***************************************************************************)
(* create: look the slug up, then insert the organization and, nested in   *)
(* the same insert, its OWNER.  A slug taken meanwhile (P2002) inserts     *)
(* neither.                                                                *)
(***************************************************************************)
SlugTaken(s) == \E o \in OrgIds : orgs[o].slug = s

CreateFindSlug(r) ==
  /\ At(r, "create", "slug")
  /\ \E t \in Stamps :
       req' = [req EXCEPT ![r].pc = "insert",
                 ![r].slug = IF SlugTaken(req[r].slug) THEN <<req[r].slug, t>> ELSE @]
  /\ UNCHANGED <<orgs, members, links, fired>>

CreateInsert(r) ==
  /\ At(r, "create", "insert")
  /\ \/ /\ SlugTaken(req[r].slug)
        /\ UNCHANGED <<orgs, members>>
     \/ /\ ~SlugTaken(req[r].slug)
        /\ orgs' = [orgs EXCEPT ![r] =
                      [slug |-> req[r].slug, isActive |-> TRUE, deleted |-> FALSE]]
        /\ InsertMember(r, req[r].by, r, "OWNER")
  /\ Finish(r)
  /\ UNCHANGED <<links, fired>>

(* What if update only required a membership? *)
CheckCallerIsMember(r) ==
  LET f == req[r] IN
  /\ f.pc = "caller"
  /\ \/ f.op = "update" /\ Check(r, IsMember(f.by, f.org), "write")
     \/ f.op = "updateMemberRole" /\ Check(r, IsAdminOrOwner(f.by, f.org), "write")
     \/ f.op = "remove" /\ Check(r, IsOwner(f.by, f.org), "write")
     \/ f.op = "createInviteLink" /\ Check(r, IsAdminOrOwner(f.by, f.org), "insert")
     \/ f.op = "revokeInviteLink" /\ Check(r, IsAdminOrOwner(f.by, f.org), "find")
  /\ UNCHANGED <<orgs, members, links, fired>>

(***************************************************************************)
(* The helpers requireAdminOrOwner / requireOwner and the inline check of  *)
(* updateMemberRole: one read of the caller's row, then throw or go on.    *)
(***************************************************************************)
CheckCaller(r) ==
  LET f == req[r] IN
  /\ f.pc = "caller"
  /\ \/ f.op \in {"updateMemberRole", "update"} /\ Check(r, IsAdminOrOwner(f.by, f.org), "write")
     \/ f.op = "remove" /\ Check(r, IsOwner(f.by, f.org), "write")
     \/ f.op = "createInviteLink" /\ Check(r, IsAdminOrOwner(f.by, f.org), "insert")
     \/ f.op = "revokeInviteLink" /\ Check(r, IsAdminOrOwner(f.by, f.org), "find")
  /\ UNCHANGED <<orgs, members, links, fired>>

(* updateMemberRole, after the check: the row is addressed by its id alone; *)
(* a row deleted meanwhile is P2025 and nothing is written or notified.     *)
UpdateMemberRole(r) ==
  /\ At(r, "updateMemberRole", "write")
  /\ SetRoleById(req[r].row, req[r].role)
  /\ fired' = fired \cup {[type |-> "ROLE_CHANGED", to |-> v, req |-> r] :
                 v \in {w \in Users : \E o \in OrgIds : members[o][w].id = req[r].row}}
  /\ Finish(r)
  /\ UNCHANGED <<orgs, links>>

Update(r) ==
  /\ At(r, "update", "write")
  /\ orgs' = [orgs EXCEPT ![req[r].org].isActive = req[r].flag]
  /\ Finish(r)
  /\ UNCHANGED <<members, links, fired>>

Remove(r) ==
  /\ At(r, "remove", "write")
  /\ orgs' = [orgs EXCEPT ![req[r].org].isActive = FALSE, ![req[r].org].deleted = TRUE]
  /\ Finish(r)
  /\ UNCHANGED <<members, links, fired>>

(***************************************************************************)
(* removeMember: read the caller's row; count the owners if an owner       *)
(* leaves; read the target's row; delete it by the id that was read.       *)
(***************************************************************************)
RemoveMemberCaller(r) ==
  LET f == req[r]  self == f.by = f.user IN
  /\ At(r, "removeMember", "caller")
  /\ IF self \/ IsAdminOrOwner(f.by, f.org)
     THEN Goto(r, IF self /\ IsOwner(f.by, f.org) THEN "count" ELSE "target")
     ELSE Finish(r)
  /\ UNCHANGED <<orgs, members, links, fired>>

(* What if the count were compared off by one? *)
RemoveMemberCountNone(r) ==
  /\ At(r, "removeMember", "count")
  /\ Check(r, Owners(req[r].org) # {}, "target")
  /\ UNCHANGED <<orgs, members, links, fired>>

RemoveMemberCount(r) ==
  /\ At(r, "removeMember", "count")
  /\ Check(r, \E v, w \in Owners(req[r].org) : v # w, "target")
  /\ UNCHANGED <<orgs, members, links, fired>>

(* What if it kept the caller's row, which it has read before? *)
RemoveMemberTargetCaller(r) ==
  LET f == req[r] IN
  /\ At(r, "removeMember", "target")
  /\ IF IsMember(f.by, f.org)
     THEN req' = [req EXCEPT ![r].pc = "delete", ![r].row = members[f.org][f.by].id]
     ELSE Finish(r)
  /\ UNCHANGED <<orgs, members, links, fired>>

RemoveMemberTarget(r) ==
  LET f == req[r] IN
  /\ At(r, "removeMember", "target")
  /\ IF IsMember(f.user, f.org)
     THEN req' = [req EXCEPT ![r].pc = "delete", ![r].row = members[f.org][f.user].id]
     ELSE Finish(r)
  /\ UNCHANGED <<orgs, members, links, fired>>

(* What if the delete were by (userId, organizationId)? *)
RemoveMemberDeleteByKey(r) ==
  /\ At(r, "removeMember", "delete")
  /\ members' = [members EXCEPT ![req[r].org][req[r].user] = NoMember]
  /\ Finish(r)
  /\ UNCHANGED <<orgs, links, fired>>

RemoveMemberDelete(r) ==
  /\ At(r, "removeMember", "delete")
  /\ DeleteMemberById(req[r].row)
  /\ Finish(r)
  /\ UNCHANGED <<orgs, links, fired>>

(***************************************************************************)
(* Invite links.                                                           *)
(***************************************************************************)
CreateInviteLink(r) ==
  LET f == req[r] IN
  /\ At(r, "createInviteLink", "insert")
  /\ links' = [links EXCEPT ![r] =
                 [state |-> "open", org |-> f.org, role |-> f.role, expired |-> f.flag]]
  /\ Finish(r)
  /\ UNCHANGED <<orgs, members, fired>>

LinkExists(l) == links[l].state \in {"open", "used"}

RevokeInviteLinkFind(r) ==
  /\ At(r, "revokeInviteLink", "find")
  /\ Check(r, LinkExists(req[r].link) /\ links[req[r].link].org = req[r].org, "delete")
  /\ UNCHANGED <<orgs, members, links, fired>>

RevokeInviteLinkDelete(r) ==
  LET l == req[r].link IN
  /\ At(r, "revokeInviteLink", "delete")
  /\ links' = [links EXCEPT ![l].state = "gone"]
  /\ Finish(r)
  /\ UNCHANGED <<orgs, members, fired>>

(* What if joinByToken did not look at usedAt? *)
JoinReadAnyLink(r) ==
  LET l == links[req[r].link] IN
  /\ At(r, "joinByToken", "link")
  /\ IF l.state \in {"open", "used"} /\ ~l.expired
     THEN req' = [req EXCEPT ![r].pc = "existing", ![r].org = l.org, ![r].role = l.role]
     ELSE Finish(r)
  /\ UNCHANGED <<orgs, members, links, fired>>

(* joinByToken keeps the link row it read: its organization and its role. *)
JoinReadLink(r) ==
  LET l == links[req[r].link] IN
  /\ At(r, "joinByToken", "link")
  /\ IF l.state = "open" /\ ~l.expired
     THEN req' = [req EXCEPT ![r].pc = "existing", ![r].org = l.org, ![r].role = l.role]
     ELSE Finish(r)
  /\ UNCHANGED <<orgs, members, links, fired>>

JoinCheckMember(r) ==
  /\ At(r, "joinByToken", "existing")
  /\ Check(r, ~IsMember(req[r].by, req[r].org), "tx")
  /\ UNCHANGED <<orgs, members, links, fired>>

(* What if usedAt were set by an updateMany, which finds no row silently? *)
JoinTransactionUpdateMany(r) ==
  LET f == req[r] IN
  /\ At(r, "joinByToken", "tx")
  /\ \/ IsMember(f.by, f.org) /\ Finish(r) /\ UNCHANGED <<members, links>>
     \/ /\ ~IsMember(f.by, f.org)
        /\ InsertMember(r, f.by, f.org, f.role)
        /\ links' = [links EXCEPT ![f.link].state = IF LinkExists(f.link) THEN "used" ELSE @]
        /\ Goto(r, "notify")
  /\ UNCHANGED <<orgs, fired>>

(* What if the two writes were no transaction, the link's first? *)
JoinTransactionSplit(r) ==
  LET f == req[r] IN
  /\ At(r, "joinByToken", "tx")
  /\ links' = [links EXCEPT ![f.link].state = IF LinkExists(f.link) THEN "used" ELSE @]
  /\ \/ /\ IsMember(f.by, f.org) \/ ~LinkExists(f.link)
        /\ Finish(r)
        /\ UNCHANGED members
     \/ /\ ~IsMember(f.by, f.org) /\ LinkExists(f.link)
        /\ InsertMember(r, f.by, f.org, f.role)
        /\ Goto(r, "notify")
  /\ UNCHANGED <<orgs, fired>>

(* $transaction([create member, set usedAt]): a duplicate member (P2002) or *)
(* a deleted link (P2025) rolls both back.                                  *)
JoinTransaction(r) ==
  LET f == req[r] IN
  /\ At(r, "joinByToken", "tx")
  /\ \/ /\ IsMember(f.by, f.org) \/ ~LinkExists(f.link)
        /\ Finish(r)
        /\ UNCHANGED <<members, links>>
     \/ /\ ~IsMember(f.by, f.org) /\ LinkExists(f.link)
        /\ InsertMember(r, f.by, f.org, f.role)
        /\ links' = [links EXCEPT ![f.link].state = "used"]
        /\ Goto(r, "notify")
  /\ UNCHANGED <<orgs, fired>>

(* Read the administrators, then notify them all but the joiner. *)
JoinNotify(r) ==
  /\ At(r, "joinByToken", "notify")
  /\ fired' = fired \cup {[type |-> "INVITE_ACCEPTED", to |-> v, req |-> r] :
                            v \in Admins(req[r].org) \ {req[r].by}}
  /\ Finish(r)
  /\ UNCHANGED <<orgs, members, links>>

-----------------------------------------------------------------------------
(* A database call rejects, or the process dies: the handler stops where   *)
(* it stands, whatever it has committed stays.                             *)
Abort(r) ==
  /\ InFlight(r)
  /\ Finish(r)
  /\ UNCHANGED <<orgs, members, links, fired>>

(* The clock passes expiresAt. *)
LinkExpires(l) ==
  /\ links[l].state \in {"open", "used"}
  /\ ~links[l].expired
  /\ links' = [links EXCEPT ![l].expired = TRUE]
  /\ UNCHANGED <<orgs, members, req, fired>>

Handler(r) ==
  \/ CreateFindSlug(r) \/ CreateInsert(r)
  \/ CheckCaller(r) \/ UpdateMemberRole(r) \/ Update(r) \/ Remove(r)
  \/ RemoveMemberCaller(r) \/ RemoveMemberCount(r)
  \/ RemoveMemberTarget(r) \/ RemoveMemberDelete(r)
  \/ CreateInviteLink(r) \/ RevokeInviteLinkFind(r) \/ RevokeInviteLinkDelete(r)
  \/ JoinReadLink(r) \/ JoinCheckMember(r) \/ JoinTransaction(r) \/ JoinNotify(r)

OrgNext ==
  \/ \E r \in Reqs : Call(r) \/ Handler(r) \/ Abort(r)
  \/ \E l \in LinkIds : LinkExpires(l)

(* The event loop resumes every handler whose database call has settled.   *)
OrgFairness == \A r \in Reqs : WF_orgVars(Handler(r))

OrgSpec == OrgInit /\ [][OrgNext]_orgVars /\ OrgFairness

-----------------------------------------------------------------------------
(***************************************************************************)
(* What relates the tables to each other and to the frames.                *)
(***************************************************************************)

(* Members, links and requests refer to organizations that exist. *)
ForeignKeys ==
  /\ \A o \in OrgIds, u \in Users : IsMember(u, o) => o \in ExistingOrg
  /\ \A l \in KnownLink : links[l].org \in ExistingOrg /\ links[l].role \in Roles
  /\ \A r \in Reqs : req[r].org # Null => req[r].org \in ExistingOrg

(* What a frame holds at each point of its handler; a join holds the       *)
(* organization and the role its link still has.                           *)
FrameOK(f) ==
  /\ f.op # "none" => f.by \in Users
  /\ f.op = "create" => f.slug \in Slugs /\ (f.pc = "slug" => f.slug \in Names)
  /\ f.op \notin {"none", "create", "joinByToken"} => f.org \in ExistingOrg
  /\ f.op \in {"updateMemberRole", "createInviteLink"} => f.role \in Roles
  /\ f.op = "updateMemberRole" => f.row \in MemberIds
  /\ f.op = "removeMember" => f.user \in Users
  /\ f.op \in {"revokeInviteLink", "joinByToken"} => f.link \in KnownLink
  /\ f.op = "joinByToken" /\ f.pc # "link" =>
       f.org = links[f.link].org /\ f.role = links[f.link].role

FramesOK == \A r \in Reqs : FrameOK(req[r])

(* A row has the identifier of the request that inserted it, which by then *)
(* is past its insert.                                                     *)
Inserted == {r \in Reqs : req[r].pc \in {"notify", "done"}}

IdsTaken ==
  /\ ExistingOrg \cap Reqs \subseteq Inserted
  /\ KnownLink \cap Reqs \subseteq Inserted
  /\ \A o \in OrgIds, u \in Users : members[o][u].id \in Reqs => members[o][u].id \in Inserted
  /\ \A r \in Reqs : req[r].row \in Reqs => req[r].row \in Inserted

(* An id names one membership. *)
RowIdentity ==
  \A o, p \in OrgIds, u, v \in Users :
    IsMember(u, o) /\ members[o][u].id = members[p][v].id => o = p /\ u = v

(* The unique index on slug, which create's lookup does not replace.       *)
UniqueSlugs == \A o, p \in ExistingOrg : orgs[o].slug = orgs[p].slug => o = p

(* removeMember's row was the target's, and no other membership has got it *)
(* since.                                                                  *)
RemovalTarget ==
  \A r \in Reqs : At(r, "removeMember", "delete") =>
    \A o \in OrgIds, u \in Users :
      IsMember(u, o) /\ members[o][u].id = req[r].row => o = req[r].org /\ u = req[r].user

(* The inductive invariant: every request works on what it was called for, *)
(* whatever others have inserted, changed or deleted since.                *)
OrgInv ==
  /\ OrgTypeOK
  /\ ForeignKeys /\ FramesOK /\ IdsTaken /\ RowIdentity /\ UniqueSlugs /\ RemovalTarget

-----------------------------------------------------------------------------
(***************************************************************************)
(* Properties that hold however requests interleave.                       *)
(***************************************************************************)

(* removeMember deletes by the id it read.  Whatever other requests did in *)
(* between, the row it deletes is the target's row in the request's        *)
(* organization, and the very row it read: a member who left and joined    *)
(* again meanwhile is not removed by the older request.                    *)
RemovalHitsTarget ==
  \A o \in OrgIds, u \in Users :
    IsMember(u, o) /\ members'[o][u] = NoMember =>
      \E r \in Reqs : /\ At(r, "removeMember", "delete")
                      /\ req[r].org = o /\ req[r].user = u
                      /\ req[r].row = members[o][u].id

RemovalHitsOnlyTarget == [][RemovalHitsTarget]_orgVars

(* updateMemberRole addresses a row by id alone.  The only row whose role  *)
(* changes is the one its client named, and no other field of the table    *)
(* moves with it: an id never comes to mean another membership.            *)
RoleChangeHitsRow ==
  \A o \in OrgIds, u \in Users :
    IsMember(u, o) /\ IsMember(u, o)' /\ members'[o][u] # members[o][u] =>
      \E r \in Reqs : /\ At(r, "updateMemberRole", "write")
                      /\ req[r].row = members[o][u].id
                      /\ members'[o][u] = [id |-> req[r].row, role |-> req[r].role]

RoleChangeKeepsRow == [][RoleChangeHitsRow]_orgVars

(* A membership that appears in an existing organization was admitted by   *)
(* an invite link that is still there at that moment, of that organization *)
(* and with the role granted, and that is marked used in the same step: a  *)
(* revoked link admits nobody, not even a join that read it before.        *)
JoinerComesThroughLink ==
  \A o \in ExistingOrg, u \in Users :
    ~IsMember(u, o) /\ IsMember(u, o)' =>
      \E l \in LinkIds : /\ LinkExists(l)
                         /\ links[l].org = o
                         /\ links[l].role = members'[o][u].role
                         /\ links'[l].state = "used"

JoinersComeThroughLinks == [][JoinerComesThroughLink]_orgVars

(***************************************************************************)
(* Properties the checks before the writes promise.  Nothing holds between *)
(* a check and its write, so they depend on requests about the same        *)
(* organization not overlapping (Exclusive).                               *)
(***************************************************************************)

(* A link that has been used admits nobody else (joinByToken's usedAt      *)
(* check).                                                                 *)
UsedLinkAdmitsNobody ==
  [][\A r \in Reqs :
       At(r, "joinByToken", "tx") /\ links[req[r].link].state = "used" =>
         UNCHANGED members]_orgVars

(* A member who leaves never leaves behind an organization without owner   *)
(* when there was one (removeMember's owner count).                        *)
LeavingKeepsAnOwner ==
  [][\A r \in Reqs, o \in OrgIds :
       /\ At(r, "removeMember", "delete") /\ ~InFlight(r)'
       /\ req[r].org = o /\ req[r].by = req[r].user /\ Owners(o) # {}
       => Owners(o)' # {}]_orgVars

(* "Cannot remove the last owner", for every removal and not only for an   *)
(* owner who leaves.                                                       *)
RemovalKeepsAnOwner ==
  [][\A r \in Reqs, o \in OrgIds :
       /\ At(r, "removeMember", "delete") /\ ~InFlight(r)'
       /\ req[r].org = o /\ Owners(o) # {}
       => Owners(o)' # {}]_orgVars

(* A step changes organization o: its row, its memberships or its links.   *)
Changes(o) ==
  \/ orgs'[o] # orgs[o] \/ members'[o] # members[o]
  \/ \E l \in LinkIds : links'[l] # links[l] /\ links'[l].org = o

(* Authority is checked in an earlier call than it is used in.  Whoever    *)
(* changes an organization, one of its links or somebody else's membership *)
(* is an administrator of that organization at the time of the change, not *)
(* only of the check.  A role change is held to less, and no more is said  *)
(* of it: its writer is then an administrator of the organization the URL  *)
(* names, of which the row need not be a membership.                       *)
WriterIsAdmin ==
  [][\A r \in Reqs, o \in OrgIds :
       /\ req[r].pc \in {"write", "insert", "delete"} /\ req[r].op # "create"
       /\ ~InFlight(r)' /\ Changes(o)
       => \/ req[r].op = "updateMemberRole" /\ IsAdminOrOwner(req[r].by, req[r].org)
          \/ req[r].op # "updateMemberRole" /\ IsAdminOrOwner(req[r].by, o)
          \/ req[r].op = "removeMember" /\ req[r].by = req[r].user]_orgVars
=============================================================================
