-------------------------- MODULE OnboardingProofs -------------------------
(***************************************************************************)
(* Both services over one membership table, for any number of users,       *)
(* organizations, links, invitations and overlapping requests.  What a     *)
(* request of one service relies on until its transaction - the            *)
(* organization, the link or the invitation it is about - is taken away by *)
(* no request of the other, and so a membership has exactly one of the two *)
(* origins.                                                                *)
(***************************************************************************)
EXTENDS Onboarding, TLAPS

-----------------------------------------------------------------------------
(* What each service's tables and frames say that a transaction relies on. *)

(* Every membership has an id. *)
HasId(m) == m # NoMember => m.id \in MemberIds

MembersOK ==
  /\ members = [o \in OrgIds |-> [u \in Users |-> members[o][u]]]
  /\ \A o \in OrgIds, u \in Users : HasId(members[o][u])

(* A link of a table L of links, and what a frame of OrganizationsService  *)
(* says of such a table and of a set E of organizations.  A join holds the *)
(* organization and the role its link still has.                           *)
KnownIn(l, L) == l \in Org!LinkIds /\ L[l].state # "none"

LinkFrameOK(f, E, L) ==
  /\ f.op # "none" => f.by \in Users
  /\ f.op = "create" => f.slug \in Slugs /\ (f.pc = "slug" => f.slug \in Names)
  /\ f.op \notin {"none", "create", "joinByToken"} => f.org \in E
  /\ f.op = "createInviteLink" => f.role \in Roles
  /\ f.op = "updateMemberRole" => f.row \in MemberIds
  /\ f.op = "removeMember" => f.user \in Users
  /\ f.op \in {"revokeInviteLink", "joinByToken"} => KnownIn(f.link, L)
  /\ f.op = "joinByToken" /\ f.pc # "link" =>
       f.org = L[f.link].org /\ f.role = L[f.link].role

(* The row a request has inserted is there when the request is over. *)
LinkSide ==
  /\ orgs \in [OrgIds -> OrgRow]
  /\ links \in [Org!LinkIds -> Org!LinkRow]
  /\ req \in [Reqs -> Org!Frame]
  /\ \A l \in Org!LinkIds : KnownIn(l, links) => links[l].org \in ExistingOrg
  /\ \A r \in Reqs : LinkFrameOK(req[r], ExistingOrg, links)
  /\ \A r \in Reqs : r \in ExistingOrg \/ KnownIn(r, links) => req[r].pc = "done"

(* The same of InvitationsService, for a table T of invitations.           *)
SentIn(i, T) == i \in Inv!InvIds /\ T[i].status # "none"

(* The operations that name an invitation. *)
AboutInvitation == {"getByToken", "getById", "accept", "reject", "revoke"}

LetterFrameOK(f, E, T) ==
  /\ f.op # "none" => f.by \in Users
  /\ f.op = "send" => f.org \in E /\ f.email \in Users /\ f.role \in Roles
  /\ f.op \in AboutInvitation \/ f.pc = "expire" => SentIn(f.inv, T)
  /\ f.op = "accept" /\ f.pc \in {"existing", "tx"} =>
       T[f.inv].email = f.by /\ T[f.inv].org = f.org /\ T[f.inv].role = f.role

LetterSide ==
  /\ invitations \in [Inv!InvIds -> Inv!InvRow]
  /\ ireq \in [Reqs -> Inv!IFrame]
  /\ \A i \in Inv!InvIds : SentIn(i, invitations) =>
       invitations[i].org \in ExistingOrg /\ invitations[i].email \in Users
  /\ \A r \in Reqs : LetterFrameOK(ireq[r], ExistingOrg, invitations)
  /\ \A r \in Reqs : SentIn(r, invitations) => ireq[r].pc = "done"

(* The inductive invariant of both services together. *)
DoorInv == MembersOK /\ LinkSide /\ LetterSide

-----------------------------------------------------------------------------
(* The services' queries are those of the shared tables. *)
LEMMA Shared ==
  /\ Org!OrgIds = OrgIds /\ Inv!OrgIds = OrgIds
  /\ Org!MemberIds = MemberIds /\ Org!Slugs = Slugs
  /\ Org!NoMember = NoMember /\ Inv!NoMember = NoMember
  /\ Org!ExistingOrg = ExistingOrg /\ Inv!ExistingOrg = ExistingOrg
  /\ \A u, o : (Org!IsMember(u, o) <=> IsMember(u, o)) /\ (Inv!IsMember(u, o) <=> IsMember(u, o))
BY DEF Org!OrgIds, Inv!OrgIds, OrgIds, Org!MemberIds, MemberIds, Org!Slugs, Slugs, Org!NoMember, Inv!NoMember,
   NoMember, Org!ExistingOrg, Inv!ExistingOrg, ExistingOrg, Org!IsMember, Inv!IsMember, IsMember

(* Frames before and after their request. *)
LEMMA OwnFrames ==
  /\ Org!Blank \in Org!Frame /\ Org!Blank.pc = "new" /\ Org!Blank.op = "none"
  /\ Org!Done \in Org!Frame /\ Org!Done.pc = "done" /\ Org!Done.op = "none"
BY DEF Org!Blank, Org!Done, Org!Frame, Org!PCs

(* The same of InvitationsService. *)
LEMMA LetterFrames ==
  /\ Inv!IBlank \in Inv!IFrame /\ Inv!IBlank.pc = "new" /\ Inv!IBlank.op = "none"
  /\ Inv!IDone \in Inv!IFrame /\ Inv!IDone.pc = "done" /\ Inv!IDone.op = "none"
BY DEF Inv!IBlank, Inv!IDone, Inv!IFrame, Inv!IPCs

(* Identifiers are distinct from Null. *)
LEMMA Ids ==
  /\ Null \notin OrgIds /\ Null \notin MemberIds /\ Null \notin Users /\ Null \notin Reqs
  /\ Null \notin Org!LinkIds /\ Null \notin Inv!InvIds
  /\ Null \notin Slugs
  /\ Reqs \subseteq OrgIds /\ Reqs \subseteq MemberIds /\ Reqs \subseteq Org!LinkIds /\ Reqs \subseteq Inv!InvIds
BY IdAssumption, SeedsAssumption DEF OrgIds, MemberIds, Org!LinkIds, Inv!InvIds

-----------------------------------------------------------------------------
(* What no step takes back: organizations and links come to exist, and a   *)
(* link keeps its organization and role.                                   *)
LinksGrow(E, F, L, M) ==
  /\ E \subseteq F
  /\ \A l \in Org!LinkIds : KnownIn(l, L) =>
       KnownIn(l, M) /\ M[l].org = L[l].org /\ M[l].role = L[l].role

(* Frames that do not move stay right. *)
LEMMA LinkFrameKept ==
  ASSUME NEW f, NEW E, NEW F, NEW L, NEW M, LinkFrameOK(f, E, L), LinksGrow(E, F, L, M)
  PROVE  LinkFrameOK(f, F, M)
BY DEF LinkFrameOK, LinksGrow, KnownIn

(* A request of OrganizationsService goes on or ends. *)
LEMMA LinkStep ==
  ASSUME LinkSide, NEW r \in Reqs, NEW g \in Org!Frame, req' = [req EXCEPT ![r] = g],
         LinkFrameOK(g, ExistingOrg', links'),
         orgs' \in [OrgIds -> OrgRow], links' \in [Org!LinkIds -> Org!LinkRow],
         LinksGrow(ExistingOrg, ExistingOrg', links, links'),
         \A l \in Org!LinkIds : KnownIn(l, links') =>
           KnownIn(l, links) \/ (l = r /\ links'[l].org \in ExistingOrg'),
         ExistingOrg' \subseteq ExistingOrg \cup {r},
         r \in ExistingOrg' \/ KnownIn(r, links') => g.pc = "done"
  PROVE  LinkSide'
<1>1. req' \in [Reqs -> Org!Frame] /\ req'[r] = g /\ \A q \in Reqs : q # r => req'[q] = req[q]
  BY DEF LinkSide
<1>2. ASSUME NEW q \in Reqs PROVE LinkFrameOK(req'[q], ExistingOrg', links')
  <2>1. CASE q # r
    <3>1. LinkFrameOK(req[q], ExistingOrg, links)
      BY DEF LinkSide
    <3>2. LinkFrameOK(req[q], ExistingOrg', links')
      BY <3>1, LinkFrameKept
    <3> QED
      BY <1>1, <2>1, <3>2
  <2> QED
    BY <1>1, <2>1
<1>3. \A q \in Reqs : q \in ExistingOrg' \/ KnownIn(q, links') => req'[q].pc = "done"
  BY <1>1, Ids DEF LinkSide
<1>4. \A l \in Org!LinkIds : KnownIn(l, links') => links'[l].org \in ExistingOrg'
  BY DEF LinkSide, LinksGrow
<1> QED
  BY <1>1, <1>2, <1>3, <1>4 DEF LinkSide, KnownIn

(* One that writes neither organizations nor links. *)
LEMMA LinkRead ==
  ASSUME LinkSide, NEW r \in Reqs, req[r].pc # "done", UNCHANGED <<orgs, links>>,
         NEW g \in Org!Frame, req' = [req EXCEPT ![r] = g], LinkFrameOK(g, ExistingOrg, links)
  PROVE  LinkSide'
<1>1. ExistingOrg' = ExistingOrg /\ links' = links /\ orgs' = orgs
  BY DEF ExistingOrg
<1>2. LinksGrow(ExistingOrg, ExistingOrg, links, links)
  BY DEF LinksGrow
<1>3. ~(r \in ExistingOrg) /\ ~KnownIn(r, links)
  BY DEF LinkSide
<1>4. orgs \in [OrgIds -> OrgRow] /\ links \in [Org!LinkIds -> Org!LinkRow]
  BY DEF LinkSide
<1> QED
  BY <1>1, <1>2, <1>3, <1>4, LinkStep

(* One that ends. *)
LEMMA LinkEnds ==
  ASSUME LinkSide, NEW r \in Reqs, req[r].pc # "done", UNCHANGED <<orgs, links>>, Org!Finish(r)
  PROVE  LinkSide'
<1>1. LinkFrameOK(Org!Done, ExistingOrg, links)
  BY OwnFrames DEF LinkFrameOK
<1> QED
  BY <1>1, OwnFrames, LinkRead DEF Org!Finish

(* One that goes on to its next call. *)
LEMMA LinkGoes ==
  ASSUME LinkSide, NEW r \in Reqs, req[r].pc # "done", UNCHANGED <<orgs, links>>,
         NEW pc \in Org!PCs \ {"slug"}, Org!Goto(r, pc),
         req[r].op = "joinByToken" => req[r].pc # "link"
  PROVE  LinkSide'
<1> DEFINE f == req[r]
           g == [f EXCEPT !.pc = pc]
<1>1. f \in Org!Frame /\ LinkFrameOK(f, ExistingOrg, links) /\ req' = [req EXCEPT ![r] = g]
  BY DEF LinkSide, Org!Goto
<1> HIDE DEF f
<1>2. g \in Org!Frame
  BY <1>1 DEF Org!Frame
<1>3. /\ g.pc = pc /\ g.op = f.op /\ g.by = f.by /\ g.org = f.org /\ g.row = f.row
      /\ g.user = f.user /\ g.link = f.link /\ g.role = f.role /\ g.slug = f.slug
  BY <1>1 DEF Org!Frame
<1> HIDE DEF g
<1>4. f.op = "joinByToken" => f.pc # "link"
  BY DEF f
<1>5. LinkFrameOK(g, ExistingOrg, links)
  BY <1>1, <1>3, <1>4 DEF LinkFrameOK
<1> QED
  BY <1>1, <1>2, <1>5, LinkRead

(* One that goes on if a check holds. *)
LEMMA LinkCheck ==
  ASSUME LinkSide, NEW r \in Reqs, req[r].pc # "done", UNCHANGED <<orgs, links>>,
         NEW pc \in Org!PCs \ {"slug"}, NEW ok, Org!Check(r, ok, pc),
         req[r].op = "joinByToken" => req[r].pc # "link"
  PROVE  LinkSide'
BY LinkEnds, LinkGoes DEF Org!Check

-----------------------------------------------------------------------------
(* The requests of OrganizationsService, one lemma for those that write    *)
(* neither an organization nor a link and one for each of the others.      *)
LEMMA OrgRead ==
  ASSUME LinkSide, NEW r \in Reqs,
         \/ Org!CheckCaller(r) \/ Org!RemoveMemberCaller(r) \/ Org!RemoveMemberCount(r)
         \/ Org!RevokeInviteLinkFind(r) \/ Org!JoinCheckMember(r) \/ Org!JoinNotify(r)
         \/ Org!UpdateMemberRole(r) \/ Org!RemoveMemberDelete(r) \/ Org!Abort(r)
  PROVE  LinkSide'
<1> DEFINE f == req[r]
<1>1. CASE Org!CheckCaller(r)
  <2>1. f.pc = "caller" /\ f.op # "joinByToken" /\ UNCHANGED <<orgs, links>>
    BY <1>1 DEF Org!CheckCaller
  <2>2. \E ok : \E pc \in {"write", "insert", "find"} : Org!Check(r, ok, pc)
    <3>1. \/ Org!Check(r, Org!IsAdminOrOwner(f.by, f.org), "write")
          \/ Org!Check(r, Org!IsOwner(f.by, f.org), "write")
          \/ Org!Check(r, Org!IsAdminOrOwner(f.by, f.org), "insert")
          \/ Org!Check(r, Org!IsAdminOrOwner(f.by, f.org), "find")
      BY <1>1 DEF Org!CheckCaller
    <3> QED
      BY <3>1
  <2>3. PICK ok : \E pc \in {"write", "insert", "find"} : Org!Check(r, ok, pc)
    BY <2>2
  <2>4. PICK pc \in {"write", "insert", "find"} : Org!Check(r, ok, pc)
    BY <2>3
  <2>5. pc \in Org!PCs \ {"slug"}
    BY DEF Org!PCs
  <2> QED
    BY <2>1, <2>4, <2>5, LinkCheck
<1>2. CASE Org!RemoveMemberCaller(r)
  <2>1. f.pc = "caller" /\ f.op = "removeMember" /\ UNCHANGED <<orgs, links>>
    BY <1>2 DEF Org!RemoveMemberCaller, Org!At
  <2>2. Org!Finish(r) \/ Org!Goto(r, "count") \/ Org!Goto(r, "target")
    BY <1>2 DEF Org!RemoveMemberCaller
  <2> QED
    BY <2>1, <2>2, LinkEnds, LinkGoes DEF Org!PCs
<1>3. CASE Org!RemoveMemberCount(r)
  <2>1. f.pc = "count" /\ f.op = "removeMember" /\ UNCHANGED <<orgs, links>>
    BY <1>3 DEF Org!RemoveMemberCount, Org!At
  <2>2. Org!Finish(r) \/ Org!Goto(r, "target")
    BY <1>3 DEF Org!RemoveMemberCount, Org!Check
  <2> QED
    BY <2>1, <2>2, LinkEnds, LinkGoes DEF Org!PCs
<1>4. CASE Org!RevokeInviteLinkFind(r)
  <2>1. f.pc = "find" /\ f.op = "revokeInviteLink" /\ UNCHANGED <<orgs, links>>
    BY <1>4 DEF Org!RevokeInviteLinkFind, Org!At
  <2>2. Org!Finish(r) \/ Org!Goto(r, "delete")
    BY <1>4 DEF Org!RevokeInviteLinkFind, Org!Check
  <2> QED
    BY <2>1, <2>2, LinkEnds, LinkGoes DEF Org!PCs
<1>5. CASE Org!JoinCheckMember(r)
  <2>1. f.pc = "existing" /\ UNCHANGED <<orgs, links>>
    BY <1>5 DEF Org!JoinCheckMember, Org!At
  <2>2. Org!Finish(r) \/ Org!Goto(r, "tx")
    BY <1>5 DEF Org!JoinCheckMember, Org!Check
  <2> QED
    BY <2>1, <2>2, LinkEnds, LinkGoes DEF Org!PCs
<1>6. CASE \/ Org!JoinNotify(r) \/ Org!UpdateMemberRole(r)
           \/ Org!RemoveMemberDelete(r) \/ Org!Abort(r)
  BY <1>6, LinkEnds DEF Org!JoinNotify, Org!UpdateMemberRole, Org!RemoveMemberDelete, Org!Abort,
     Org!At, Org!InFlight
<1> QED
  BY <1>1, <1>2, <1>3, <1>4, <1>5, <1>6

(* create: the slug it inserts under is a slug. *)
LEMMA FindsSlug ==
  ASSUME LinkSide, NEW r \in Reqs, Org!CreateFindSlug(r)
  PROVE  LinkSide'
<1> DEFINE f == req[r]
<1>1. f \in Org!Frame /\ LinkFrameOK(f, ExistingOrg, links)
  BY DEF LinkSide
<1>2. f.op = "create" /\ f.pc = "slug" /\ UNCHANGED <<orgs, links>>
  BY DEF Org!CreateFindSlug, Org!At
<1>3. PICK t \in Stamps :
        req' = [req EXCEPT ![r].pc = "insert",
                  ![r].slug = IF Org!SlugTaken(req[r].slug) THEN <<req[r].slug, t>> ELSE @]
  BY DEF Org!CreateFindSlug
<1> DEFINE s == IF Org!SlugTaken(f.slug) THEN <<f.slug, t>> ELSE f.slug
           h == [f EXCEPT !.pc = "insert"]
           g == [h EXCEPT !.slug = s]
<1>4. s \in Slugs
  BY <1>1, <1>2 DEF LinkFrameOK, Slugs
<1>5. req' = [req EXCEPT ![r] = g]
  BY <1>3 DEF LinkSide, Org!Frame
<1> HIDE DEF f, s
<1>6. h \in Org!Frame /\ h.pc = "insert" /\ h.op = f.op /\ h.by = f.by
  BY <1>1 DEF Org!Frame, Org!PCs
<1> HIDE DEF h
<1>7. g \in Org!Frame /\ g.pc = "insert" /\ g.op = f.op /\ g.by = f.by /\ g.slug = s
  BY <1>4, <1>6, Shared DEF Org!Frame
<1> HIDE DEF g
<1>8. LinkFrameOK(g, ExistingOrg, links)
  BY <1>1, <1>2, <1>4, <1>7 DEF LinkFrameOK
<1>9. req[r].pc # "done"
  BY <1>2 DEF f
<1> QED
  BY <1>2, <1>5, <1>7, <1>8, <1>9, LinkRead

(* removeMember: the row it keeps is a membership's. *)
LEMMA FindsTarget ==
  ASSUME MembersOK, LinkSide, NEW r \in Reqs, Org!RemoveMemberTarget(r)
  PROVE  LinkSide'
<1> DEFINE f == req[r]
<1>1. f \in Org!Frame /\ LinkFrameOK(f, ExistingOrg, links)
  BY DEF LinkSide
<1>2. f.op = "removeMember" /\ f.pc = "target" /\ UNCHANGED <<orgs, links>>
  BY DEF Org!RemoveMemberTarget, Org!At
<1>3. f.user \in Users /\ f.org \in OrgIds
  BY <1>1, <1>2 DEF LinkFrameOK, ExistingOrg
<1>4. CASE Org!IsMember(f.user, f.org)
  <2> DEFINE row == members[f.org][f.user].id
             h == [f EXCEPT !.pc = "delete"]
             g == [h EXCEPT !.row = row]
  <2>1. row \in MemberIds
    BY <1>3, <1>4, Shared DEF MembersOK, HasId, IsMember
  <2>2. req' = [req EXCEPT ![r] = g]
    BY <1>4 DEF Org!RemoveMemberTarget, LinkSide, Org!Frame
  <2> HIDE DEF f, row
  <2>3. /\ h \in Org!Frame /\ h.pc = "delete" /\ h.op = f.op /\ h.by = f.by /\ h.org = f.org
        /\ h.user = f.user /\ h.link = f.link /\ h.role = f.role /\ h.slug = f.slug
    BY <1>1 DEF Org!Frame, Org!PCs
  <2> HIDE DEF h
  <2>4. /\ g \in Org!Frame /\ g.pc = "delete" /\ g.op = f.op /\ g.by = f.by /\ g.org = f.org
        /\ g.user = f.user /\ g.link = f.link /\ g.role = f.role /\ g.slug = f.slug
    BY <2>1, <2>3, Shared DEF Org!Frame
  <2> HIDE DEF g
  <2>5. LinkFrameOK(g, ExistingOrg, links)
    BY <1>1, <1>2, <2>4 DEF LinkFrameOK
  <2>6. req[r].pc # "done"
    BY <1>2 DEF f
  <2> QED
    BY <1>2, <2>2, <2>4, <2>5, <2>6, LinkRead
<1>5. CASE ~Org!IsMember(f.user, f.org)
  BY <1>2, <1>5, LinkEnds DEF Org!RemoveMemberTarget
<1> QED
  BY <1>4, <1>5

(* joinByToken: what it keeps is what its link says. *)
LEMMA ReadsLink ==
  ASSUME LinkSide, NEW r \in Reqs, Org!JoinReadLink(r)
  PROVE  LinkSide'
<1> DEFINE f == req[r]
           l == links[f.link]
<1>1. f \in Org!Frame /\ LinkFrameOK(f, ExistingOrg, links)
  BY DEF LinkSide
<1>2. f.op = "joinByToken" /\ f.pc = "link" /\ UNCHANGED <<orgs, links>>
  BY DEF Org!JoinReadLink, Org!At
<1>3. KnownIn(f.link, links)
  BY <1>1, <1>2 DEF LinkFrameOK
<1>4. l \in Org!LinkRow
  BY <1>3 DEF KnownIn, LinkSide
<1>5. CASE l.state = "open" /\ ~l.expired
  <2> DEFINE h == [f EXCEPT !.pc = "existing"]
             k == [h EXCEPT !.org = l.org]
             g == [k EXCEPT !.role = l.role]
  <2>1. req' = [req EXCEPT ![r] = g]
    BY <1>5 DEF Org!JoinReadLink, LinkSide, Org!Frame
  <2>2. l.org \in Org!OrgIds \cup {Null} /\ l.role \in Roles \cup {"NONE"}
    BY <1>4 DEF Org!LinkRow
  <2> HIDE DEF f, l
  <2>3. h \in Org!Frame /\ h.pc = "existing" /\ h.op = f.op /\ h.by = f.by /\ h.link = f.link
    BY <1>1 DEF Org!Frame, Org!PCs
  <2> HIDE DEF h
  <2>4. /\ k \in Org!Frame /\ k.pc = "existing" /\ k.op = f.op /\ k.by = f.by /\ k.link = f.link
        /\ k.org = l.org
    BY <2>2, <2>3 DEF Org!Frame
  <2> HIDE DEF k
  <2>5. /\ g \in Org!Frame /\ g.pc = "existing" /\ g.op = f.op /\ g.by = f.by /\ g.link = f.link
        /\ g.org = l.org /\ g.role = l.role
    BY <2>2, <2>4 DEF Org!Frame
  <2> HIDE DEF g
  <2>6. g.org = links[g.link].org /\ g.role = links[g.link].role
    BY <2>5 DEF l
  <2>7. LinkFrameOK(g, ExistingOrg, links)
    BY <1>1, <1>2, <1>3, <2>5, <2>6 DEF LinkFrameOK
  <2>8. req[r].pc # "done"
    BY <1>2 DEF f
  <2> QED
    BY <1>2, <2>1, <2>5, <2>7, <2>8, LinkRead
<1>6. CASE ~(l.state = "open" /\ ~l.expired)
  <2>1. Org!Finish(r)
    BY <1>6 DEF Org!JoinReadLink
  <2> QED
    BY <1>2, <2>1, LinkEnds
<1> QED
  BY <1>5, <1>6

(* The frame a client's call starts is about something that is there. *)
RowOfSome(id) == \E o \in OrgIds, v \in Users : IsMember(v, o) /\ id = members[o][v].id

NewLinkFrame(f) ==
  /\ f \in Org!Frame /\ LinkFrameOK(f, ExistingOrg, links)
  /\ f.pc \in {"slug", "link", "caller"} /\ (f.row = Null \/ RowOfSome(f.row))

(* There is such a frame behind each of the eight calls. *)
LEMMA OrgCalls ==
  ASSUME MembersOK, LinkSide, NEW r \in Reqs, Org!Call(r)
  PROVE  \E f : NewLinkFrame(f) /\ Org!Issue(r, f)
<1>1. PICK u \in Users :
        \/ Org!OwnCall(r, u)
        \/ \E o \in ExistingOrg : Org!CallAbout(r, u, o)
  BY Shared DEF Org!Call
<1>2. ExistingOrg \subseteq Org!OrgIds /\ Names \subseteq Org!Slugs /\ Names \subseteq Slugs
  BY Shared DEF ExistingOrg, Slugs
<1>p. {"slug", "link", "caller"} \subseteq Org!PCs /\ "none" \notin Org!AllOps /\
      {"create", "joinByToken", "updateMemberRole", "update", "remove", "removeMember",
         "createInviteLink", "revokeInviteLink"} \subseteq Org!AllOps
  BY DEF Org!PCs, Org!AllOps
<1>3. ASSUME NEW n \in Names,
            NEW f, f = [Org!Blank EXCEPT !.pc = "slug", !.op = "create", !.by = u, !.slug = n]
     PROVE  NewLinkFrame(f)
  <2>1. f = [pc |-> "slug", op |-> "create", by |-> u, org |-> Null, user |-> Null,
             row |-> Null, link |-> Null, role |-> "NONE", slug |-> n, flag |-> FALSE]
    BY <1>3 DEF Org!Ask, Org!Blank
  <2>2. f \in Org!Frame
    BY <1>2, <1>p, <2>1 DEF Org!Frame
  <2>3. LinkFrameOK(f, ExistingOrg, links)
    BY <1>2, <2>1, Ids DEF LinkFrameOK
  <2> QED
    BY <2>1, <2>2, <2>3 DEF NewLinkFrame
<1>4. ASSUME NEW l \in Org!KnownLink,
            NEW f, f = [Org!Blank EXCEPT !.pc = "link", !.op = "joinByToken", !.by = u, !.link = l]
     PROVE  NewLinkFrame(f)
  <2>1. f = [pc |-> "link", op |-> "joinByToken", by |-> u, org |-> Null, user |-> Null,
             row |-> Null, link |-> l, role |-> "NONE", slug |-> Null, flag |-> FALSE]
    BY <1>4 DEF Org!Ask, Org!Blank
  <2>2. f \in Org!Frame
    BY <1>2, <1>p, <2>1 DEF Org!Frame, KnownIn, Org!KnownLink
  <2>3. LinkFrameOK(f, ExistingOrg, links)
    BY <1>2, <2>1, Ids DEF LinkFrameOK, KnownIn, Org!KnownLink
  <2> QED
    BY <2>1, <2>2, <2>3 DEF NewLinkFrame
<1>5. ASSUME NEW o \in ExistingOrg,
            NEW p \in OrgIds, NEW v \in Users, NEW role \in Roles, Org!IsMember(v, p),
            NEW f, f = [Org!Ask("updateMemberRole", u, o) EXCEPT !.row = members[p][v].id, !.role = role]
     PROVE  NewLinkFrame(f)
  <2> DEFINE row == members[p][v].id
  <2>1. row \in MemberIds /\ row \in Org!MemberIds
    BY <1>2, <1>5, Shared DEF MembersOK, HasId, IsMember
  <2>2. f = [pc |-> "caller", op |-> "updateMemberRole", by |-> u, org |-> o, user |-> Null,
             row |-> row, link |-> Null, role |-> role, slug |-> Null, flag |-> FALSE]
    BY <1>5 DEF Org!Ask, Org!Blank
  <2>5. RowOfSome(row)
    BY <1>2, <1>5, Shared DEF RowOfSome
  <2> HIDE DEF row
  <2>3. f \in Org!Frame
    BY <1>2, <1>p, <2>1, <2>2 DEF Org!Frame
  <2>4. LinkFrameOK(f, ExistingOrg, links)
    BY <1>2, <2>1, <2>2 DEF LinkFrameOK
  <2> QED
    BY <2>2, <2>3, <2>4, <2>5 DEF NewLinkFrame
<1>6. ASSUME NEW o \in ExistingOrg, NEW b \in BOOLEAN,
            NEW f, f = [Org!Ask("update", u, o) EXCEPT !.flag = b]
     PROVE  NewLinkFrame(f)
  <2>1. f = [pc |-> "caller", op |-> "update", by |-> u, org |-> o, user |-> Null,
             row |-> Null, link |-> Null, role |-> "NONE", slug |-> Null, flag |-> b]
    BY <1>6 DEF Org!Ask, Org!Blank
  <2>2. f \in Org!Frame
    BY <1>2, <1>p, <2>1 DEF Org!Frame
  <2>3. LinkFrameOK(f, ExistingOrg, links)
    BY <1>2, <2>1, Ids DEF LinkFrameOK
  <2> QED
    BY <2>1, <2>2, <2>3 DEF NewLinkFrame
<1>7. ASSUME NEW o \in ExistingOrg,
            NEW f, f = Org!Ask("remove", u, o)
     PROVE  NewLinkFrame(f)
  <2>1. f = [pc |-> "caller", op |-> "remove", by |-> u, org |-> o, user |-> Null,
             row |-> Null, link |-> Null, role |-> "NONE", slug |-> Null, flag |-> FALSE]
    BY <1>7 DEF Org!Ask, Org!Blank
  <2>2. f \in Org!Frame
    BY <1>2, <1>p, <2>1 DEF Org!Frame
  <2>3. LinkFrameOK(f, ExistingOrg, links)
    BY <1>2, <2>1, Ids DEF LinkFrameOK
  <2> QED
    BY <2>1, <2>2, <2>3 DEF NewLinkFrame
<1>8. ASSUME NEW o \in ExistingOrg, NEW v \in Users,
            NEW f, f = [Org!Ask("removeMember", u, o) EXCEPT !.user = v]
     PROVE  NewLinkFrame(f)
  <2>1. f = [pc |-> "caller", op |-> "removeMember", by |-> u, org |-> o, user |-> v,
             row |-> Null, link |-> Null, role |-> "NONE", slug |-> Null, flag |-> FALSE]
    BY <1>8 DEF Org!Ask, Org!Blank
  <2>2. f \in Org!Frame
    BY <1>2, <1>p, <2>1 DEF Org!Frame
  <2>3. LinkFrameOK(f, ExistingOrg, links)
    BY <1>2, <2>1, Ids DEF LinkFrameOK
  <2> QED
    BY <2>1, <2>2, <2>3 DEF NewLinkFrame
<1>9. ASSUME NEW o \in ExistingOrg, NEW role \in Roles, NEW past \in BOOLEAN,
            NEW f, f = [Org!Ask("createInviteLink", u, o) EXCEPT !.role = role, !.flag = past]
     PROVE  NewLinkFrame(f)
  <2>1. f = [pc |-> "caller", op |-> "createInviteLink", by |-> u, org |-> o, user |-> Null,
             row |-> Null, link |-> Null, role |-> role, slug |-> Null, flag |-> past]
    BY <1>9 DEF Org!Ask, Org!Blank
  <2>2. f \in Org!Frame
    BY <1>2, <1>p, <2>1 DEF Org!Frame
  <2>3. LinkFrameOK(f, ExistingOrg, links)
    BY <1>2, <2>1, Ids DEF LinkFrameOK
  <2> QED
    BY <2>1, <2>2, <2>3 DEF NewLinkFrame
<1>10. ASSUME NEW o \in ExistingOrg, NEW l \in Org!KnownLink,
            NEW f, f = [Org!Ask("revokeInviteLink", u, o) EXCEPT !.link = l]
     PROVE  NewLinkFrame(f)
  <2>1. f = [pc |-> "caller", op |-> "revokeInviteLink", by |-> u, org |-> o, user |-> Null,
             row |-> Null, link |-> l, role |-> "NONE", slug |-> Null, flag |-> FALSE]
    BY <1>10 DEF Org!Ask, Org!Blank
  <2>2. f \in Org!Frame
    BY <1>2, <1>p, <2>1 DEF Org!Frame, KnownIn, Org!KnownLink
  <2>3. LinkFrameOK(f, ExistingOrg, links)
    BY <1>2, <2>1, Ids DEF LinkFrameOK, KnownIn, Org!KnownLink
  <2> QED
    BY <2>1, <2>2, <2>3 DEF NewLinkFrame
<1>11. CASE Org!OwnCall(r, u)
  BY <1>3, <1>4, <1>11 DEF Org!OwnCall
<1>12. ASSUME NEW o \in ExistingOrg, Org!CallAbout(r, u, o)
       PROVE  \E f : NewLinkFrame(f) /\ Org!Issue(r, f)
  BY <1>5, <1>6, <1>7, <1>8, <1>9, <1>10, <1>12, Shared DEF Org!CallAbout
<1> QED
  BY <1>1, <1>11, <1>12

(* So a call keeps the tables and frames right. *)
LEMMA OrgCallStep ==
  ASSUME MembersOK, LinkSide, NEW r \in Reqs, Org!Call(r)
  PROVE  LinkSide'
<1>1. PICK f : NewLinkFrame(f) /\ Org!Issue(r, f)
  BY OrgCalls
<1> QED
  BY <1>1, LinkRead DEF NewLinkFrame, Org!Issue

(* Inserting an organization, and the two updates that leave its slug.     *)
LEMMA InsertsOrg ==
  ASSUME LinkSide, NEW r \in Reqs, Org!CreateInsert(r)
  PROVE  LinkSide'
<1> DEFINE f == req[r]
           new == [slug |-> f.slug, isActive |-> TRUE, deleted |-> FALSE]
<1>1. f \in Org!Frame /\ LinkFrameOK(f, ExistingOrg, links)
  BY DEF LinkSide
<1>2. f.op = "create" /\ f.pc = "insert" /\ UNCHANGED links /\ Org!Finish(r)
  BY DEF Org!CreateInsert, Org!At
<1>3. CASE UNCHANGED orgs
  BY <1>2, <1>3, LinkEnds
<1>4. CASE orgs' = [orgs EXCEPT ![r] = new]
  <2>1. new \in OrgRow /\ new.slug # Null /\ r \in OrgIds
    BY <1>1, <1>2, Ids DEF LinkFrameOK, OrgRow
  <2> HIDE DEF new
  <2>2. orgs \in [OrgIds -> OrgRow]
    BY DEF LinkSide
  <2>3. /\ orgs' \in [OrgIds -> OrgRow]
        /\ orgs'[r].slug # Null
        /\ \A o \in OrgIds : o # r => orgs'[o] = orgs[o]
    BY <1>4, <2>1, <2>2
  <2>4. ExistingOrg' = ExistingOrg \cup {r}
    BY <2>1, <2>3 DEF ExistingOrg
  <2>5. LinksGrow(ExistingOrg, ExistingOrg', links, links')
    BY <1>2, <2>4 DEF LinksGrow
  <2>6. LinkFrameOK(Org!Done, ExistingOrg', links')
    BY OwnFrames DEF LinkFrameOK
  <2>7. links' = links /\ links \in [Org!LinkIds -> Org!LinkRow]
    BY <1>2 DEF LinkSide
  <2>8. req' = [req EXCEPT ![r] = Org!Done]
    BY <1>2 DEF Org!Finish
  <2> QED
    BY <2>3, <2>4, <2>5, <2>6, <2>7, <2>8, OwnFrames, LinkStep
<1> QED
  BY <1>3, <1>4 DEF Org!CreateInsert

(* update and remove leave the slug, so the organization exists as before. *)
LEMMA UpdatesOrg ==
  ASSUME LinkSide, NEW r \in Reqs, Org!Update(r) \/ Org!Remove(r)
  PROVE  LinkSide'
<1> DEFINE o == req[r].org
<1>1. req[r].pc # "done" /\ UNCHANGED links /\ Org!Finish(r)
  BY DEF Org!Update, Org!Remove, Org!At
<1>2. req[r].flag \in BOOLEAN /\ orgs \in [OrgIds -> OrgRow]
  BY DEF LinkSide, Org!Frame
<1> HIDE DEF o
<1>3. \E b, d \in BOOLEAN : \/ orgs' = [orgs EXCEPT ![o].isActive = b]
                            \/ orgs' = [orgs EXCEPT ![o].isActive = b, ![o].deleted = d]
  BY <1>2 DEF Org!Update, Org!Remove, o
<1>4. /\ orgs' \in [OrgIds -> OrgRow]
      /\ \A p \in OrgIds : orgs'[p].slug = orgs[p].slug
  BY <1>2, <1>3 DEF OrgRow
<1>5. ExistingOrg' = ExistingOrg /\ links' = links
  BY <1>1, <1>4 DEF ExistingOrg
<1>6. LinksGrow(ExistingOrg, ExistingOrg', links, links')
  BY <1>5 DEF LinksGrow
<1>7. LinkFrameOK(Org!Done, ExistingOrg', links') /\ links \in [Org!LinkIds -> Org!LinkRow]
  BY OwnFrames DEF LinkFrameOK, LinkSide
<1> QED
  BY <1>1, <1>4, <1>5, <1>6, <1>7, OwnFrames, LinkStep DEF Org!Finish

(* Writing a link. *)
LEMMA InsertsLink ==
  ASSUME LinkSide, NEW r \in Reqs, Org!CreateInviteLink(r)
  PROVE  LinkSide'
<1> DEFINE f == req[r]
           new == [state |-> "open", org |-> f.org, role |-> f.role, expired |-> f.flag]
<1>1. f \in Org!Frame /\ LinkFrameOK(f, ExistingOrg, links)
  BY DEF LinkSide
<1>2. /\ f.op = "createInviteLink" /\ f.pc = "insert" /\ UNCHANGED orgs /\ Org!Finish(r)
      /\ links' = [links EXCEPT ![r] = new]
  BY DEF Org!CreateInviteLink, Org!At
<1>3. new \in Org!LinkRow /\ new.org \in ExistingOrg
  BY <1>1, <1>2, Shared DEF LinkFrameOK, Org!LinkRow, Org!Frame, ExistingOrg
<1> HIDE DEF new
<1>4. links \in [Org!LinkIds -> Org!LinkRow] /\ orgs \in [OrgIds -> OrgRow]
  BY DEF LinkSide
<1>5. ~KnownIn(r, links)
  BY <1>2 DEF LinkSide
<1>6. /\ links' \in [Org!LinkIds -> Org!LinkRow] /\ links'[r] = new
      /\ \A l \in Org!LinkIds : l # r => links'[l] = links[l]
  BY <1>2, <1>3, <1>4, Ids
<1>7. ExistingOrg' = ExistingOrg /\ orgs' = orgs
  BY <1>2 DEF ExistingOrg
<1>8. LinksGrow(ExistingOrg, ExistingOrg', links, links')
  BY <1>5, <1>6, <1>7 DEF LinksGrow, KnownIn
<1>9. LinkFrameOK(Org!Done, ExistingOrg', links')
  BY OwnFrames DEF LinkFrameOK
<1>10. \A l \in Org!LinkIds : KnownIn(l, links') =>
         KnownIn(l, links) \/ (l = r /\ links'[l].org \in ExistingOrg')
  BY <1>3, <1>6, <1>7 DEF KnownIn
<1> QED
  BY <1>2, <1>4, <1>6, <1>7, <1>8, <1>9, <1>10, OwnFrames, LinkStep DEF Org!Finish

(* A table of links after one link's state or date has been written. *)
LEMMA LinkWritten ==
  ASSUME LinkSide, NEW l \in Org!LinkIds,
         \/ links' = [links EXCEPT ![l].expired = TRUE]
         \/ KnownIn(l, links) /\ \E s \in {"used", "gone"} : links' = [links EXCEPT ![l].state = s]
  PROVE  /\ links' \in [Org!LinkIds -> Org!LinkRow]
         /\ \A k \in Org!LinkIds : KnownIn(k, links') <=> KnownIn(k, links)
         /\ LinksGrow(ExistingOrg, ExistingOrg, links, links')
<1>1. links \in [Org!LinkIds -> Org!LinkRow]
  BY DEF LinkSide
<1> DEFINE row == links[l]
           new == links'[l]
<1>2. row \in Org!LinkRow /\ \A k \in Org!LinkIds : k # l => links'[k] = links[k]
  BY <1>1
<1>3. CASE links' = [links EXCEPT ![l].expired = TRUE]
  <2>1. new = [row EXCEPT !.expired = TRUE] /\ DOMAIN links' = Org!LinkIds /\ links' = [k \in Org!LinkIds |-> links'[k]]
    BY <1>1, <1>3
  <2> HIDE DEF row, new
  <2>2. new \in Org!LinkRow /\ new.state = row.state /\ new.org = row.org /\ new.role = row.role
    BY <1>2, <2>1 DEF Org!LinkRow
  <2> QED
    BY <1>1, <1>2, <2>1, <2>2 DEF row, new, KnownIn, LinksGrow
<1>4. ASSUME KnownIn(l, links), NEW s \in {"used", "gone"}, links' = [links EXCEPT ![l].state = s]
      PROVE  /\ links' \in [Org!LinkIds -> Org!LinkRow]
             /\ \A k \in Org!LinkIds : KnownIn(k, links') <=> KnownIn(k, links)
             /\ LinksGrow(ExistingOrg, ExistingOrg, links, links')
  <2>1. new = [row EXCEPT !.state = s] /\ DOMAIN links' = Org!LinkIds /\ links' = [k \in Org!LinkIds |-> links'[k]]
    BY <1>1, <1>4
  <2> HIDE DEF row, new
  <2>2. new \in Org!LinkRow /\ new.state = s /\ new.org = row.org /\ new.role = row.role
    BY <1>2, <2>1 DEF Org!LinkRow
  <2> QED
    BY <1>1, <1>2, <1>4, <2>1, <2>2 DEF row, new, KnownIn, LinksGrow
<1> QED
  BY <1>3, <1>4

(* A revoked link is still known: its row is not one to be inserted again. *)
LEMMA RevokesLink ==
  ASSUME LinkSide, NEW r \in Reqs, Org!RevokeInviteLinkDelete(r)
  PROVE  LinkSide'
<1>1. /\ req[r].op = "revokeInviteLink" /\ req[r].pc = "delete" /\ UNCHANGED orgs /\ Org!Finish(r)
      /\ links' = [links EXCEPT ![req[r].link].state = "gone"]
  BY DEF Org!RevokeInviteLinkDelete, Org!At
<1>2. KnownIn(req[r].link, links)
  BY <1>1 DEF LinkSide, LinkFrameOK
<1>3. /\ links' \in [Org!LinkIds -> Org!LinkRow]
      /\ \A k \in Org!LinkIds : KnownIn(k, links') <=> KnownIn(k, links)
      /\ LinksGrow(ExistingOrg, ExistingOrg, links, links')
  BY <1>1, <1>2, LinkWritten DEF KnownIn
<1>4. ExistingOrg' = ExistingOrg /\ orgs' = orgs /\ orgs \in [OrgIds -> OrgRow]
  BY <1>1 DEF ExistingOrg, LinkSide
<1>5. LinkFrameOK(Org!Done, ExistingOrg', links')
  BY OwnFrames DEF LinkFrameOK
<1> QED
  BY <1>1, <1>3, <1>4, <1>5, OwnFrames, LinkStep DEF Org!Finish

(* A join marks the link it holds. *)
LEMMA JoinsByLink ==
  ASSUME LinkSide, NEW r \in Reqs, Org!JoinTransaction(r)
  PROVE  LinkSide'
<1> DEFINE f == req[r]
<1>1. f \in Org!Frame /\ LinkFrameOK(f, ExistingOrg, links)
  BY DEF LinkSide
<1>2. f.op = "joinByToken" /\ f.pc = "tx" /\ UNCHANGED orgs
  BY DEF Org!JoinTransaction, Org!At
<1>3. CASE Org!Finish(r) /\ UNCHANGED links
  BY <1>2, <1>3, LinkEnds
<1>4. CASE Org!Goto(r, "notify") /\ links' = [links EXCEPT ![f.link].state = "used"]
  <2>1. KnownIn(f.link, links)
    BY <1>1, <1>2 DEF LinkFrameOK
  <2>2. /\ links' \in [Org!LinkIds -> Org!LinkRow]
        /\ \A k \in Org!LinkIds : KnownIn(k, links') <=> KnownIn(k, links)
        /\ LinksGrow(ExistingOrg, ExistingOrg, links, links')
    BY <1>4, <2>1, LinkWritten DEF KnownIn
  <2>3. ExistingOrg' = ExistingOrg /\ orgs' = orgs /\ orgs \in [OrgIds -> OrgRow]
    BY <1>2 DEF ExistingOrg, LinkSide
  <2> DEFINE g == [f EXCEPT !.pc = "notify"]
  <2>4. req' = [req EXCEPT ![r] = g]
    BY <1>4 DEF Org!Goto
  <2>5. ~(r \in ExistingOrg) /\ ~KnownIn(r, links)
    BY <1>2 DEF LinkSide
  <2>6. LinkFrameOK(f, ExistingOrg', links')
    BY <1>1, <2>2, <2>3, LinkFrameKept
  <2> HIDE DEF f
  <2>7. /\ g \in Org!Frame /\ g.pc = "notify" /\ g.op = f.op /\ g.by = f.by /\ g.org = f.org
        /\ g.link = f.link /\ g.role = f.role
    BY <1>1 DEF Org!Frame, Org!PCs
  <2> HIDE DEF g
  <2>8. LinkFrameOK(g, ExistingOrg', links')
    BY <1>2, <2>6, <2>7 DEF LinkFrameOK
  <2>9. ~(r \in ExistingOrg') /\ ~KnownIn(r, links')
    BY <2>2, <2>3, <2>5, Ids
  <2> QED
    BY <2>2, <2>3, <2>4, <2>7, <2>8, <2>9, LinkStep
<1> QED
  BY <1>3, <1>4 DEF Org!JoinTransaction

(* The clock moves no request. *)
LEMMA LinkTimes ==
  ASSUME LinkSide, NEW l \in Org!LinkIds, Org!LinkExpires(l)
  PROVE  LinkSide'
<1>1. links' = [links EXCEPT ![l].expired = TRUE] /\ UNCHANGED <<orgs, req>>
  BY DEF Org!LinkExpires
<1>2. /\ links' \in [Org!LinkIds -> Org!LinkRow]
      /\ \A k \in Org!LinkIds : KnownIn(k, links') <=> KnownIn(k, links)
      /\ LinksGrow(ExistingOrg, ExistingOrg, links, links')
  BY <1>1, LinkWritten
<1>3. ExistingOrg' = ExistingOrg /\ orgs' = orgs /\ req' = req
  BY <1>1 DEF ExistingOrg
<1>4. \A q \in Reqs : LinkFrameOK(req[q], ExistingOrg, links')
  BY <1>2, LinkFrameKept DEF LinkSide
<1>5. \A q \in Reqs : KnownIn(q, links') <=> KnownIn(q, links)
  BY <1>2, Ids
<1> QED
  BY <1>2, <1>3, <1>4, <1>5 DEF LinkSide, LinksGrow

(* A request of OrganizationsService keeps what its own tables promise. *)
LEMMA OrgKeepsLinkSide ==
  ASSUME MembersOK, LinkSide, NEW r \in Reqs, Org!Call(r) \/ Org!Handler(r) \/ Org!Abort(r)
  PROVE  LinkSide'
<1>1. CASE Org!Call(r)
  BY <1>1, OrgCallStep
<1>2. CASE Org!CreateFindSlug(r)
  BY <1>2, FindsSlug
<1>3. CASE Org!CreateInsert(r)
  BY <1>3, InsertsOrg
<1>4. CASE Org!Update(r) \/ Org!Remove(r)
  BY <1>4, UpdatesOrg
<1>5. CASE Org!RemoveMemberTarget(r)
  BY <1>5, FindsTarget
<1>6. CASE Org!CreateInviteLink(r)
  BY <1>6, InsertsLink
<1>7. CASE Org!RevokeInviteLinkDelete(r)
  BY <1>7, RevokesLink
<1>8. CASE Org!JoinReadLink(r)
  BY <1>8, ReadsLink
<1>9. CASE Org!JoinTransaction(r)
  BY <1>9, JoinsByLink
<1>10. CASE \/ Org!CheckCaller(r) \/ Org!RemoveMemberCaller(r) \/ Org!RemoveMemberCount(r)
            \/ Org!RevokeInviteLinkFind(r) \/ Org!JoinCheckMember(r) \/ Org!JoinNotify(r)
            \/ Org!UpdateMemberRole(r) \/ Org!RemoveMemberDelete(r) \/ Org!Abort(r)
  BY <1>10, OrgRead
<1> QED
  BY <1>1, <1>2, <1>3, <1>4, <1>5, <1>6, <1>7, <1>8, <1>9, <1>10 DEF Org!Handler

-----------------------------------------------------------------------------
(* The memberships.  What a step may do to them, whichever service takes   *)
(* it: nothing, or rewrite and delete rows, or insert one.                 *)
Inserts(r, u, o, role) == members' = [members EXCEPT ![o][u] = [id |-> r, role |-> role]]

(* An insert is of one row, which has an id. *)
LEMMA InsertedRow ==
  ASSUME MembersOK, NEW r \in Reqs, NEW o \in OrgIds, NEW u \in Users, NEW role, Inserts(r, u, o, role)
  PROVE  /\ MembersOK'
         /\ members'[o][u] = [id |-> r, role |-> role]
         /\ \A p \in OrgIds, v \in Users : p # o \/ v # u => members'[p][v] = members[p][v]
<1> DEFINE row == [id |-> r, role |-> role]
<1>1. row.id \in MemberIds
  BY Ids
<1>2. members' = [members EXCEPT ![o][u] = row]
  BY DEF Inserts
<1> HIDE DEF row
<1>3. /\ DOMAIN members = OrgIds /\ \A p \in OrgIds : DOMAIN members[p] = Users
      /\ \A p \in OrgIds : members[p] = [v \in Users |-> members[p][v]]
  BY DEF MembersOK
<1>4. /\ DOMAIN members' = OrgIds /\ members' = [p \in OrgIds |-> members'[p]]
      /\ members'[o] = [members[o] EXCEPT ![u] = row]
      /\ \A p \in OrgIds : p # o => members'[p] = members[p]
  BY <1>2, <1>3
<1>5. /\ members'[o] = [v \in Users |-> members'[o][v]]
      /\ members'[o][u] = row /\ \A v \in Users : v # u => members'[o][v] = members[o][v]
  BY <1>3, <1>4
<1>6. \A p \in OrgIds : members'[p] = [v \in Users |-> members'[p][v]]
  BY <1>3, <1>4, <1>5
<1>7. members' = [p \in OrgIds |-> [v \in Users |-> members'[p][v]]]
  BY <1>4, <1>6
<1>8. \A p \in OrgIds, v \in Users : p # o \/ v # u => members'[p][v] = members[p][v]
  BY <1>4, <1>5
<1>9. \A p \in OrgIds, v \in Users : HasId(members'[p][v])
  BY <1>1, <1>5, <1>8 DEF MembersOK, HasId
<1> QED
  BY <1>5, <1>7, <1>8, <1>9 DEF MembersOK, row

(* Writing a role and deleting a row make nobody a member, and leave the   *)
(* ids of those who stay.                                                  *)
NoNewMember ==
  \A o \in OrgIds, u \in Users : IsMember(u, o)' =>
    IsMember(u, o) /\ members'[o][u].id = members[o][u].id

(* updateMemberRole writes a row there is. *)
LEMMA RoleWritten ==
  ASSUME MembersOK, NEW id \in MemberIds, NEW role, Org!SetRoleById(id, role)
  PROVE  MembersOK' /\ NoNewMember
<1>1. members' = [o \in OrgIds |-> [u \in Users |->
        IF members[o][u].id = id THEN [id |-> id, role |-> role] ELSE members[o][u]]]
  BY Shared DEF Org!SetRoleById
<1>2. \A o \in OrgIds, u \in Users : \/ members'[o][u] = members[o][u]
                                     \/ members'[o][u] = [id |-> id, role |-> role] /\ members[o][u].id = id
  BY <1>1
<1>3. members' = [o \in OrgIds |-> [u \in Users |-> members'[o][u]]]
  BY <1>1
<1>4. NoMember.id = Null /\ id # Null
  BY Ids DEF NoMember
<1>5. \A o \in OrgIds, u \in Users :
        /\ HasId(members'[o][u])
        /\ IsMember(u, o)' => IsMember(u, o) /\ members'[o][u].id = members[o][u].id
  BY <1>2, <1>4 DEF MembersOK, HasId, IsMember
<1> QED
  BY <1>3, <1>5 DEF MembersOK, NoNewMember

(* removeMember deletes by id. *)
LEMMA RowDeleted ==
  ASSUME MembersOK, NEW id, Org!DeleteMemberById(id)
  PROVE  MembersOK' /\ NoNewMember
<1>1. members' = [o \in OrgIds |-> [u \in Users |->
        IF members[o][u].id = id THEN NoMember ELSE members[o][u]]]
  BY Shared DEF Org!DeleteMemberById
<1>2. \A o \in OrgIds, u \in Users : members'[o][u] \in {members[o][u], NoMember}
  BY <1>1
<1>3. members' = [o \in OrgIds |-> [u \in Users |-> members'[o][u]]]
  BY <1>1
<1>4. \A o \in OrgIds, u \in Users :
        /\ HasId(members'[o][u])
        /\ IsMember(u, o)' => IsMember(u, o) /\ members'[o][u].id = members[o][u].id
  BY <1>2 DEF MembersOK, HasId, IsMember
<1> QED
  BY <1>3, <1>4 DEF MembersOK, NoNewMember

(* Most steps leave the memberships. *)
LEMMA MembersRest ==
  ASSUME MembersOK, UNCHANGED members
  PROVE  MembersOK' /\ NoNewMember
BY DEF MembersOK, NoNewMember, IsMember

-----------------------------------------------------------------------------
(* The same for InvitationsService: invitations come to exist and keep     *)
(* their organization, address and role.                                   *)
LettersGrow(T, W) ==
  \A i \in Inv!InvIds : SentIn(i, T) =>
    SentIn(i, W) /\ W[i].org = T[i].org /\ W[i].email = T[i].email /\ W[i].role = T[i].role

(* Frames that do not move stay right. *)
LEMMA LetterFrameKept ==
  ASSUME NEW f, NEW E, NEW F, NEW T, NEW W, LetterFrameOK(f, E, T), E \subseteq F, LettersGrow(T, W)
  PROVE  LetterFrameOK(f, F, W)
BY DEF LetterFrameOK, LettersGrow, SentIn, AboutInvitation

(* A request goes on or ends, and may have sent an invitation if it ends. *)
LEMMA LetterStep ==
  ASSUME LetterSide, UNCHANGED orgs, NEW r \in Reqs, NEW g \in Inv!IFrame, ireq' = [ireq EXCEPT ![r] = g],
         LetterFrameOK(g, ExistingOrg, invitations'),
         invitations' \in [Inv!InvIds -> Inv!InvRow],
         LettersGrow(invitations, invitations'),
         \A i \in Inv!InvIds : SentIn(i, invitations') =>
           \/ SentIn(i, invitations)
           \/ i = r /\ invitations'[i].org \in ExistingOrg /\ invitations'[i].email \in Users,
         SentIn(r, invitations') => g.pc = "done"
  PROVE  LetterSide'
<1>0. ExistingOrg' = ExistingOrg
  BY DEF ExistingOrg
<1>1. ireq' \in [Reqs -> Inv!IFrame] /\ ireq'[r] = g /\ \A q \in Reqs : q # r => ireq'[q] = ireq[q]
  BY DEF LetterSide
<1>2. ASSUME NEW q \in Reqs PROVE LetterFrameOK(ireq'[q], ExistingOrg, invitations')
  <2>1. CASE q # r
    <3>1. LetterFrameOK(ireq[q], ExistingOrg, invitations)
      BY DEF LetterSide
    <3>2. LetterFrameOK(ireq[q], ExistingOrg, invitations')
      BY <3>1, LetterFrameKept
    <3> QED
      BY <1>1, <2>1, <3>2
  <2> QED
    BY <1>1, <2>1
<1>3. \A q \in Reqs : SentIn(q, invitations') => ireq'[q].pc = "done"
  BY <1>1, Ids DEF LetterSide
<1>4. \A i \in Inv!InvIds : SentIn(i, invitations') =>
        invitations'[i].org \in ExistingOrg /\ invitations'[i].email \in Users
  BY DEF LetterSide, LettersGrow
<1> QED
  BY <1>0, <1>1, <1>2, <1>3, <1>4 DEF LetterSide

(* One that leaves the invitations. *)
LEMMA LetterRead ==
  ASSUME LetterSide, NEW r \in Reqs, ireq[r].pc # "done", UNCHANGED <<orgs, invitations>>,
         NEW g \in Inv!IFrame, ireq' = [ireq EXCEPT ![r] = g], LetterFrameOK(g, ExistingOrg, invitations)
  PROVE  LetterSide'
<1>1. LettersGrow(invitations, invitations)
  BY DEF LettersGrow
<1>2. ~SentIn(r, invitations) /\ invitations' = invitations /\ invitations \in [Inv!InvIds -> Inv!InvRow]
  BY DEF LetterSide
<1> QED
  BY <1>1, <1>2, LetterStep

(* One that ends. *)
LEMMA LetterEnds ==
  ASSUME LetterSide, NEW r \in Reqs, ireq[r].pc # "done", UNCHANGED <<orgs, invitations>>, Inv!IFinish(r)
  PROVE  LetterSide'
<1>1. LetterFrameOK(Inv!IDone, ExistingOrg, invitations)
  BY LetterFrames DEF LetterFrameOK, AboutInvitation
<1> QED
  BY <1>1, LetterFrames, LetterRead DEF Inv!IFinish

(* One that goes on to its next call. *)
LEMMA LetterGoes ==
  ASSUME LetterSide, NEW r \in Reqs, ireq[r].pc # "done", UNCHANGED <<orgs, invitations>>,
         NEW pc \in Inv!IPCs, Inv!IGoto(r, pc),
         pc = "expire" => ireq[r].op \in AboutInvitation,
         pc \in {"existing", "tx"} => ireq[r].pc \in {"existing", "tx"}
  PROVE  LetterSide'
<1> DEFINE f == ireq[r]
           g == [f EXCEPT !.pc = pc]
<1>1. f \in Inv!IFrame /\ LetterFrameOK(f, ExistingOrg, invitations) /\ ireq' = [ireq EXCEPT ![r] = g]
  BY DEF LetterSide, Inv!IGoto
<1>2. /\ pc = "expire" => f.op \in AboutInvitation
      /\ pc \in {"existing", "tx"} => f.pc \in {"existing", "tx"}
  OBVIOUS
<1> HIDE DEF f
<1>3. /\ g \in Inv!IFrame /\ g.pc = pc /\ g.op = f.op /\ g.by = f.by /\ g.org = f.org
      /\ g.inv = f.inv /\ g.email = f.email /\ g.role = f.role
  BY <1>1 DEF Inv!IFrame
<1> HIDE DEF g
<1>4. LetterFrameOK(g, ExistingOrg, invitations)
  BY <1>1, <1>2, <1>3 DEF LetterFrameOK
<1> QED
  BY <1>1, <1>3, <1>4, LetterRead

-----------------------------------------------------------------------------
(* The requests of InvitationsService that leave the invitations. *)
LEMMA InvRead ==
  ASSUME LetterSide, NEW r \in Reqs,
         \/ Inv!InvCheckCaller(r) \/ Inv!SendCheckOrg(r) \/ Inv!SendCheckDuplicate(r)
         \/ Inv!SendCheckMember(r) \/ Inv!ViewRead(r) \/ Inv!AcceptCheckMember(r)
         \/ Inv!NotifyInviter(r) \/ Inv!RevokeFind(r) \/ Inv!InvAbort(r)
  PROVE  LetterSide'
<1> DEFINE f == ireq[r]
<1>0. {"org", "find", "duplicate", "user", "insert", "expire", "tx", "write"} \subseteq Inv!IPCs
  BY DEF Inv!IPCs
<1>1. CASE Inv!NotifyInviter(r) \/ Inv!InvAbort(r)
  BY <1>1, LetterEnds DEF Inv!NotifyInviter, Inv!InvAbort, Inv!IInFlight
<1>2. CASE Inv!ViewRead(r)
  <2>1. f.pc = "read" /\ f.op \in AboutInvitation /\ UNCHANGED <<orgs, invitations>>
    BY <1>2 DEF Inv!ViewRead, AboutInvitation
  <2>2. Inv!IFinish(r) \/ Inv!IGoto(r, "expire")
    BY <1>2 DEF Inv!ViewRead, Inv!ICheck
  <2> QED
    BY <1>0, <2>1, <2>2, LetterEnds, LetterGoes
<1>3. CASE Inv!AcceptCheckMember(r)
  <2>1. f.pc = "existing" /\ UNCHANGED <<orgs, invitations>>
    BY <1>3 DEF Inv!AcceptCheckMember, Inv!IAt
  <2>2. Inv!IFinish(r) \/ Inv!IGoto(r, "tx")
    BY <1>3 DEF Inv!AcceptCheckMember, Inv!ICheck
  <2> QED
    BY <1>0, <2>1, <2>2, LetterEnds, LetterGoes
<1>4. CASE \/ Inv!InvCheckCaller(r) \/ Inv!SendCheckOrg(r) \/ Inv!SendCheckDuplicate(r)
           \/ Inv!SendCheckMember(r) \/ Inv!RevokeFind(r)
  <2>1. f.pc # "done" /\ UNCHANGED <<orgs, invitations>>
    BY <1>4 DEF Inv!InvCheckCaller, Inv!SendCheckOrg, Inv!SendCheckDuplicate, Inv!SendCheckMember,
       Inv!RevokeFind, Inv!IAt
  <2>2. \/ Inv!IFinish(r)
        \/ \E pc \in {"org", "find", "duplicate", "user", "insert", "write"} : Inv!IGoto(r, pc)
    BY <1>4 DEF Inv!InvCheckCaller, Inv!SendCheckOrg, Inv!SendCheckDuplicate, Inv!SendCheckMember,
       Inv!RevokeFind, Inv!ICheck
  <2>3. ASSUME NEW pc \in {"org", "find", "duplicate", "user", "insert", "write"}, Inv!IGoto(r, pc)
        PROVE  LetterSide'
    <3>1. pc \in Inv!IPCs /\ pc \notin {"expire", "existing", "tx"}
      BY <1>0
    <3> QED
      BY <2>1, <2>3, <3>1, LetterGoes
  <2> QED
    BY <2>1, <2>2, <2>3, LetterEnds
<1> QED
  BY <1>1, <1>2, <1>3, <1>4

(* send: whether the address has an account. *)
LEMMA FindsUser ==
  ASSUME LetterSide, NEW r \in Reqs, Inv!SendFindUser(r)
  PROVE  LetterSide'
<1> DEFINE f == ireq[r]
           found == f.email \in accounts
           h == [f EXCEPT !.known = found]
           g == [h EXCEPT !.pc = IF found THEN "member" ELSE "insert"]
<1>1. f \in Inv!IFrame /\ LetterFrameOK(f, ExistingOrg, invitations)
  BY DEF LetterSide
<1>2. f.op = "send" /\ f.pc = "user" /\ UNCHANGED <<orgs, invitations>>
  BY DEF Inv!SendFindUser, Inv!IAt
<1>3. ireq' = [ireq EXCEPT ![r] = g]
  BY DEF Inv!SendFindUser, LetterSide, Inv!IFrame
<1>4. found \in BOOLEAN
  OBVIOUS
<1> HIDE DEF f, found
<1>5. /\ h \in Inv!IFrame /\ h.op = f.op /\ h.by = f.by /\ h.org = f.org /\ h.email = f.email
      /\ h.role = f.role
  BY <1>1, <1>4 DEF Inv!IFrame
<1> HIDE DEF h
<1>6. /\ g \in Inv!IFrame /\ g.op = f.op /\ g.by = f.by /\ g.org = f.org /\ g.email = f.email
      /\ g.role = f.role /\ g.pc \in {"member", "insert"}
  BY <1>4, <1>5 DEF Inv!IFrame, Inv!IPCs
<1> HIDE DEF g
<1>7. LetterFrameOK(g, ExistingOrg, invitations)
  BY <1>1, <1>2, <1>6 DEF LetterFrameOK, AboutInvitation
<1>8. ireq[r].pc # "done"
  BY <1>2 DEF f
<1> QED
  BY <1>2, <1>3, <1>6, <1>7, <1>8, LetterRead

(* accept and reject keep what the invitation says, and accept only if it  *)
(* is addressed to the caller.                                             *)
LEMMA Resolves ==
  ASSUME LetterSide, NEW r \in Reqs, Inv!ResolveAndValidate(r)
  PROVE  LetterSide'
<1> DEFINE f == ireq[r]
           row == invitations[f.inv]
<1>1. f \in Inv!IFrame /\ LetterFrameOK(f, ExistingOrg, invitations)
  BY DEF LetterSide
<1>2. f.op \in {"accept", "reject"} /\ f.pc = "read" /\ UNCHANGED <<orgs, invitations>>
  BY DEF Inv!ResolveAndValidate
<1>3. CASE Inv!IFinish(r)
  BY <1>2, <1>3, LetterEnds
<1>4. CASE Inv!IGoto(r, "expire")
  BY <1>2, <1>4, LetterGoes DEF AboutInvitation, Inv!IPCs
<1>5. CASE /\ row.email = f.by
           /\ ireq' = [ireq EXCEPT ![r].org = row.org, ![r].role = row.role,
                         ![r].pc = IF f.op = "accept" THEN "existing" ELSE "write"]
  <2>1. SentIn(f.inv, invitations)
    BY <1>1, <1>2 DEF LetterFrameOK, AboutInvitation
  <2>2. row.org \in Inv!OrgIds \cup {Null} /\ row.role \in Roles \cup {"NONE"}
    BY <2>1 DEF SentIn, LetterSide, Inv!InvRow
  <2> DEFINE h == [f EXCEPT !.org = row.org]
             k == [h EXCEPT !.role = row.role]
             g == [k EXCEPT !.pc = IF f.op = "accept" THEN "existing" ELSE "write"]
  <2>3. ireq' = [ireq EXCEPT ![r] = g]
    BY <1>5 DEF LetterSide, Inv!IFrame
  <2> HIDE DEF f, row
  <2>4. h \in Inv!IFrame /\ h.op = f.op /\ h.by = f.by /\ h.inv = f.inv /\ h.org = row.org
    BY <1>1, <2>2 DEF Inv!IFrame
  <2> HIDE DEF h
  <2>5. /\ k \in Inv!IFrame /\ k.op = f.op /\ k.by = f.by /\ k.inv = f.inv /\ k.org = row.org
        /\ k.role = row.role
    BY <2>2, <2>4 DEF Inv!IFrame
  <2> HIDE DEF k
  <2>6. /\ g \in Inv!IFrame /\ g.op = f.op /\ g.by = f.by /\ g.inv = f.inv /\ g.org = row.org
        /\ g.role = row.role /\ g.pc \in {"existing", "write"}
    BY <2>5 DEF Inv!IFrame, Inv!IPCs
  <2> HIDE DEF g
  <2>7. row = invitations[g.inv] /\ row.email = g.by
    BY <1>5, <2>6 DEF row
  <2>8. LetterFrameOK(g, ExistingOrg, invitations)
    BY <1>1, <1>2, <2>1, <2>6, <2>7 DEF LetterFrameOK
  <2>9. ireq[r].pc # "done"
    BY <1>2 DEF f
  <2> QED
    BY <1>2, <2>3, <2>6, <2>8, <2>9, LetterRead
<1> QED
  BY <1>3, <1>4, <1>5 DEF Inv!ResolveAndValidate

(* The frame a client's call starts is about something that is there. *)
NewLetterFrame(f) == f \in Inv!IFrame /\ LetterFrameOK(f, ExistingOrg, invitations)

(* There is such a frame behind each of the calls. *)
LEMMA InvCalls ==
  ASSUME LetterSide, NEW r \in Reqs, Inv!InvCall(r)
  PROVE  \E f : NewLetterFrame(f) /\ Inv!InvIssue(r, f)
<1>1. PICK u \in Users :
        \/ \E o \in ExistingOrg, e \in Users, role \in Roles, past \in BOOLEAN :
             Inv!InvIssue(r, [Inv!IBlank EXCEPT !.pc = "caller", !.op = "send", !.by = u, !.org = o,
                                    !.email = e, !.role = role, !.past = past])
        \/ Inv!InvIssue(r, [Inv!IBlank EXCEPT !.pc = "expireMine", !.op = "mine", !.by = u, !.email = u])
        \/ \E i \in Inv!KnownInv, op \in {"getByToken", "getById", "accept", "reject"} :
             Inv!InvIssue(r, [Inv!IBlank EXCEPT !.pc = "read", !.op = op, !.by = u, !.inv = i])
        \/ \E i \in Inv!KnownInv, o \in ExistingOrg :
             Inv!InvIssue(r, [Inv!IBlank EXCEPT !.pc = "caller", !.op = "revoke", !.by = u,
                                    !.org = o, !.inv = i])
  BY Shared DEF Inv!InvCall
<1>2. ExistingOrg \subseteq Inv!OrgIds /\ Inv!KnownInv \subseteq Inv!InvIds
  BY Shared DEF ExistingOrg, Inv!KnownInv
<1>p. /\ {"caller", "expireMine", "read"} \subseteq Inv!IPCs
      /\ {"send", "mine", "revoke", "getByToken", "getById", "accept", "reject"} \subseteq Inv!AllInvOps
  BY DEF Inv!IPCs, Inv!AllInvOps
<1>3. ASSUME NEW o \in ExistingOrg, NEW e \in Users, NEW role \in Roles, NEW past \in BOOLEAN, NEW f,
            f = [Inv!IBlank EXCEPT !.pc = "caller", !.op = "send", !.by = u, !.org = o,
                                    !.email = e, !.role = role, !.past = past]
     PROVE  NewLetterFrame(f)
  <2>1. f = [pc |-> "caller", op |-> "send", by |-> u, org |-> o, inv |-> Null,
             email |-> e, role |-> role, known |-> FALSE, past |-> past]
    BY <1>3 DEF Inv!IBlank
  <2>2. f \in Inv!IFrame
    BY <1>2, <1>p, <2>1 DEF Inv!IFrame
  <2>3. LetterFrameOK(f, ExistingOrg, invitations)
    BY <1>2, <2>1 DEF LetterFrameOK, AboutInvitation
  <2> QED
    BY <2>2, <2>3 DEF NewLetterFrame
<1>4. ASSUME NEW f,
            f = [Inv!IBlank EXCEPT !.pc = "expireMine", !.op = "mine", !.by = u, !.email = u]
     PROVE  NewLetterFrame(f)
  <2>1. f = [pc |-> "expireMine", op |-> "mine", by |-> u, org |-> Null, inv |-> Null,
             email |-> u, role |-> "NONE", known |-> FALSE, past |-> FALSE]
    BY <1>4 DEF Inv!IBlank
  <2>2. f \in Inv!IFrame
    BY <1>2, <1>p, <2>1 DEF Inv!IFrame
  <2>3. LetterFrameOK(f, ExistingOrg, invitations)
    BY <1>2, <2>1 DEF LetterFrameOK, AboutInvitation
  <2> QED
    BY <2>2, <2>3 DEF NewLetterFrame
<1>5. ASSUME NEW i \in Inv!KnownInv, NEW op \in {"getByToken", "getById", "accept", "reject"}, NEW f,
            f = [Inv!IBlank EXCEPT !.pc = "read", !.op = op, !.by = u, !.inv = i]
     PROVE  NewLetterFrame(f)
  <2>1. f = [pc |-> "read", op |-> op, by |-> u, org |-> Null, inv |-> i,
             email |-> Null, role |-> "NONE", known |-> FALSE, past |-> FALSE]
    BY <1>5 DEF Inv!IBlank
  <2>2. f \in Inv!IFrame
    BY <1>2, <1>p, <2>1 DEF Inv!IFrame
  <2>3. LetterFrameOK(f, ExistingOrg, invitations)
    BY <1>2, <2>1 DEF LetterFrameOK, AboutInvitation, SentIn, Inv!KnownInv
  <2> QED
    BY <2>2, <2>3 DEF NewLetterFrame
<1>6. ASSUME NEW i \in Inv!KnownInv, NEW o \in ExistingOrg, NEW f,
            f = [Inv!IBlank EXCEPT !.pc = "caller", !.op = "revoke", !.by = u,
                                    !.org = o, !.inv = i]
     PROVE  NewLetterFrame(f)
  <2>1. f = [pc |-> "caller", op |-> "revoke", by |-> u, org |-> o, inv |-> i,
             email |-> Null, role |-> "NONE", known |-> FALSE, past |-> FALSE]
    BY <1>6 DEF Inv!IBlank
  <2>2. f \in Inv!IFrame
    BY <1>2, <1>p, <2>1 DEF Inv!IFrame
  <2>3. LetterFrameOK(f, ExistingOrg, invitations)
    BY <1>2, <2>1 DEF LetterFrameOK, AboutInvitation, SentIn, Inv!KnownInv
  <2> QED
    BY <2>2, <2>3 DEF NewLetterFrame
<1> QED
  BY <1>1, <1>3, <1>4, <1>5, <1>6

(* So a call keeps the tables and frames right. *)
LEMMA InvCallStep ==
  ASSUME LetterSide, NEW r \in Reqs, Inv!InvCall(r)
  PROVE  LetterSide'
<1>1. PICK f : NewLetterFrame(f) /\ Inv!InvIssue(r, f)
  BY InvCalls
<1> QED
  BY <1>1, LetterRead DEF NewLetterFrame, Inv!InvIssue

(* Sending one. *)
LEMMA SendsLetter ==
  ASSUME LetterSide, NEW r \in Reqs, Inv!SendInsert(r)
  PROVE  LetterSide'
<1> DEFINE f == ireq[r]
           target == IF f.known THEN f.email ELSE Null
           new == [status |-> "PENDING", org |-> f.org, email |-> f.email, role |-> f.role,
                   target |-> target, by |-> f.by, past |-> f.past]
<1>1. f \in Inv!IFrame /\ LetterFrameOK(f, ExistingOrg, invitations)
  BY DEF LetterSide
<1>2. /\ f.op = "send" /\ f.pc = "insert" /\ UNCHANGED orgs /\ Inv!IFinish(r)
      /\ invitations' = [invitations EXCEPT ![r] = new]
  BY DEF Inv!SendInsert, Inv!IAt
<1>3. f.org \in ExistingOrg /\ f.email \in Users /\ f.role \in Roles
  BY <1>1, <1>2 DEF LetterFrameOK
<1>4. f.org \in Inv!OrgIds /\ f.by \in Users \cup {Null} /\ f.past \in BOOLEAN /\ target \in Users \cup {Null}
  BY <1>1, <1>3, Shared DEF Inv!IFrame, ExistingOrg
<1> HIDE DEF f, target
<1>5. new \in Inv!InvRow /\ new.org = f.org /\ new.email = f.email
  BY <1>3, <1>4 DEF Inv!InvRow, Inv!Statuses
<1> HIDE DEF new
<1>6. invitations \in [Inv!InvIds -> Inv!InvRow]
  BY DEF LetterSide
<1>7. ireq[r].pc # "done"
  BY <1>2 DEF f
<1>8. ~SentIn(r, invitations)
  BY <1>7 DEF LetterSide
<1>9. /\ invitations' \in [Inv!InvIds -> Inv!InvRow] /\ invitations'[r] = new
      /\ \A i \in Inv!InvIds : i # r => invitations'[i] = invitations[i]
  BY <1>2, <1>5, <1>6, Ids
<1>10. LettersGrow(invitations, invitations')
  BY <1>8, <1>9 DEF LettersGrow, SentIn
<1>11. \A i \in Inv!InvIds : SentIn(i, invitations') =>
         \/ SentIn(i, invitations)
         \/ i = r /\ invitations'[i].org \in ExistingOrg /\ invitations'[i].email \in Users
  BY <1>3, <1>5, <1>9 DEF SentIn
<1>12. LetterFrameOK(Inv!IDone, ExistingOrg, invitations')
  BY LetterFrames DEF LetterFrameOK, AboutInvitation
<1> QED
  BY <1>2, <1>9, <1>10, <1>11, <1>12, LetterFrames, LetterStep DEF Inv!IFinish

(* Any other write leaves an invitation, or is to one that has been sent   *)
(* and is to its status, its target or its date.                           *)
Marked(row, new) ==
  \/ \E s \in Inv!Statuses : new = [row EXCEPT !.status = s]
  \/ \E s \in Inv!Statuses, u \in Users : new = [row EXCEPT !.status = s, !.target = u]
  \/ new = [row EXCEPT !.past = TRUE]

(* Such a write leaves the organization, the address and the role. *)
LEMMA MarkedRow ==
  ASSUME NEW row \in Inv!InvRow, NEW new, row.status # "none", Marked(row, new)
  PROVE  /\ new \in Inv!InvRow /\ new.status # "none"
         /\ new.org = row.org /\ new.email = row.email /\ new.role = row.role
<1>1. "none" \notin Inv!Statuses
  BY DEF Inv!Statuses
<1>2. ASSUME NEW s \in Inv!Statuses, new = [row EXCEPT !.status = s]
      PROVE  /\ new \in Inv!InvRow /\ new.status # "none"
             /\ new.org = row.org /\ new.email = row.email /\ new.role = row.role
  BY <1>1, <1>2 DEF Inv!InvRow
<1>3. ASSUME NEW s \in Inv!Statuses, NEW u \in Users, new = [row EXCEPT !.status = s, !.target = u]
      PROVE  /\ new \in Inv!InvRow /\ new.status # "none"
             /\ new.org = row.org /\ new.email = row.email /\ new.role = row.role
  BY <1>1, <1>3 DEF Inv!InvRow
<1>4. CASE new = [row EXCEPT !.past = TRUE]
  BY <1>4 DEF Inv!InvRow
<1> QED
  BY <1>2, <1>3, <1>4 DEF Marked

(* And so invitations only grow. *)
LEMMA LettersMarked ==
  ASSUME LetterSide, DOMAIN invitations' = Inv!InvIds,
         invitations' = [i \in Inv!InvIds |-> invitations'[i]],
         \A i \in Inv!InvIds : \/ invitations'[i] = invitations[i]
                               \/ SentIn(i, invitations) /\ Marked(invitations[i], invitations'[i])
  PROVE  /\ invitations' \in [Inv!InvIds -> Inv!InvRow]
         /\ \A i \in Inv!InvIds : SentIn(i, invitations') <=> SentIn(i, invitations)
         /\ LettersGrow(invitations, invitations')
<1>1. \A i \in Inv!InvIds : invitations[i] \in Inv!InvRow
  BY DEF LetterSide
<1>2. ASSUME NEW i \in Inv!InvIds
      PROVE  /\ invitations'[i] \in Inv!InvRow
             /\ SentIn(i, invitations') <=> SentIn(i, invitations)
             /\ SentIn(i, invitations) =>
                  /\ invitations'[i].org = invitations[i].org
                  /\ invitations'[i].email = invitations[i].email
                  /\ invitations'[i].role = invitations[i].role
  BY <1>1, MarkedRow DEF SentIn
<1> QED
  BY <1>2 DEF LettersGrow

(* A request marks invitations and goes on or ends. *)
LEMMA MarksLetters ==
  ASSUME LetterSide, NEW r \in Reqs, UNCHANGED orgs, ireq[r].pc # "done",
         invitations' = [i \in Inv!InvIds |-> invitations'[i]],
         \A i \in Inv!InvIds : \/ invitations'[i] = invitations[i]
                               \/ SentIn(i, invitations) /\ Marked(invitations[i], invitations'[i]),
         Inv!IFinish(r) \/ Inv!IGoto(r, "notify")
  PROVE  LetterSide'
<1>1. /\ invitations' \in [Inv!InvIds -> Inv!InvRow]
      /\ \A i \in Inv!InvIds : SentIn(i, invitations') <=> SentIn(i, invitations)
      /\ LettersGrow(invitations, invitations')
  BY LettersMarked
<1>2. ~SentIn(r, invitations) /\ ~SentIn(r, invitations')
  BY <1>1, Ids DEF LetterSide
<1>3. CASE Inv!IFinish(r)
  <2>1. LetterFrameOK(Inv!IDone, ExistingOrg, invitations')
    BY LetterFrames DEF LetterFrameOK, AboutInvitation
  <2> QED
    BY <1>1, <1>2, <1>3, <2>1, LetterFrames, LetterStep DEF Inv!IFinish
<1>4. CASE Inv!IGoto(r, "notify")
  <2> DEFINE f == ireq[r]
             g == [f EXCEPT !.pc = "notify"]
  <2>1. f \in Inv!IFrame /\ LetterFrameOK(f, ExistingOrg, invitations) /\ ireq' = [ireq EXCEPT ![r] = g]
    BY <1>4 DEF LetterSide, Inv!IGoto
  <2>2. LetterFrameOK(f, ExistingOrg, invitations')
    BY <1>1, <2>1, LetterFrameKept
  <2> HIDE DEF f
  <2>3. /\ g \in Inv!IFrame /\ g.pc = "notify" /\ g.op = f.op /\ g.by = f.by /\ g.org = f.org
        /\ g.inv = f.inv /\ g.email = f.email /\ g.role = f.role
    BY <2>1 DEF Inv!IFrame, Inv!IPCs
  <2> HIDE DEF g
  <2>4. LetterFrameOK(g, ExistingOrg, invitations')
    BY <2>2, <2>3 DEF LetterFrameOK
  <2> QED
    BY <1>1, <1>2, <2>1, <2>3, <2>4, LetterStep
<1> QED
  BY <1>3, <1>4

(* expireMine, the writes of a status, and accept's transaction. *)
LEMMA InvWrites ==
  ASSUME LetterSide, NEW r \in Reqs,
         \/ Inv!ExpireMine(r) \/ Inv!ExpireOne(r) \/ Inv!AcceptTransaction(r)
         \/ Inv!RejectWrite(r) \/ Inv!RevokeWrite(r)
  PROVE  LetterSide'
<1> DEFINE f == ireq[r]
<1>1. f \in Inv!IFrame /\ LetterFrameOK(f, ExistingOrg, invitations)
      /\ invitations \in [Inv!InvIds -> Inv!InvRow]
  BY DEF LetterSide
<1>2. {"ACCEPTED", "REJECTED", "EXPIRED", "REVOKED"} \subseteq Inv!Statuses
  BY DEF Inv!Statuses
<1>3. CASE Inv!ExpireMine(r)
  <2>1. /\ f.pc = "expireMine" /\ UNCHANGED orgs /\ Inv!IFinish(r)
        /\ invitations' = [i \in Inv!InvIds |->
             IF Inv!Pending(i) /\ invitations[i].past /\ invitations[i].email = f.by
             THEN [invitations[i] EXCEPT !.status = "EXPIRED"] ELSE invitations[i]]
    BY <1>3 DEF Inv!ExpireMine, Inv!IAt
  <2>2. invitations' = [i \in Inv!InvIds |-> invitations'[i]]
    BY <2>1
  <2>3. \A i \in Inv!InvIds :
          \/ invitations'[i] = invitations[i]
          \/ SentIn(i, invitations) /\ Marked(invitations[i], invitations'[i])
    BY <1>2, <2>1 DEF Inv!Pending, SentIn, Marked
  <2> QED
    BY <2>1, <2>2, <2>3, MarksLetters
<1>4. ASSUME NEW i \in Inv!InvIds, SentIn(i, invitations), f.pc # "done", UNCHANGED orgs,
             Inv!IFinish(r) \/ Inv!IGoto(r, "notify"),
             NEW new, Marked(invitations[i], new), invitations' = [invitations EXCEPT ![i] = new]
      PROVE  LetterSide'
  <2>1. invitations' = [j \in Inv!InvIds |-> invitations'[j]]
    BY <1>1, <1>4
  <2>2. \A j \in Inv!InvIds :
          \/ invitations'[j] = invitations[j]
          \/ SentIn(j, invitations) /\ Marked(invitations[j], invitations'[j])
    BY <1>1, <1>4
  <2> QED
    BY <1>4, <2>1, <2>2, MarksLetters
<1>5. ASSUME f.op \in AboutInvitation \/ f.pc = "expire", f.pc # "done", UNCHANGED orgs,
             Inv!IFinish(r) \/ Inv!IGoto(r, "notify"),
             NEW s \in Inv!Statuses, Inv!SetStatus(f.inv, s)
      PROVE  LetterSide'
  <2>1. SentIn(f.inv, invitations)
    BY <1>1, <1>5 DEF LetterFrameOK
  <2> DEFINE new == [invitations[f.inv] EXCEPT !.status = s]
  <2>2. Marked(invitations[f.inv], new)
    BY DEF Marked
  <2>3. invitations' = [invitations EXCEPT ![f.inv] = new]
    BY <1>5 DEF Inv!SetStatus
  <2> HIDE DEF new
  <2> QED
    BY <1>4, <1>5, <2>1, <2>2, <2>3 DEF SentIn
<1>6. CASE Inv!ExpireOne(r)
  BY <1>2, <1>5, <1>6 DEF Inv!ExpireOne
<1>7. CASE Inv!RejectWrite(r)
  BY <1>2, <1>5, <1>7 DEF Inv!RejectWrite, Inv!IAt, AboutInvitation
<1>8. CASE Inv!RevokeWrite(r)
  BY <1>2, <1>5, <1>8 DEF Inv!RevokeWrite, Inv!IAt, AboutInvitation
<1>9. CASE Inv!AcceptTransaction(r)
  <2>1. f.op = "accept" /\ f.pc = "tx" /\ UNCHANGED orgs
    BY <1>9 DEF Inv!AcceptTransaction, Inv!IAt
  <2>2. SentIn(f.inv, invitations) /\ f.by \in Users
    BY <1>1, <2>1 DEF LetterFrameOK, AboutInvitation
  <2>3. CASE Inv!IFinish(r) /\ UNCHANGED invitations
    BY <2>1, <2>3, LetterEnds
  <2>4. CASE /\ Inv!IGoto(r, "notify")
             /\ invitations' = [invitations EXCEPT ![f.inv].status = "ACCEPTED", ![f.inv].target = f.by]
    <3> DEFINE new == [invitations[f.inv] EXCEPT !.status = "ACCEPTED", !.target = f.by]
    <3>1. Marked(invitations[f.inv], new)
      BY <1>2, <2>2 DEF Marked
    <3>2. invitations' = [invitations EXCEPT ![f.inv] = new]
      BY <1>1, <2>2, <2>4 DEF SentIn
    <3> HIDE DEF new
    <3> QED
      BY <1>4, <2>1, <2>2, <2>4, <3>1, <3>2 DEF SentIn
  <2> QED
    BY <1>9, <2>3, <2>4 DEF Inv!AcceptTransaction
<1> QED
  BY <1>3, <1>6, <1>7, <1>8, <1>9

(* The clock moves no request. *)
LEMMA LetterTimes ==
  ASSUME LetterSide, NEW i \in Inv!InvIds, Inv!InvPasses(i)
  PROVE  LetterSide'
<1>1. /\ SentIn(i, invitations) /\ UNCHANGED <<orgs, ireq>>
      /\ invitations' = [invitations EXCEPT ![i].past = TRUE]
  BY DEF Inv!InvPasses, Inv!KnownInv, SentIn
<1>2. invitations \in [Inv!InvIds -> Inv!InvRow]
  BY DEF LetterSide
<1>3. invitations' = [j \in Inv!InvIds |-> invitations'[j]]
  BY <1>1, <1>2
<1>4. \A j \in Inv!InvIds :
        \/ invitations'[j] = invitations[j]
        \/ SentIn(j, invitations) /\ Marked(invitations[j], invitations'[j])
  BY <1>1, <1>2 DEF Marked
<1>5. /\ invitations' \in [Inv!InvIds -> Inv!InvRow]
      /\ \A j \in Inv!InvIds : SentIn(j, invitations') <=> SentIn(j, invitations)
      /\ LettersGrow(invitations, invitations')
  BY <1>3, <1>4, LettersMarked
<1>6. ExistingOrg' = ExistingOrg /\ ireq' = ireq
  BY <1>1 DEF ExistingOrg
<1>7. \A q \in Reqs : LetterFrameOK(ireq[q], ExistingOrg, invitations')
  BY <1>5, LetterFrameKept DEF LetterSide
<1>8. \A q \in Reqs : SentIn(q, invitations') <=> SentIn(q, invitations)
  BY <1>5, Ids
<1> QED
  BY <1>5, <1>6, <1>7, <1>8 DEF LetterSide, LettersGrow

(* A request of InvitationsService keeps what its own tables promise. *)
LEMMA InvKeepsLetterSide ==
  ASSUME LetterSide, NEW r \in Reqs, Inv!InvCall(r) \/ Inv!InvHandler(r) \/ Inv!InvAbort(r)
  PROVE  LetterSide'
<1>1. CASE Inv!InvCall(r)
  BY <1>1, InvCallStep
<1>2. CASE Inv!SendFindUser(r)
  BY <1>2, FindsUser
<1>3. CASE Inv!SendInsert(r)
  BY <1>3, SendsLetter
<1>4. CASE Inv!ResolveAndValidate(r)
  BY <1>4, Resolves
<1>5. CASE \/ Inv!ExpireMine(r) \/ Inv!ExpireOne(r) \/ Inv!AcceptTransaction(r)
           \/ Inv!RejectWrite(r) \/ Inv!RevokeWrite(r)
  BY <1>5, InvWrites
<1>6. CASE \/ Inv!InvCheckCaller(r) \/ Inv!SendCheckOrg(r) \/ Inv!SendCheckDuplicate(r)
           \/ Inv!SendCheckMember(r) \/ Inv!ViewRead(r) \/ Inv!AcceptCheckMember(r)
           \/ Inv!NotifyInviter(r) \/ Inv!RevokeFind(r) \/ Inv!InvAbort(r)
  BY <1>6, InvRead
<1> QED
  BY <1>1, <1>2, <1>3, <1>4, <1>5, <1>6 DEF Inv!InvHandler

-----------------------------------------------------------------------------
(* Neither service takes away what the other relies on. *)
LEMMA OrgsStay ==
  ASSUME MembersOK, LinkSide, NEW r \in Reqs, Org!Call(r) \/ Org!Handler(r) \/ Org!Abort(r)
  PROVE  ExistingOrg \subseteq ExistingOrg'
<1>1. orgs \in [OrgIds -> OrgRow] /\ req[r].slug \in Slugs \cup {Null}
  BY Shared DEF LinkSide, Org!Frame
<1>2. CASE UNCHANGED orgs
  BY <1>2 DEF ExistingOrg
<1>3. CASE Org!CreateInsert(r)
  <2>1. req[r].slug # Null /\ r \in OrgIds
    BY <1>3, Ids DEF Org!CreateInsert, Org!At, LinkSide, LinkFrameOK
  <2>2. \A o \in OrgIds : orgs[o].slug # Null => orgs'[o].slug # Null
    BY <1>1, <1>3, <2>1 DEF Org!CreateInsert
  <2> QED
    BY <2>2 DEF ExistingOrg
<1>4. CASE Org!Update(r) \/ Org!Remove(r)
  <2>1. \A o \in OrgIds : orgs'[o].slug = orgs[o].slug
    BY <1>1, <1>4 DEF Org!Update, Org!Remove, OrgRow
  <2> QED
    BY <2>1 DEF ExistingOrg
<1>5. CASE Org!Call(r)
  BY <1>2, <1>5, OrgCalls DEF Org!Issue
<1> QED
  BY <1>2, <1>3, <1>4, <1>5 DEF Org!Handler, Org!Abort, Org!CreateFindSlug, Org!CheckCaller, Org!UpdateMemberRole,
     Org!RemoveMemberCaller, Org!RemoveMemberCount, Org!RemoveMemberTarget, Org!RemoveMemberDelete,
     Org!CreateInviteLink, Org!RevokeInviteLinkFind, Org!RevokeInviteLinkDelete,
     Org!JoinReadLink, Org!JoinCheckMember, Org!JoinTransaction, Org!JoinNotify

(* Steps of OrganizationsService leave the invitations. *)
LEMMA LettersRest ==
  ASSUME LetterSide, UNCHANGED <<invitations, ireq>>, ExistingOrg \subseteq ExistingOrg'
  PROVE  LetterSide'
<1>1. LettersGrow(invitations, invitations)
  BY DEF LettersGrow
<1>2. \A q \in Reqs : LetterFrameOK(ireq[q], ExistingOrg', invitations)
  BY <1>1, LetterFrameKept DEF LetterSide
<1>3. invitations' = invitations /\ ireq' = ireq
  OBVIOUS
<1> QED
  BY <1>2, <1>3 DEF LetterSide

(* Steps of InvitationsService leave the organizations and links. *)
LEMMA LinksRest ==
  ASSUME LinkSide, UNCHANGED <<orgs, links, req>>
  PROVE  LinkSide'
<1>1. ExistingOrg' = ExistingOrg /\ orgs' = orgs /\ links' = links /\ req' = req
  BY DEF ExistingOrg
<1> QED
  BY <1>1 DEF LinkSide

-----------------------------------------------------------------------------
(* The two doors, and every other step: one that makes nobody a member of  *)
(* an organization there is, and spends no link and no invitation.         *)
ByLink(o, u, l) ==
  /\ ~IsMember(u, o)
  /\ links[l].org = o /\ Org!LinkExists(l)
  /\ \E r \in Reqs : Inserts(r, u, o, links[l].role)
  /\ links'[l].state = "used"
  /\ UNCHANGED invitations

(* An invitation opens it for its addressee. *)
ByLetter(o, u, i) ==
  /\ ~IsMember(u, o)
  /\ invitations[i].org = o /\ invitations[i].email = u
  /\ \E r \in Reqs : Inserts(r, u, o, invitations[i].role)
  /\ invitations'[i].status = "ACCEPTED" /\ invitations'[i].target = u
  /\ \A j \in Inv!InvIds : j # i => invitations'[j] = invitations[j]
  /\ UNCHANGED links

(* Nobody enters, and nothing is spent. *)
NobodyEnters == \A o \in ExistingOrg, u \in Users : IsMember(u, o)' => IsMember(u, o)

NothingSpent ==
  /\ \A l \in Org!LinkIds : links[l].state = "open" => links'[l].state # "used"
  /\ \A i \in Inv!InvIds : invitations[i].status # "ACCEPTED" => invitations'[i].status # "ACCEPTED"

ThroughADoor ==
  \E o \in ExistingOrg, u \in Users :
    (\E l \in Org!LinkIds : ByLink(o, u, l)) \/ (\E i \in Inv!KnownInv : ByLetter(o, u, i))

(* A step that writes neither members, links nor invitations. *)
LEMMA ClosedStep ==
  ASSUME MembersOK, UNCHANGED <<members, links, invitations>>
  PROVE  MembersOK' /\ NobodyEnters /\ NothingSpent
<1>1. MembersOK' /\ NoNewMember
  BY MembersRest
<1>2. ExistingOrg \subseteq OrgIds
  BY DEF ExistingOrg
<1> QED
  BY <1>1, <1>2 DEF NoNewMember, NobodyEnters, NothingSpent

(* joinByToken's transaction is the door of its link. *)
LEMMA JoinDoor ==
  ASSUME MembersOK, LinkSide, NEW r \in Reqs, Org!JoinTransaction(r), UNCHANGED invitations
  PROVE  MembersOK' /\ ((NobodyEnters /\ NothingSpent) \/ ThroughADoor)
<1> DEFINE f == req[r]
<1>1. f.op = "joinByToken" /\ f.pc = "tx" /\ LinkFrameOK(f, ExistingOrg, links)
  BY DEF Org!JoinTransaction, Org!At, LinkSide
<1>2. /\ f.by \in Users /\ f.link \in Org!LinkIds /\ links[f.link].state # "none"
      /\ f.org = links[f.link].org /\ f.role = links[f.link].role
  BY <1>1 DEF LinkFrameOK, KnownIn
<1>3. f.org \in ExistingOrg /\ f.org \in OrgIds
  BY <1>2 DEF LinkSide, KnownIn, ExistingOrg
<1>4. CASE UNCHANGED <<members, links>>
  BY <1>4, ClosedStep
<1>5. CASE /\ ~Org!IsMember(f.by, f.org) /\ Org!LinkExists(f.link)
           /\ Org!InsertMember(r, f.by, f.org, f.role)
           /\ links' = [links EXCEPT ![f.link].state = "used"]
  <2>1. Inserts(r, f.by, f.org, f.role)
    BY <1>5 DEF Org!InsertMember, Inserts
  <2>2. MembersOK'
    BY <1>2, <1>3, <2>1, InsertedRow
  <2>3. links[f.link] \in Org!LinkRow /\ links \in [Org!LinkIds -> Org!LinkRow]
    BY <1>2 DEF LinkSide
  <2>4. links'[f.link].state = "used"
    BY <1>2, <1>5, <2>3 DEF Org!LinkRow
  <2>5. ByLink(f.org, f.by, f.link)
    BY <1>2, <1>5, <2>1, <2>4, Shared DEF ByLink
  <2> QED
    BY <1>2, <1>3, <2>2, <2>5 DEF ThroughADoor
<1> QED
  BY <1>4, <1>5 DEF Org!JoinTransaction

(* The other requests of OrganizationsService. *)
LEMMA OrgDoors ==
  ASSUME MembersOK, LinkSide, NEW r \in Reqs, Org!Call(r) \/ Org!Handler(r) \/ Org!Abort(r), UNCHANGED invitations
  PROVE  MembersOK' /\ ((NobodyEnters /\ NothingSpent) \/ ThroughADoor)
<1> DEFINE f == req[r]
<1>0. LinkFrameOK(f, ExistingOrg, links) /\ links \in [Org!LinkIds -> Org!LinkRow] /\ ExistingOrg \subseteq OrgIds
  BY DEF LinkSide, ExistingOrg
<1>1. CASE UNCHANGED <<members, links>>
  BY <1>1, ClosedStep
<1>2. CASE Org!JoinTransaction(r)
  BY <1>2, JoinDoor
<1>3. CASE Org!CreateInsert(r)
  <2>1. UNCHANGED links /\ f.op = "create" /\ f.pc = "insert"
    BY <1>3 DEF Org!CreateInsert, Org!At
  <2>2. r \notin ExistingOrg /\ f.by \in Users /\ r \in OrgIds
    BY <1>0, <2>1, Ids DEF LinkSide, LinkFrameOK
  <2>3. CASE UNCHANGED members
    BY <1>1, <2>1, <2>3
  <2>4. CASE Inserts(r, f.by, r, "OWNER")
    <3> DEFINE u == f.by
               role == "OWNER"
    <3>0. Inserts(r, u, r, role) /\ u \in Users
      BY <2>2, <2>4
    <3> HIDE DEF u, role
    <3>1. /\ MembersOK' /\ members'[r][u] = [id |-> r, role |-> role]
          /\ \A p \in OrgIds, v \in Users : p # r \/ v # u => members'[p][v] = members[p][v]
      BY <2>2, <3>0, InsertedRow
    <3>2. NobodyEnters
      BY <1>0, <2>2, <3>1 DEF NobodyEnters, IsMember
    <3>3. NothingSpent
      BY <2>1 DEF NothingSpent
    <3> QED
      BY <3>1, <3>2, <3>3
  <2> QED
    BY <1>3, <2>3, <2>4 DEF Org!CreateInsert, Org!InsertMember, Inserts
<1>4. CASE Org!UpdateMemberRole(r)
  <2>1. UNCHANGED links /\ f.op = "updateMemberRole" /\ Org!SetRoleById(f.row, f.role)
    BY <1>4 DEF Org!UpdateMemberRole, Org!At
  <2>2. f.row \in MemberIds
    BY <1>0, <2>1 DEF LinkFrameOK
  <2>3. MembersOK' /\ NoNewMember
    BY <2>1, <2>2, RoleWritten
  <2> QED
    BY <1>0, <2>1, <2>3 DEF NoNewMember, NobodyEnters, NothingSpent
<1>5. CASE Org!RemoveMemberDelete(r)
  <2>1. UNCHANGED links /\ Org!DeleteMemberById(f.row)
    BY <1>5 DEF Org!RemoveMemberDelete
  <2>2. MembersOK' /\ NoNewMember
    BY <2>1, RowDeleted
  <2> QED
    BY <1>0, <2>1, <2>2 DEF NoNewMember, NobodyEnters, NothingSpent
<1>6. CASE Org!CreateInviteLink(r)
  <2>1. /\ UNCHANGED members
        /\ links' = [links EXCEPT ![r] = [state |-> "open", org |-> f.org, role |-> f.role, expired |-> f.flag]]
    BY <1>6 DEF Org!CreateInviteLink
  <2>2. MembersOK' /\ NoNewMember
    BY <2>1, MembersRest
  <2>3. NothingSpent
    BY <1>0, <2>1 DEF NothingSpent
  <2> QED
    BY <1>0, <2>2, <2>3 DEF NoNewMember, NobodyEnters
<1>7. CASE Org!RevokeInviteLinkDelete(r)
  <2>1. UNCHANGED members /\ links' = [links EXCEPT ![f.link].state = "gone"]
    BY <1>7 DEF Org!RevokeInviteLinkDelete
  <2>2. MembersOK' /\ NoNewMember
    BY <2>1, MembersRest
  <2>3. \A l \in Org!LinkIds : links'[l].state \in {links[l].state, "gone"}
    BY <1>0, <2>1 DEF Org!LinkRow
  <2>4. NothingSpent
    BY <2>3 DEF NothingSpent
  <2> QED
    BY <1>0, <2>2, <2>4 DEF NoNewMember, NobodyEnters
<1>8. CASE Org!Call(r)
  BY <1>1, <1>8, OrgCalls DEF Org!Issue
<1> QED
  BY <1>1, <1>2, <1>3, <1>4, <1>5, <1>6, <1>7, <1>8 DEF Org!Handler, Org!Abort, Org!CreateFindSlug, Org!CheckCaller,
     Org!Update, Org!Remove, Org!RemoveMemberCaller, Org!RemoveMemberCount, Org!RemoveMemberTarget,
     Org!RevokeInviteLinkFind, Org!JoinReadLink, Org!JoinCheckMember, Org!JoinNotify

(* acceptInvitation's transaction is the door of its invitation. *)
LEMMA AcceptDoor ==
  ASSUME MembersOK, LetterSide, NEW r \in Reqs, Inv!AcceptTransaction(r), UNCHANGED links
  PROVE  MembersOK' /\ ((NobodyEnters /\ NothingSpent) \/ ThroughADoor)
<1> DEFINE f == ireq[r]
           row == invitations[f.inv]
<1>1. f.op = "accept" /\ f.pc = "tx" /\ LetterFrameOK(f, ExistingOrg, invitations)
  BY DEF Inv!AcceptTransaction, Inv!IAt, LetterSide
<1>2. /\ f.by \in Users /\ SentIn(f.inv, invitations)
      /\ row.email = f.by /\ row.org = f.org /\ row.role = f.role
  BY <1>1 DEF LetterFrameOK, AboutInvitation
<1>3. f.org \in ExistingOrg /\ f.org \in OrgIds /\ f.inv \in Inv!KnownInv
  BY <1>2 DEF LetterSide, SentIn, ExistingOrg, Inv!KnownInv
<1>4. CASE UNCHANGED <<members, invitations>>
  BY <1>4, ClosedStep
<1>5. CASE /\ ~Inv!IsMember(f.by, f.org)
           /\ Inv!InsertMember(r, f.by, f.org, f.role)
           /\ invitations' = [invitations EXCEPT ![f.inv].status = "ACCEPTED", ![f.inv].target = f.by]
  <2>1. Inserts(r, f.by, f.org, f.role)
    BY <1>5 DEF Inv!InsertMember, Inserts
  <2>2. MembersOK'
    BY <1>2, <1>3, <2>1, InsertedRow
  <2>3. row \in Inv!InvRow /\ invitations \in [Inv!InvIds -> Inv!InvRow] /\ f.inv \in Inv!InvIds
    BY <1>2 DEF LetterSide, SentIn
  <2>4. /\ invitations'[f.inv].status = "ACCEPTED" /\ invitations'[f.inv].target = f.by
        /\ \A j \in Inv!InvIds : j # f.inv => invitations'[j] = invitations[j]
    BY <1>5, <2>3 DEF Inv!InvRow
  <2>5. ByLetter(f.org, f.by, f.inv)
    BY <1>2, <1>5, <2>1, <2>4, Shared DEF ByLetter
  <2> QED
    BY <1>2, <1>3, <2>2, <2>5 DEF ThroughADoor
<1> QED
  BY <1>4, <1>5 DEF Inv!AcceptTransaction

(* A step that accepts no invitation and touches no link. *)
LEMMA Unaccepted ==
  ASSUME MembersOK, LetterSide, UNCHANGED <<members, links>>,
         \A i \in Inv!InvIds : \/ invitations'[i] = invitations[i]
                               \/ invitations'[i].status \in {invitations[i].status, "PENDING",
                                  "REJECTED", "EXPIRED", "REVOKED"}
  PROVE  MembersOK' /\ NobodyEnters /\ NothingSpent
<1>1. MembersOK' /\ NoNewMember
  BY MembersRest
<1>2. ExistingOrg \subseteq OrgIds
  BY DEF ExistingOrg
<1> QED
  BY <1>1, <1>2 DEF NoNewMember, NobodyEnters, NothingSpent

(* The other requests of InvitationsService. *)
LEMMA InvDoors ==
  ASSUME MembersOK, LetterSide, NEW r \in Reqs, Inv!InvCall(r) \/ Inv!InvHandler(r) \/ Inv!InvAbort(r), UNCHANGED links
  PROVE  MembersOK' /\ ((NobodyEnters /\ NothingSpent) \/ ThroughADoor)
<1> DEFINE f == ireq[r]
<1>0. invitations \in [Inv!InvIds -> Inv!InvRow]
  BY DEF LetterSide
<1>1. CASE UNCHANGED <<members, invitations>>
  BY <1>1, ClosedStep
<1>2. CASE Inv!AcceptTransaction(r)
  BY <1>2, AcceptDoor
<1>3. CASE Inv!SendInsert(r)
  <2>1. /\ UNCHANGED members
        /\ invitations' = [invitations EXCEPT ![r] =
             [status |-> "PENDING", org |-> f.org, email |-> f.email, role |-> f.role,
              target |-> IF f.known THEN f.email ELSE Null, by |-> f.by, past |-> f.past]]
    BY <1>3 DEF Inv!SendInsert
  <2> QED
    BY <1>0, <2>1, Unaccepted
<1>4. CASE Inv!ExpireMine(r)
  <2>1. /\ UNCHANGED members
        /\ invitations' = [i \in Inv!InvIds |->
             IF Inv!Pending(i) /\ invitations[i].past /\ invitations[i].email = f.by
             THEN [invitations[i] EXCEPT !.status = "EXPIRED"] ELSE invitations[i]]
    BY <1>4 DEF Inv!ExpireMine
  <2>2. \A i \in Inv!InvIds : invitations'[i] = invitations[i] \/ invitations'[i].status = "EXPIRED"
    BY <1>0, <2>1 DEF Inv!InvRow
  <2> QED
    BY <2>1, <2>2, Unaccepted
<1>5. CASE Inv!ExpireOne(r) \/ Inv!RejectWrite(r) \/ Inv!RevokeWrite(r)
  <2>1. /\ UNCHANGED members
        /\ \E s \in {"EXPIRED", "REJECTED", "REVOKED"} : invitations' = [invitations EXCEPT ![f.inv].status = s]
    BY <1>5 DEF Inv!ExpireOne, Inv!RejectWrite, Inv!RevokeWrite, Inv!SetStatus
  <2>2. \A i \in Inv!InvIds :
          invitations'[i] = invitations[i] \/ invitations'[i].status \in {"EXPIRED", "REJECTED", "REVOKED"}
    BY <1>0, <2>1 DEF Inv!InvRow
  <2> QED
    BY <2>1, <2>2, Unaccepted
<1>6. CASE Inv!InvCall(r)
  BY <1>1, <1>6, InvCalls DEF Inv!InvIssue
<1> QED
  BY <1>1, <1>2, <1>3, <1>4, <1>5, <1>6 DEF Inv!InvHandler, Inv!InvAbort, Inv!InvCheckCaller, Inv!SendCheckOrg,
     Inv!SendCheckDuplicate, Inv!SendFindUser, Inv!SendCheckMember, Inv!ViewRead, Inv!ResolveAndValidate,
     Inv!AcceptCheckMember, Inv!NotifyInviter, Inv!RevokeFind

(* The clock lets nobody in. *)
LEMMA InvTimes ==
  ASSUME MembersOK, LetterSide, NEW i \in Inv!InvIds, Inv!InvPasses(i), UNCHANGED links
  PROVE  MembersOK' /\ NobodyEnters /\ NothingSpent
<1>1. UNCHANGED members /\ invitations' = [invitations EXCEPT ![i].past = TRUE]
  BY DEF Inv!InvPasses
<1>2. invitations \in [Inv!InvIds -> Inv!InvRow]
  BY DEF LetterSide
<1>3. \A j \in Inv!InvIds : invitations'[j].status = invitations[j].status
  BY <1>1, <1>2 DEF Inv!InvRow
<1> QED
  BY <1>1, <1>3, Unaccepted

(* Nor when it is a link that expires. *)
LEMMA LinkTimesRest ==
  ASSUME MembersOK, LinkSide, NEW l \in Org!LinkIds, Org!LinkExpires(l), UNCHANGED invitations
  PROVE  MembersOK' /\ NobodyEnters /\ NothingSpent
<1>1. UNCHANGED members /\ links' = [links EXCEPT ![l].expired = TRUE]
  BY DEF Org!LinkExpires
<1>2. links \in [Org!LinkIds -> Org!LinkRow]
  BY DEF LinkSide
<1>3. \A k \in Org!LinkIds : links'[k].state = links[k].state
  BY <1>1, <1>2 DEF Org!LinkRow
<1>4. MembersOK' /\ NoNewMember /\ ExistingOrg \subseteq OrgIds
  BY <1>1, MembersRest DEF ExistingOrg
<1> QED
  BY <1>3, <1>4 DEF NoNewMember, NobodyEnters, NothingSpent

(* Every step keeps the invariant and is a door or leaves the doors shut.  *)
LEMMA DoorStep ==
  ASSUME DoorInv, Next
  PROVE  DoorInv' /\ ((NobodyEnters /\ NothingSpent) \/ ThroughADoor)
<1>1. MembersOK /\ LinkSide /\ LetterSide
  BY DEF DoorInv
<1>2. ASSUME NEW r \in Reqs, OrgCall(r) \/ OrgStep(r)
      PROVE  DoorInv' /\ ((NobodyEnters /\ NothingSpent) \/ ThroughADoor)
  <2>1. /\ Org!Call(r) \/ Org!Handler(r) \/ Org!Abort(r)
        /\ UNCHANGED <<invitations, ireq>>
    BY <1>2 DEF OrgCall, OrgStep, onlyInv
  <2>2. LinkSide' /\ ExistingOrg \subseteq ExistingOrg'
    BY <1>1, <2>1, OrgKeepsLinkSide, OrgsStay
  <2>3. LetterSide'
    BY <1>1, <2>1, <2>2, LettersRest
  <2>4. MembersOK' /\ ((NobodyEnters /\ NothingSpent) \/ ThroughADoor)
    BY <1>1, <2>1, OrgDoors
  <2> QED
    BY <2>2, <2>3, <2>4 DEF DoorInv
<1>3. ASSUME NEW r \in Reqs, InvCall(r) \/ InvStep(r)
      PROVE  DoorInv' /\ ((NobodyEnters /\ NothingSpent) \/ ThroughADoor)
  <2>1. /\ Inv!InvCall(r) \/ Inv!InvHandler(r) \/ Inv!InvAbort(r)
        /\ UNCHANGED <<links, req>>
    BY <1>3 DEF InvCall, InvStep, onlyOrg
  <2>2. UNCHANGED orgs
    BY <1>1, <2>1, InvCalls DEF Inv!InvHandler, Inv!InvAbort, Inv!InvIssue, Inv!InvCheckCaller, Inv!SendCheckOrg,
       Inv!SendCheckDuplicate, Inv!SendFindUser, Inv!SendCheckMember, Inv!SendInsert, Inv!ExpireMine, Inv!ViewRead,
       Inv!ExpireOne, Inv!ResolveAndValidate, Inv!AcceptCheckMember, Inv!AcceptTransaction, Inv!RejectWrite,
       Inv!NotifyInviter, Inv!RevokeFind, Inv!RevokeWrite
  <2>3. LinkSide' /\ LetterSide'
    BY <1>1, <2>1, <2>2, LinksRest, InvKeepsLetterSide
  <2>4. MembersOK' /\ ((NobodyEnters /\ NothingSpent) \/ ThroughADoor)
    BY <1>1, <2>1, InvDoors
  <2> QED
    BY <2>3, <2>4 DEF DoorInv
<1>4. ASSUME OrgClock
      PROVE  DoorInv' /\ NobodyEnters /\ NothingSpent
  <2>1. PICK l \in Org!LinkIds : Org!LinkExpires(l) /\ UNCHANGED <<accounts, onlyInv>>
    BY <1>4 DEF OrgClock
  <2>2. UNCHANGED <<invitations, ireq>> /\ UNCHANGED orgs
    BY <2>1 DEF onlyInv, Org!LinkExpires
  <2>3. LinkSide' /\ LetterSide'
    BY <1>1, <2>1, <2>2, LinkTimes, LettersRest DEF ExistingOrg
  <2>4. MembersOK' /\ NobodyEnters /\ NothingSpent
    BY <1>1, <2>1, <2>2, LinkTimesRest
  <2> QED
    BY <2>3, <2>4 DEF DoorInv
<1>5. ASSUME InvClock
      PROVE  DoorInv' /\ NobodyEnters /\ NothingSpent
  <2>1. PICK i \in Inv!InvIds : Inv!InvPasses(i) /\ UNCHANGED onlyOrg
    BY <1>5 DEF InvClock
  <2>2. UNCHANGED <<links, req>> /\ UNCHANGED orgs
    BY <2>1 DEF onlyOrg, Inv!InvPasses
  <2>3. LinkSide' /\ LetterSide'
    BY <1>1, <2>1, <2>2, LetterTimes, LinksRest
  <2>4. MembersOK' /\ NobodyEnters /\ NothingSpent
    BY <1>1, <2>1, <2>2, InvTimes
  <2> QED
    BY <2>3, <2>4 DEF DoorInv
<1> QED
  BY <1>2, <1>3, <1>4, <1>5 DEF Next

(* A step of nobody does nothing. *)
LEMMA DoorRest ==
  DoorInv /\ UNCHANGED allVars => DoorInv' /\ NobodyEnters /\ NothingSpent
<1>1. SUFFICES ASSUME DoorInv, UNCHANGED allVars
               PROVE  DoorInv' /\ NobodyEnters /\ NothingSpent
  OBVIOUS
<1>2. MembersOK /\ LinkSide /\ LetterSide
  BY <1>1 DEF DoorInv
<1>3. UNCHANGED <<orgs, members, links, req, invitations, ireq>>
  BY <1>1 DEF allVars, onlyOrg, onlyInv
<1>4. MembersOK' /\ NobodyEnters /\ NothingSpent
  BY <1>2, <1>3, ClosedStep
<1>5. LinkSide' /\ LetterSide'
  BY <1>2, <1>3, LinksRest, LettersRest DEF ExistingOrg
<1> QED
  BY <1>4, <1>5 DEF DoorInv

-----------------------------------------------------------------------------
(* The states the behaviours start in. *)
LEMMA InitDoor == Init => DoorInv
<1>1. SUFFICES ASSUME Init PROVE DoorInv
  OBVIOUS
<1>2. Names \subseteq Slugs /\ Null \notin Names
  BY Ids DEF Slugs
<1>3. orgs \in [OrgIds -> OrgRow] /\ ExistingOrg = SeedOrgs /\ SeedOrgs \cap Reqs = {}
  <2>1. PICK slug \in [SeedOrgs -> Names] :
          orgs = [o \in OrgIds |->
            IF o \in SeedOrgs THEN [slug |-> slug[o], isActive |-> TRUE, deleted |-> FALSE] ELSE Org!NoOrg]
    BY <1>1, Shared DEF Init, Org!OrgInit, Org!TablesInit
  <2>2. Org!NoOrg \in OrgRow /\ Org!NoOrg.slug = Null
    BY DEF Org!NoOrg, OrgRow
  <2>3. \A o \in SeedOrgs :
          /\ [slug |-> slug[o], isActive |-> TRUE, deleted |-> FALSE] \in OrgRow
          /\ slug[o] # Null
    BY <1>2 DEF OrgRow
  <2>4. orgs \in [OrgIds -> OrgRow]
    BY <2>1, <2>2, <2>3
  <2>5. \A o \in OrgIds : orgs[o].slug # Null <=> o \in SeedOrgs
    BY <2>1, <2>2, <2>3
  <2> QED
    BY <2>4, <2>5, IdAssumption DEF ExistingOrg, OrgIds
<1>4. MembersOK
  <2>1. PICK role : members = Org!SeedMembers(role)
    BY <1>1 DEF Init, Org!OrgInit, Org!TablesInit
  <2>2. members = [o \in OrgIds |-> [u \in Users |->
          IF o \in SeedOrgs /\ role[<<o, u>>] # "NONE"
          THEN [id |-> <<o, u>>, role |-> role[<<o, u>>]] ELSE NoMember]]
    BY <2>1, Shared DEF Org!SeedMembers
  <2>3. members = [o \in OrgIds |-> [u \in Users |-> members[o][u]]]
    BY <2>2
  <2>4. \A o \in OrgIds, u \in Users : HasId(members[o][u])
    BY <2>2 DEF HasId, MemberIds
  <2> QED
    BY <2>3, <2>4 DEF MembersOK
<1>5. LinkSide
  <2>1. PICK org \in [SeedLinks -> SeedOrgs], role \in [SeedLinks -> Roles] :
          links = [l \in Org!LinkIds |->
            IF l \in SeedLinks
            THEN [state |-> "open", org |-> org[l], role |-> role[l], expired |-> FALSE]
            ELSE Org!NoLink]
    BY <1>1 DEF Init, Org!OrgInit
  <2>2. Org!NoLink \in Org!LinkRow /\ Org!NoLink.state = "none"
    BY DEF Org!NoLink, Org!LinkRow
  <2>3. SeedOrgs \subseteq Org!OrgIds
    BY Shared DEF OrgIds
  <2>4. \A l \in SeedLinks :
          [state |-> "open", org |-> org[l], role |-> role[l], expired |-> FALSE] \in Org!LinkRow
    BY <2>3 DEF Org!LinkRow
  <2>5. links \in [Org!LinkIds -> Org!LinkRow]
    BY <2>1, <2>2, <2>4
  <2>6. \A l \in Org!LinkIds : KnownIn(l, links) => l \in SeedLinks /\ links[l].org \in SeedOrgs
    BY <2>1, <2>2 DEF KnownIn
  <2>7. req = [r \in Reqs |-> Org!Blank]
    BY <1>1 DEF Init, Org!OrgInit
  <2>8. \A r \in Reqs : req[r] = Org!Blank /\ LinkFrameOK(req[r], ExistingOrg, links)
    BY <2>7, OwnFrames DEF LinkFrameOK
  <2>9. \A r \in Reqs : r \notin ExistingOrg /\ ~KnownIn(r, links)
    BY <1>3, <2>6, Ids, SeedsAssumption
  <2>10. req \in [Reqs -> Org!Frame]
    BY <2>7, OwnFrames
  <2> QED
    BY <1>3, <2>5, <2>6, <2>8, <2>9, <2>10 DEF LinkSide
<1>6. LetterSide
  <2>1. accounts \subseteq Users /\ SeedOrgs \subseteq Inv!OrgIds
    BY <1>1, Shared DEF Init, Inv!InvInit, OrgIds
  <2>2. PICK seed \in [SeedInvs -> [status : {"PENDING"}, org : SeedOrgs, email : Users,
                    role : Roles, target : accounts \cup {Null}, by : Users, past : {FALSE}]] :
          invitations = [i \in Inv!InvIds |-> IF i \in SeedInvs THEN seed[i] ELSE Inv!NoInv]
    BY <1>1 DEF Init, Inv!InvInit
  <2>3. \A i \in SeedInvs : seed[i] \in Inv!InvRow /\ seed[i].org \in SeedOrgs /\ seed[i].email \in Users
    BY <2>1 DEF Inv!InvRow, Inv!Statuses
  <2>4. Inv!NoInv \in Inv!InvRow /\ Inv!NoInv.status = "none"
    BY DEF Inv!NoInv, Inv!InvRow
  <2>5. invitations \in [Inv!InvIds -> Inv!InvRow]
    BY <2>2, <2>3, <2>4
  <2>6. \A i \in Inv!InvIds : SentIn(i, invitations) =>
          i \in SeedInvs /\ invitations[i].org \in SeedOrgs /\ invitations[i].email \in Users
    BY <2>2, <2>3, <2>4 DEF SentIn
  <2>7. ireq = [r \in Reqs |-> Inv!IBlank]
    BY <1>1 DEF Init, Inv!InvInit
  <2>8. \A r \in Reqs : LetterFrameOK(ireq[r], ExistingOrg, invitations)
    BY <2>7, LetterFrames DEF LetterFrameOK, AboutInvitation
  <2>9. \A r \in Reqs : ~SentIn(r, invitations)
    BY <2>6, Ids, SeedsAssumption
  <2>10. ireq \in [Reqs -> Inv!IFrame]
    BY <2>7, LetterFrames
  <2> QED
    BY <1>3, <2>5, <2>6, <2>8, <2>9, <2>10 DEF LetterSide
<1> QED
  BY <1>4, <1>5, <1>6 DEF DoorInv

-----------------------------------------------------------------------------
(* What a request of one service relies on is taken away by no request of  *)
(* the other, however they overlap.                                        *)
THEOREM DoorsStayOpen == Spec => []DoorInv
<1>1. DoorInv /\ [Next]_allVars => DoorInv'
  BY DoorStep, DoorRest
<1> QED
  BY InitDoor, <1>1, PTL DEF Spec

(* A step through a door lets in its own user, with its own role, and      *)
(* nobody else.                                                            *)
LEMMA DoorAdmits ==
  ASSUME MembersOK, NEW o \in ExistingOrg, NEW u \in Users, NEW role, ~IsMember(u, o),
         \E r \in Reqs : Inserts(r, u, o, role)
  PROVE  /\ IsMember(u, o)' /\ members'[o][u].role = role
         /\ \A p \in ExistingOrg, v \in Users : ~IsMember(v, p) /\ IsMember(v, p)' => p = o /\ v = u
<1>1. PICK r \in Reqs : Inserts(r, u, o, role)
  OBVIOUS
<1>2. ExistingOrg \subseteq OrgIds
  BY DEF ExistingOrg
<1>3. /\ members'[o][u] = [id |-> r, role |-> role]
      /\ \A p \in OrgIds, v \in Users : p # o \/ v # u => members'[p][v] = members[p][v]
  BY <1>1, <1>2, InsertedRow
<1>4. members'[o][u].id # Null /\ members'[o][u].role = role
  BY <1>3, Ids
<1>5. IsMember(u, o)'
  BY <1>4 DEF IsMember, NoMember
<1> QED
  BY <1>2, <1>3, <1>4, <1>5 DEF IsMember

(* The two origins of a membership as one step's property.                 *)
LEMMA OneDoorStep ==
  ASSUME DoorInv, (NobodyEnters /\ NothingSpent) \/ ThroughADoor,
         NEW o \in ExistingOrg, NEW u \in Users, ~IsMember(u, o), IsMember(u, o)'
  PROVE  LET byLink == \E l \in Org!LinkIds :
               links[l].org = o /\ Org!LinkExists(l) /\ members'[o][u].role = links[l].role
               /\ links'[l].state = "used"
             byLetter == \E i \in Inv!KnownInv :
               invitations[i].org = o /\ invitations[i].email = u
               /\ members'[o][u].role = invitations[i].role
               /\ invitations'[i].status = "ACCEPTED"
         IN (byLink /\ UNCHANGED invitations) \/ (byLetter /\ UNCHANGED links)
<1>1. MembersOK /\ ThroughADoor
  BY DEF DoorInv, NobodyEnters
<1>2. PICK p \in ExistingOrg, v \in Users :
        (\E l \in Org!LinkIds : ByLink(p, v, l)) \/ (\E i \in Inv!KnownInv : ByLetter(p, v, i))
  BY <1>1 DEF ThroughADoor
<1>3. ASSUME NEW l \in Org!LinkIds, ByLink(p, v, l)
      PROVE  /\ links[l].org = o /\ Org!LinkExists(l) /\ members'[o][u].role = links[l].role
             /\ links'[l].state = "used" /\ UNCHANGED invitations
  <2>1. /\ ~IsMember(v, p) /\ \E r \in Reqs : Inserts(r, v, p, links[l].role)
        /\ links[l].org = p /\ Org!LinkExists(l) /\ links'[l].state = "used" /\ UNCHANGED invitations
    BY <1>3 DEF ByLink
  <2>2. p = o /\ v = u /\ members'[p][v].role = links[l].role
    BY <1>1, <2>1, DoorAdmits
  <2> QED
    BY <2>1, <2>2
<1>4. ASSUME NEW i \in Inv!KnownInv, ByLetter(p, v, i)
      PROVE  /\ invitations[i].org = o /\ invitations[i].email = u
             /\ members'[o][u].role = invitations[i].role
             /\ invitations'[i].status = "ACCEPTED" /\ UNCHANGED links
  <2>1. /\ ~IsMember(v, p) /\ \E r \in Reqs : Inserts(r, v, p, invitations[i].role)
        /\ invitations[i].org = p /\ invitations[i].email = v
        /\ invitations'[i].status = "ACCEPTED" /\ UNCHANGED links
    BY <1>4 DEF ByLetter
  <2>2. p = o /\ v = u /\ members'[p][v].role = invitations[i].role
    BY <1>1, <2>1, DoorAdmits
  <2> QED
    BY <2>1, <2>2
<1> QED
  BY <1>2, <1>3, <1>4

(* Exactly two doors into an existing organization: whoever becomes a      *)
(* member does so by a link marked used, or by an invitation of theirs     *)
(* marked ACCEPTED, in that step, never by both.                           *)
THEOREM TwoDoors == Spec => OneDoorPerMember
<1> DEFINE Door == \A o \in ExistingOrg, u \in Users :
       ~IsMember(u, o) /\ IsMember(u, o)' =>
         LET byLink == \E l \in Org!LinkIds :
               links[l].org = o /\ Org!LinkExists(l) /\ members'[o][u].role = links[l].role
               /\ links'[l].state = "used"
             byLetter == \E i \in Inv!KnownInv :
               invitations[i].org = o /\ invitations[i].email = u
               /\ members'[o][u].role = invitations[i].role
               /\ invitations'[i].status = "ACCEPTED"
         IN (byLink /\ UNCHANGED invitations) \/ (byLetter /\ UNCHANGED links)
<1>1. DoorInv /\ [Next]_allVars => Door
  <2>1. ASSUME DoorInv, (NobodyEnters /\ NothingSpent) \/ ThroughADoor
        PROVE  Door
    BY <2>1, OneDoorStep
  <2> HIDE DEF Door
  <2> QED
    BY <2>1, DoorStep, DoorRest
<1>2. DoorInv /\ [Next]_allVars => [Door]_allVars
  BY <1>1
<1> QED
  BY DoorsStayOpen, <1>2, PTL DEF Spec, OneDoorPerMember

(* A link is used up, or an invitation accepted, only by somebody who      *)
(* becomes a member in the same step.                                      *)
THEOREM NothingIsWasted == Spec => NothingSpentForNothing
<1> DEFINE Worth == (\E l \in Org!LinkIds : links[l].state = "open" /\ links'[l].state = "used")
     \/ (\E i \in Inv!InvIds :
           invitations[i].status # "ACCEPTED" /\ invitations'[i].status = "ACCEPTED")
     => \E o \in ExistingOrg, u \in Users : ~IsMember(u, o) /\ IsMember(u, o)'
<1>1. ASSUME DoorInv, (NobodyEnters /\ NothingSpent) \/ ThroughADoor
      PROVE  Worth
  <2>1. CASE NothingSpent
    BY <2>1 DEF NothingSpent
  <2>2. CASE ThroughADoor
    <3>1. PICK o \in ExistingOrg, u \in Users :
            (\E l \in Org!LinkIds : ByLink(o, u, l)) \/ (\E i \in Inv!KnownInv : ByLetter(o, u, i))
      BY <2>2 DEF ThroughADoor
    <3>2. ~IsMember(u, o) /\ \E role : \E r \in Reqs : Inserts(r, u, o, role)
      BY <3>1 DEF ByLink, ByLetter
    <3>3. ~IsMember(u, o) /\ IsMember(u, o)'
      BY <1>1, <3>2, DoorAdmits DEF DoorInv
    <3> QED
      BY <3>3
  <2> QED
    BY <1>1, <2>1, <2>2
<1> HIDE DEF Worth
<1>2. DoorInv /\ [Next]_allVars => [Worth]_allVars
  BY <1>1, DoorStep, DoorRest
<1> USE DEF Worth
<1> QED
  BY DoorsStayOpen, <1>2, PTL DEF Spec, NothingSpentForNothing

(* An invitation is accepted by nobody but its addressee, who joins its    *)
(* organization in that step with its role and is named as its target; a   *)
(* link never stands in for it.                                            *)
THEOREM AddresseesJoin == Spec => Inv!AcceptanceJoinsAddressee
<1> DEFINE Joins == \A i \in Inv!InvIds :
       invitations[i].status # "ACCEPTED" /\ invitations'[i].status = "ACCEPTED" =>
         LET row == invitations[i] IN
           /\ row.email \in Users /\ ~Inv!IsMember(row.email, row.org)
           /\ members'[row.org][row.email].role = row.role
           /\ invitations'[i].target = row.email
<1>1. ASSUME DoorInv, (NobodyEnters /\ NothingSpent) \/ ThroughADoor
      PROVE  Joins
  <2>1. SUFFICES ASSUME NEW i \in Inv!InvIds,
                        invitations[i].status # "ACCEPTED", invitations'[i].status = "ACCEPTED"
                 PROVE  /\ invitations[i].email \in Users
                        /\ ~Inv!IsMember(invitations[i].email, invitations[i].org)
                        /\ members'[invitations[i].org][invitations[i].email].role = invitations[i].role
                        /\ invitations'[i].target = invitations[i].email
    OBVIOUS
  <2>2. ThroughADoor
    BY <1>1, <2>1 DEF NothingSpent
  <2>3. PICK o \in ExistingOrg, u \in Users :
          (\E l \in Org!LinkIds : ByLink(o, u, l)) \/ (\E j \in Inv!KnownInv : ByLetter(o, u, j))
    BY <2>2 DEF ThroughADoor
  <2>4. ByLetter(o, u, i)
    BY <2>1, <2>3 DEF ByLink, ByLetter
  <2>5. /\ invitations[i].email = u /\ invitations[i].org = o /\ invitations'[i].target = u
        /\ ~IsMember(u, o) /\ \E r \in Reqs : Inserts(r, u, o, invitations[i].role)
    BY <2>4 DEF ByLetter
  <2>6. members'[o][u].role = invitations[i].role
    BY <1>1, <2>5, DoorAdmits DEF DoorInv
  <2> QED
    BY <2>5, <2>6, Shared
<1> HIDE DEF Joins
<1>2. DoorInv /\ [Next]_allVars => [Joins]_Inv!invVars
  BY <1>1, DoorStep, DoorRest
<1> USE DEF Joins
<1> QED
  BY DoorsStayOpen, <1>2, PTL DEF Spec, Inv!AcceptanceJoinsAddressee

-----------------------------------------------------------------------------
(***************************************************************************)
(* What OrganizationsService promises of its writes by row id, with        *)
(* acceptances inserting memberships as well.                              *)
(***************************************************************************)

(* A request, of whichever service, that is past its insert. *)
After   == {"notify", "done"}
Past(r) == req[r].pc \in After \/ ireq[r].pc \in After

(* A request is one service's; a membership is of an organization there    *)
(* is, and its id, in the table or in a frame, is one already used.        *)
OneService == \A r \in Reqs : req[r].pc = "new" \/ ireq[r].pc = "new"
Housed     == \A o \in OrgIds, u \in Users : IsMember(u, o) => o \in ExistingOrg
IdsPast    ==
  /\ \A o \in OrgIds, u \in Users : members[o][u].id \in Reqs => Past(members[o][u].id)
  /\ \A r \in Reqs : req[r].row \in Reqs => Past(req[r].row)

(* An id names one membership, and the id a removal holds its target's. *)
OneRowPerId ==
  \A o, p \in OrgIds, u, v \in Users :
    IsMember(u, o) /\ members[o][u].id = members[p][v].id => o = p /\ u = v

TargetOnly(f) ==
  f.op = "removeMember" /\ f.pc = "delete" =>
    \A o \in OrgIds, u \in Users :
      IsMember(u, o) /\ members[o][u].id = f.row => o = f.org /\ u = f.user

HeldIsTarget == \A r \in Reqs : TargetOnly(req[r])

RowsInv == OneService /\ Housed /\ IdsPast /\ OneRowPerId /\ HeldIsTarget

(* Rows go and keep their ids, but for at most one new row, whose id is    *)
(* that of a request which inserts it in this step.                        *)
RowsGoBut(n, oo, uu) ==
  \A o \in OrgIds, u \in Users : IsMember(u, o)' =>
    \/ IsMember(u, o) /\ members'[o][u].id = members[o][u].id
    \/ members'[o][u].id = n /\ o = oo /\ u = uu

(* A step that does only that to the memberships keeps what was said.      *)
LEMMA RowsStep ==
  ASSUME RowsInv, MembersOK, MembersOK', OneService', ExistingOrg \subseteq ExistingOrg',
         \A q \in Reqs : Past(q) => Past(q)',
         \A q \in Reqs : req'[q].row \in Reqs => Past(req'[q].row),
         \A q \in Reqs : TargetOnly(req'[q]),
         NEW n, NEW oo, NEW uu, RowsGoBut(n, oo, uu),
         n # Null => n \in Reqs /\ ~Past(n) /\ Past(n)' /\ oo \in ExistingOrg'
  PROVE  RowsInv'
<1>1. NoMember.id = Null /\ Null \notin MemberIds /\ Null \notin Reqs
  BY Ids DEF NoMember
<1>2. ASSUME NEW o \in OrgIds, NEW u \in Users
      PROVE  /\ IsMember(u, o)' <=> members'[o][u].id # Null
             /\ IsMember(u, o) <=> members[o][u].id # Null
  BY <1>1 DEF MembersOK, HasId, IsMember
<1>3. ASSUME NEW o \in OrgIds, NEW u \in Users, IsMember(u, o)'
      PROVE  \/ IsMember(u, o) /\ members'[o][u].id = members[o][u].id
             \/ /\ members'[o][u].id = n /\ o = oo /\ u = uu
                /\ n \in Reqs /\ ~Past(n) /\ Past(n)' /\ oo \in ExistingOrg'
  BY <1>2, <1>3 DEF RowsGoBut
<1>4. \A o \in OrgIds, u \in Users : members[o][u].id = n /\ n \in Reqs => Past(n)
  BY DEF RowsInv, IdsPast
<1>5. Housed'
  BY <1>3 DEF RowsInv, Housed
<1>6. IdsPast'
  <2>1. ASSUME NEW o \in OrgIds, NEW u \in Users, NEW q \in Reqs, members'[o][u].id = q
        PROVE  Past(q)'
    <3>1. IsMember(u, o)'
      BY <1>1, <1>2, <2>1
    <3>2. q = n \/ (members[o][u].id = q)
      BY <1>3, <2>1, <3>1
    <3>3. CASE members[o][u].id = q
      BY <3>3 DEF RowsInv, IdsPast
    <3>4. CASE q = n /\ members[o][u].id # q
      BY <1>3, <2>1, <3>1, <3>4
    <3> QED
      BY <3>2, <3>3, <3>4
  <2>2. ASSUME NEW p \in Reqs, NEW q \in Reqs, req'[p].row = q
        PROVE  Past(q)'
    BY <2>2
  <2> QED
    BY <2>1, <2>2 DEF IdsPast, Past
<1>7. OneRowPerId'
  <2>1. ASSUME NEW o \in OrgIds, NEW p \in OrgIds, NEW u \in Users, NEW v \in Users,
               IsMember(u, o)', members'[o][u].id = members'[p][v].id
        PROVE  o = p /\ u = v
    <3>1. IsMember(v, p)'
      BY <1>2, <2>1
    <3>2. CASE /\ IsMember(u, o) /\ members'[o][u].id = members[o][u].id
               /\ IsMember(v, p) /\ members'[p][v].id = members[p][v].id
      <4>1. IsMember(u, o) /\ members[o][u].id = members[p][v].id
        BY <2>1, <3>2
      <4> QED
        BY <4>1 DEF RowsInv, OneRowPerId
    <3>3. CASE ~(IsMember(u, o) /\ members'[o][u].id = members[o][u].id)
      BY <1>3, <1>4, <2>1, <3>1, <3>3
    <3>4. CASE ~(IsMember(v, p) /\ members'[p][v].id = members[p][v].id)
      BY <1>3, <1>4, <2>1, <3>1, <3>4
    <3> QED
      BY <3>2, <3>3, <3>4
  <2> QED
    BY <2>1 DEF OneRowPerId
<1>8. HeldIsTarget'
  <2>1. ASSUME NEW q \in Reqs, NEW o \in OrgIds, NEW u \in Users,
               req'[q].op = "removeMember", req'[q].pc = "delete",
               IsMember(u, o)', members'[o][u].id = req'[q].row
        PROVE  o = req'[q].org /\ u = req'[q].user
    <3>1. CASE IsMember(u, o) /\ members'[o][u].id = members[o][u].id
      BY <2>1, <3>1 DEF TargetOnly
    <3>2. CASE ~(IsMember(u, o) /\ members'[o][u].id = members[o][u].id)
      <4>1. req'[q].row = n /\ n \in Reqs /\ ~Past(n)
        BY <1>3, <2>1, <3>2
      <4> QED
        BY <4>1
    <3> QED
      BY <3>1, <3>2
  <2> QED
    BY <2>1 DEF HeldIsTarget, TargetOnly
<1> QED
  BY <1>5, <1>6, <1>7, <1>8 DEF RowsInv

-----------------------------------------------------------------------------
(* What a step of a request of OrganizationsService leaves in its frame: a *)
(* row the frame held already or one there is now, and its target's if the *)
(* request is to delete it.                                                *)
GoesOn(r, g) ==
  /\ req' = [req EXCEPT ![r] = g]
  /\ req[r].pc \in After => g.pc \in After
  /\ g.row \in {Null, req[r].row} \/ RowOfSome(g.row)
  /\ TargetOnly(g)

(* One that ends. *)
LEMMA GoesEnding ==
  ASSUME NEW r \in Reqs, Org!Finish(r)
  PROVE  GoesOn(r, Org!Done)
<1>1. Org!Done.pc = "done" /\ Org!Done.op = "none" /\ Org!Done.row = Null
  BY DEF Org!Done, Org!Blank
<1> QED
  BY <1>1 DEF GoesOn, Org!Finish, After, TargetOnly

(* One that goes on to its next call. *)
LEMMA GoesNext ==
  ASSUME LinkSide, NEW r \in Reqs, req[r].pc \notin After, NEW pc, Org!Goto(r, pc),
         req[r].op = "removeMember" => pc # "delete"
  PROVE  GoesOn(r, [req[r] EXCEPT !.pc = pc])
<1> DEFINE f == req[r]
           g == [f EXCEPT !.pc = pc]
<1>1. f \in Org!Frame /\ req' = [req EXCEPT ![r] = g] /\ (f.op = "removeMember" => pc # "delete")
      /\ f.pc \notin After
  BY DEF LinkSide, Org!Goto
<1> HIDE DEF f
<1>2. g.pc = pc /\ g.op = f.op /\ g.row = f.row
  BY <1>1 DEF Org!Frame
<1>3. TargetOnly(g)
  BY <1>1, <1>2 DEF TargetOnly
<1> HIDE DEF g
<1>4. g.row \in {Null, f.row}
  BY <1>2
<1>5. f = req[r] /\ g = [req[r] EXCEPT !.pc = pc]
  BY DEF f, g
<1> QED
  BY <1>1, <1>3, <1>4, <1>5 DEF GoesOn

(* create keeps no row, joinByToken none either. *)
LEMMA GoesReading ==
  ASSUME LinkSide, NEW r \in Reqs, Org!CreateFindSlug(r) \/ Org!JoinReadLink(r)
  PROVE  \E g : GoesOn(r, g)
<1> DEFINE f == req[r]
<1>1. f \in Org!Frame /\ f.op \in {"create", "joinByToken"} /\ f.pc \notin After
  BY DEF LinkSide, Org!CreateFindSlug, Org!JoinReadLink, Org!At, After
<1>2. CASE Org!Finish(r)
  BY <1>2, GoesEnding
<1>3. CASE \E g : /\ req' = [req EXCEPT ![r] = g]
                  /\ g.op = f.op /\ g.row = f.row
  BY <1>1, <1>3 DEF GoesOn, TargetOnly
<1>4. CASE Org!CreateFindSlug(r)
  <2>1. PICK s : req' = [req EXCEPT ![r].pc = "insert", ![r].slug = s]
    <3>1. PICK t \in Stamps :
            req' = [req EXCEPT ![r].pc = "insert",
                      ![r].slug = IF Org!SlugTaken(req[r].slug) THEN <<req[r].slug, t>> ELSE @]
      BY <1>4 DEF Org!CreateFindSlug
    <3> DEFINE s == IF Org!SlugTaken(f.slug) THEN <<f.slug, t>> ELSE f.slug
    <3>2. req' = [req EXCEPT ![r].pc = "insert", ![r].slug = s]
      BY <3>1 DEF LinkSide, Org!Frame
    <3> QED
      BY <3>2
  <2> DEFINE h == [f EXCEPT !.pc = "insert"]
             g == [h EXCEPT !.slug = s]
  <2>2. req' = [req EXCEPT ![r] = g]
    BY <2>1 DEF LinkSide, Org!Frame
  <2> HIDE DEF f
  <2>3. g.op = f.op /\ g.row = f.row
    BY <1>1 DEF Org!Frame
  <2> QED
    BY <1>3, <2>2, <2>3
<1>5. CASE Org!JoinReadLink(r) /\ ~Org!Finish(r)
  <2> DEFINE l == links[f.link]
             h == [f EXCEPT !.pc = "existing"]
             k == [h EXCEPT !.org = l.org]
             g == [k EXCEPT !.role = l.role]
  <2>1. req' = [req EXCEPT ![r] = g]
    BY <1>5 DEF Org!JoinReadLink, LinkSide, Org!Frame
  <2> HIDE DEF f, l
  <2>2. g.op = f.op /\ g.row = f.row
    BY <1>1 DEF Org!Frame
  <2> QED
    BY <1>3, <2>1, <2>2
<1> QED
  BY <1>2, <1>4, <1>5

(* removeMember keeps the id of its target's row, which names no other.    *)
LEMMA GoesForTarget ==
  ASSUME LinkSide, OneRowPerId, NEW r \in Reqs, Org!RemoveMemberTarget(r)
  PROVE  \E g : GoesOn(r, g)
<1> DEFINE f == req[r]
<1>1. f \in Org!Frame /\ LinkFrameOK(f, ExistingOrg, links)
  BY DEF LinkSide
<1>2. f.op = "removeMember" /\ f.pc = "target" /\ f.pc \notin After
  BY DEF Org!RemoveMemberTarget, Org!At, After
<1>3. f.user \in Users /\ f.org \in OrgIds
  BY <1>1, <1>2 DEF LinkFrameOK, ExistingOrg
<1>4. CASE Org!IsMember(f.user, f.org)
  <2> DEFINE row == members[f.org][f.user].id
             h == [f EXCEPT !.pc = "delete"]
             g == [h EXCEPT !.row = row]
  <2>1. req' = [req EXCEPT ![r] = g]
    BY <1>4 DEF Org!RemoveMemberTarget, LinkSide, Org!Frame
  <2>2. IsMember(f.user, f.org) /\ RowOfSome(row)
    BY <1>3, <1>4, Shared DEF RowOfSome
  <2>3. \A o \in OrgIds, u \in Users : IsMember(u, o) /\ members[o][u].id = row => o = f.org /\ u = f.user
    BY <1>3, <2>2 DEF OneRowPerId
  <2> HIDE DEF f, row
  <2>4. g.row = row /\ g.org = f.org /\ g.user = f.user
    BY <1>1 DEF Org!Frame
  <2> HIDE DEF g
  <2>5. TargetOnly(g)
    BY <2>3, <2>4 DEF TargetOnly
  <2>6. req[r].pc \notin After
    BY <1>2 DEF f
  <2>7. RowOfSome(g.row)
    BY <2>2, <2>4
  <2> QED
    BY <2>1, <2>5, <2>6, <2>7 DEF GoesOn
<1>5. CASE ~Org!IsMember(f.user, f.org)
  <2>1. Org!Finish(r)
    BY <1>5 DEF Org!RemoveMemberTarget
  <2> QED
    BY <2>1, GoesEnding
<1> QED
  BY <1>4, <1>5

(* Every step of a request of OrganizationsService is such a step. *)
LEMMA OrgGoesOn ==
  ASSUME MembersOK, LinkSide, OneRowPerId, NEW r \in Reqs, Org!Call(r) \/ Org!Handler(r) \/ Org!Abort(r)
  PROVE  \E g : GoesOn(r, g)
<1> DEFINE f == req[r]
<1>1. CASE Org!Call(r)
  <2>1. PICK g : NewLinkFrame(g) /\ Org!Issue(r, g)
    BY <1>1, OrgCalls
  <2>2. /\ req' = [req EXCEPT ![r] = g] /\ req[r].pc \notin After
        /\ g.pc # "delete" /\ (g.row = Null \/ RowOfSome(g.row))
    BY <2>1 DEF NewLinkFrame, Org!Issue, After
  <2> QED
    BY <2>2 DEF GoesOn, TargetOnly
<1>2. CASE Org!CreateFindSlug(r) \/ Org!JoinReadLink(r)
  BY <1>2, GoesReading
<1>3. CASE Org!RemoveMemberTarget(r)
  BY <1>3, GoesForTarget
<1>4. CASE Org!Finish(r)
  BY <1>4, GoesEnding
<1>5. CASE Org!CheckCaller(r) /\ ~Org!Finish(r)
  <2>1. f.pc = "caller" /\ f.pc \notin After
    BY <1>5 DEF Org!CheckCaller, After
  <2>2. \E pc \in {"write", "insert", "find"} : Org!Goto(r, pc)
    BY <1>5 DEF Org!CheckCaller, Org!Check
  <2> QED
    BY <2>1, <2>2, GoesNext
<1>6. CASE (Org!RemoveMemberCaller(r) \/ Org!RemoveMemberCount(r)) /\ ~Org!Finish(r)
  <2>1. f.pc \notin After
    BY <1>6 DEF Org!RemoveMemberCaller, Org!RemoveMemberCount, Org!At, After
  <2>2. Org!Goto(r, "count") \/ Org!Goto(r, "target")
    BY <1>6 DEF Org!RemoveMemberCaller, Org!RemoveMemberCount, Org!Check
  <2> QED
    BY <2>1, <2>2, GoesNext
<1>7. CASE /\ Org!RevokeInviteLinkFind(r) \/ Org!JoinCheckMember(r) \/ Org!JoinTransaction(r)
           /\ ~Org!Finish(r)
  <2>1. f.pc \notin After /\ f.op # "removeMember"
    BY <1>7 DEF Org!RevokeInviteLinkFind, Org!JoinCheckMember, Org!JoinTransaction, Org!At, After
  <2>2. Org!Goto(r, "delete") \/ Org!Goto(r, "tx") \/ Org!Goto(r, "notify")
    BY <1>7 DEF Org!RevokeInviteLinkFind, Org!JoinCheckMember, Org!JoinTransaction, Org!Check
  <2> QED
    BY <2>1, <2>2, GoesNext
<1> QED
  BY <1>1, <1>2, <1>3, <1>4, <1>5, <1>6, <1>7 DEF Org!Handler, Org!Abort, Org!CreateInsert, Org!UpdateMemberRole,
     Org!Update, Org!Remove, Org!RemoveMemberDelete, Org!CreateInviteLink, Org!RevokeInviteLinkDelete, Org!JoinNotify

-----------------------------------------------------------------------------
(* What a step does to the memberships: nothing, the one write by row id   *)
(* of a request that holds the id, or one row, new to its key, with the id *)
(* of a request that inserts it.                                           *)
WritesRole(r)   == Org!At(r, "updateMemberRole", "write") /\ Org!SetRoleById(req[r].row, req[r].role)
DeletesRow(r)   == Org!At(r, "removeMember", "delete") /\ Org!DeleteMemberById(req[r].row)
Adds(r, u, o)   == ~IsMember(u, o) /\ \E role : Inserts(r, u, o, role)

(* The key of the row a request inserts, and when it does. *)
InsertsNow(r) ==
  /\ ~Past(r) /\ Past(r)'
  /\ \E o \in OrgIds, u \in Users : o \in ExistingOrg' /\ Adds(r, u, o)

WritesById(r) == WritesRole(r) \/ DeletesRow(r)

(* create and joinByToken insert, each in the step its request is past it. *)
LEMMA OrgInserts ==
  ASSUME MembersOK, LinkSide, Housed, NEW r \in Reqs, ireq[r].pc = "new", UNCHANGED ireq,
         Org!CreateInsert(r) \/ Org!JoinTransaction(r)
  PROVE  UNCHANGED members \/ InsertsNow(r)
<1> DEFINE f == req[r]
<1>1. f \in Org!Frame /\ LinkFrameOK(f, ExistingOrg, links) /\ f.pc \notin After
  BY DEF LinkSide, Org!CreateInsert, Org!JoinTransaction, Org!At, After
<1>2. ~Past(r)
  BY <1>1 DEF Past, After
<1>3. CASE Org!CreateInsert(r) /\ ~UNCHANGED members
  <2>1. /\ f.op = "create" /\ f.pc = "insert" /\ Org!Finish(r)
        /\ orgs' = [orgs EXCEPT ![r] = [slug |-> f.slug, isActive |-> TRUE, deleted |-> FALSE]]
        /\ Org!InsertMember(r, f.by, r, "OWNER")
    BY <1>3 DEF Org!CreateInsert, Org!At
  <2>2. f.by \in Users /\ f.slug # Null /\ r \in OrgIds /\ r \notin ExistingOrg
    BY <1>1, <2>1, Ids DEF LinkFrameOK, LinkSide
  <2>3. r \in ExistingOrg'
    BY <2>1, <2>2 DEF LinkSide, ExistingOrg
  <2>4. Adds(r, f.by, r)
    BY <2>1, <2>2 DEF Adds, Inserts, Org!InsertMember, Housed
  <2>5. req'[r].pc = "done"
    BY <2>1, OwnFrames DEF Org!Finish, LinkSide
  <2> QED
    BY <1>2, <2>2, <2>3, <2>4, <2>5 DEF InsertsNow, Past, After
<1>4. CASE Org!JoinTransaction(r) /\ ~UNCHANGED members
  <2>1. /\ f.op = "joinByToken" /\ f.pc = "tx" /\ UNCHANGED orgs
        /\ ~Org!IsMember(f.by, f.org) /\ Org!InsertMember(r, f.by, f.org, f.role)
        /\ Org!Goto(r, "notify")
    BY <1>4 DEF Org!JoinTransaction, Org!At
  <2>2. f.by \in Users /\ f.org \in ExistingOrg /\ f.org \in OrgIds
    BY <1>1, <2>1 DEF LinkFrameOK, LinkSide, KnownIn, ExistingOrg
  <2>3. f.org \in ExistingOrg'
    BY <2>1, <2>2 DEF ExistingOrg
  <2>4. Adds(r, f.by, f.org)
    BY <2>1, Shared DEF Adds, Inserts, Org!InsertMember
  <2>5. req'[r].pc = "notify"
    BY <2>1 DEF Org!Goto, LinkSide, Org!Frame
  <2> QED
    BY <1>2, <2>2, <2>3, <2>4, <2>5 DEF InsertsNow, Past, After
<1> QED
  BY <1>3, <1>4

(* The requests of OrganizationsService. *)
LEMMA OrgWrites ==
  ASSUME MembersOK, LinkSide, Housed, NEW r \in Reqs, ireq[r].pc = "new", UNCHANGED ireq,
         Org!Call(r) \/ Org!Handler(r) \/ Org!Abort(r)
  PROVE  UNCHANGED members \/ WritesById(r) \/ InsertsNow(r)
<1>1. CASE Org!CreateInsert(r) \/ Org!JoinTransaction(r)
  BY <1>1, OrgInserts
<1>2. CASE Org!UpdateMemberRole(r)
  BY <1>2 DEF Org!UpdateMemberRole, WritesById, WritesRole
<1>3. CASE Org!RemoveMemberDelete(r)
  BY <1>3 DEF Org!RemoveMemberDelete, WritesById, DeletesRow
<1>4. CASE Org!Call(r)
  BY <1>4, OrgCalls DEF Org!Issue
<1> QED
  BY <1>1, <1>2, <1>3, <1>4 DEF Org!Handler, Org!Abort, Org!CreateFindSlug, Org!CheckCaller,
     Org!Update, Org!Remove, Org!RemoveMemberCaller, Org!RemoveMemberCount, Org!RemoveMemberTarget,
     Org!CreateInviteLink, Org!RevokeInviteLinkFind, Org!RevokeInviteLinkDelete, Org!JoinReadLink,
     Org!JoinCheckMember, Org!JoinNotify

(* A write by id brings in no row and moves no id. *)
LEMMA RowsOfWrite ==
  ASSUME MembersOK, LinkSide, NEW r \in Reqs, UNCHANGED members \/ WritesById(r)
  PROVE  MembersOK' /\ NoNewMember
<1>1. CASE UNCHANGED members
  BY <1>1, MembersRest
<1>2. CASE WritesRole(r)
  <2>1. req[r].op = "updateMemberRole" /\ Org!SetRoleById(req[r].row, req[r].role)
    BY <1>2 DEF WritesRole, Org!At
  <2>2. req[r].row \in MemberIds
    BY <2>1 DEF LinkSide, LinkFrameOK
  <2> QED
    BY <2>1, <2>2, RoleWritten
<1>3. CASE DeletesRow(r)
  BY <1>3, RowDeleted DEF DeletesRow
<1> QED
  BY <1>1, <1>2, <1>3 DEF WritesById

(* One request's step, of either service, that undoes no request's insert  *)
(* and leaves in every frame only rows there have been.                    *)
LEMMA RowsMove ==
  ASSUME RowsInv, MembersOK, LinkSide, NEW r \in Reqs, OneService', ExistingOrg \subseteq ExistingOrg',
         UNCHANGED members \/ WritesById(r) \/ InsertsNow(r),
         \A q \in Reqs : Past(q) => Past(q)',
         \A q \in Reqs : req'[q].row \in Reqs => Past(req'[q].row),
         \A q \in Reqs : TargetOnly(req'[q])
  PROVE  RowsInv'
<1>1. CASE UNCHANGED members \/ WritesById(r)
  <2>1. MembersOK' /\ NoNewMember
    BY <1>1, RowsOfWrite
  <2>2. RowsGoBut(Null, Null, Null)
    BY <2>1 DEF RowsGoBut, NoNewMember
  <2> QED
    BY <2>1, <2>2, RowsStep
<1>2. CASE InsertsNow(r)
  <2>1. PICK o \in OrgIds, u \in Users : o \in ExistingOrg' /\ Adds(r, u, o)
    BY <1>2 DEF InsertsNow
  <2>2. PICK role : Inserts(r, u, o, role)
    BY <2>1 DEF Adds
  <2>3. /\ MembersOK' /\ members'[o][u] = [id |-> r, role |-> role]
        /\ \A p \in OrgIds, v \in Users : p # o \/ v # u => members'[p][v] = members[p][v]
    BY <2>1, <2>2, InsertedRow
  <2>4. RowsGoBut(r, o, u)
    BY <2>3 DEF RowsGoBut, IsMember
  <2>5. r # Null /\ ~Past(r) /\ Past(r)'
    BY <1>2, Ids DEF InsertsNow
  <2> QED
    BY <2>1, <2>3, <2>4, <2>5, RowsStep
<1> QED
  BY <1>1, <1>2

(* A step of OrganizationsService, with the other service's frames blank.  *)
LEMMA OrgRows ==
  ASSUME RowsInv, MembersOK, LinkSide, NEW r \in Reqs, UNCHANGED ireq,
         (Org!Call(r) /\ ireq[r].pc = "new") \/ Org!Handler(r) \/ Org!Abort(r)
  PROVE  RowsInv' /\ (UNCHANGED members \/ WritesById(r) \/ InsertsNow(r))
<1>1. ireq[r].pc = "new"
  <2>1. Org!Handler(r) \/ Org!Abort(r) => req[r].pc # "new"
    BY DEF Org!Handler, Org!Abort, Org!InFlight, Org!At, Org!CreateFindSlug, Org!CreateInsert, Org!CheckCaller,
     Org!UpdateMemberRole, Org!Update, Org!Remove, Org!RemoveMemberCaller, Org!RemoveMemberCount,
     Org!RemoveMemberTarget, Org!RemoveMemberDelete, Org!CreateInviteLink, Org!RevokeInviteLinkFind,
     Org!RevokeInviteLinkDelete, Org!JoinReadLink, Org!JoinCheckMember, Org!JoinTransaction, Org!JoinNotify
  <2> QED
    BY <2>1 DEF RowsInv, OneService
<1>2. UNCHANGED members \/ WritesById(r) \/ InsertsNow(r)
  BY <1>1, OrgWrites DEF RowsInv
<1>3. PICK g : GoesOn(r, g)
  BY OrgGoesOn DEF RowsInv
<1>4. /\ req'[r] = g /\ (req[r].pc \in After => g.pc \in After)
      /\ \A q \in Reqs : q # r => req'[q] = req[q]
  BY <1>3 DEF GoesOn, LinkSide
<1>5. OneService' /\ \A q \in Reqs : Past(q) => Past(q)'
  BY <1>1, <1>4 DEF RowsInv, OneService, Past
<1>6. g.row \in Reqs => Past(g.row)
  BY <1>3, Ids DEF GoesOn, RowOfSome, RowsInv, IdsPast
<1>7. \A q \in Reqs : req'[q].row \in Reqs => Past(req'[q].row)
  BY <1>4, <1>6 DEF RowsInv, IdsPast
<1>8. \A q \in Reqs : TargetOnly(req'[q])
  BY <1>3, <1>4 DEF GoesOn, RowsInv, HeldIsTarget
<1>9. ExistingOrg \subseteq ExistingOrg'
  BY OrgsStay
<1> QED
  BY <1>2, <1>5, <1>7, <1>8, <1>9, RowsMove

(* The frames of InvitationsService: a request past its insert stays past. *)
LEMMA InvGoesOn ==
  ASSUME LetterSide, NEW r \in Reqs, Inv!InvCall(r) \/ Inv!InvHandler(r) \/ Inv!InvAbort(r)
  PROVE  \E g : ireq' = [ireq EXCEPT ![r] = g] /\ (ireq[r].pc \in After => g.pc \in After)
<1> DEFINE f == ireq[r]
<1>1. CASE Inv!IFinish(r)
  BY <1>1, LetterFrames DEF Inv!IFinish, After
<1>2. CASE f.pc \notin After /\ \E g : ireq' = [ireq EXCEPT ![r] = g]
  BY <1>2
<1>3. CASE f.pc \notin After /\ \E pc : Inv!IGoto(r, pc)
  BY <1>2, <1>3 DEF Inv!IGoto
<1>4. CASE Inv!InvCall(r)
  BY <1>2, <1>4, InvCalls DEF Inv!InvIssue, After
<1>5. CASE Inv!SendFindUser(r)
  <2>1. f.pc = "user" /\ f.pc \notin After
    BY <1>5 DEF Inv!SendFindUser, Inv!IAt, After
  <2>2. PICK b, pc : ireq' = [ireq EXCEPT ![r].known = b, ![r].pc = pc]
    BY <1>5 DEF Inv!SendFindUser
  <2>3. ireq' = [ireq EXCEPT ![r] = [f EXCEPT !.known = b, !.pc = pc]]
    BY <2>2 DEF LetterSide, Inv!IFrame
  <2> QED
    BY <1>2, <2>1, <2>3
<1>6. CASE Inv!ResolveAndValidate(r) /\ ~Inv!IFinish(r) /\ ~Inv!IGoto(r, "expire")
  <2>1. f.pc = "read" /\ f.pc \notin After
    BY <1>6 DEF Inv!ResolveAndValidate, After
  <2> DEFINE row == invitations[f.inv]
             pc  == IF f.op = "accept" THEN "existing" ELSE "write"
  <2>2. ireq' = [ireq EXCEPT ![r].org = row.org, ![r].role = row.role, ![r].pc = pc]
    BY <1>6 DEF Inv!ResolveAndValidate
  <2>3. ireq' = [ireq EXCEPT ![r] = [f EXCEPT !.org = row.org, !.role = row.role, !.pc = pc]]
    BY <2>2 DEF LetterSide, Inv!IFrame
  <2> QED
    BY <1>2, <2>1, <2>3
<1>7. CASE \/ Inv!InvCheckCaller(r) \/ Inv!SendCheckOrg(r) \/ Inv!SendCheckDuplicate(r)
           \/ Inv!SendCheckMember(r) \/ Inv!ViewRead(r) \/ Inv!AcceptCheckMember(r)
           \/ Inv!RevokeFind(r) \/ (Inv!ResolveAndValidate(r) /\ Inv!IGoto(r, "expire"))
           \/ Inv!AcceptTransaction(r) \/ Inv!RejectWrite(r)
  <2>1. f.pc \notin After
    BY <1>7 DEF Inv!InvCheckCaller, Inv!SendCheckOrg, Inv!SendCheckDuplicate, Inv!SendCheckMember, Inv!ViewRead,
     Inv!AcceptCheckMember, Inv!RevokeFind, Inv!ResolveAndValidate, Inv!AcceptTransaction, Inv!RejectWrite,
     Inv!IAt, After
  <2>2. Inv!IFinish(r) \/ \E pc : Inv!IGoto(r, pc)
    BY <1>7 DEF Inv!InvCheckCaller, Inv!SendCheckOrg, Inv!SendCheckDuplicate, Inv!SendCheckMember, Inv!ViewRead,
     Inv!AcceptCheckMember, Inv!RevokeFind, Inv!AcceptTransaction, Inv!RejectWrite, Inv!ICheck
  <2> QED
    BY <1>1, <1>3, <2>1, <2>2
<1> QED
  BY <1>1, <1>4, <1>5, <1>6, <1>7 DEF Inv!InvHandler, Inv!InvAbort, Inv!SendInsert, Inv!ExpireMine, Inv!ExpireOne,
     Inv!NotifyInviter, Inv!RevokeWrite

(* Its only write to the memberships is accept's insert. *)
LEMMA InvWritesRow ==
  ASSUME MembersOK, LetterSide, NEW r \in Reqs, req[r].pc = "new", UNCHANGED <<orgs, req>>,
         Inv!InvCall(r) \/ Inv!InvHandler(r) \/ Inv!InvAbort(r)
  PROVE  UNCHANGED members \/ InsertsNow(r)
<1> DEFINE f == ireq[r]
<1>1. CASE Inv!AcceptTransaction(r) /\ ~UNCHANGED members
  <2>1. /\ f.op = "accept" /\ f.pc = "tx"
        /\ ~Inv!IsMember(f.by, f.org) /\ Inv!InsertMember(r, f.by, f.org, f.role)
        /\ Inv!IGoto(r, "notify")
    BY <1>1 DEF Inv!AcceptTransaction, Inv!IAt
  <2>2. f.by \in Users /\ SentIn(f.inv, invitations) /\ invitations[f.inv].org = f.org
    BY <2>1 DEF LetterSide, LetterFrameOK, AboutInvitation
  <2>3. f.org \in ExistingOrg /\ f.org \in OrgIds /\ f.org \in ExistingOrg'
    BY <2>2 DEF LetterSide, SentIn, ExistingOrg
  <2>4. Adds(r, f.by, f.org)
    BY <2>1, Shared DEF Adds, Inserts, Inv!InsertMember
  <2>5. ireq'[r].pc = "notify"
    BY <2>1 DEF Inv!IGoto, LetterSide, Inv!IFrame
  <2>6. ~Past(r) /\ Past(r)'
    BY <2>1, <2>5 DEF Past, After
  <2> QED
    BY <2>2, <2>3, <2>4, <2>6 DEF InsertsNow
<1>2. CASE Inv!InvCall(r)
  BY <1>2, InvCalls DEF Inv!InvIssue
<1> QED
  BY <1>1, <1>2 DEF Inv!InvHandler, Inv!InvAbort, Inv!InvCheckCaller, Inv!SendCheckOrg,
     Inv!SendCheckDuplicate, Inv!SendFindUser, Inv!SendCheckMember, Inv!SendInsert, Inv!ExpireMine, Inv!ViewRead,
     Inv!ExpireOne, Inv!ResolveAndValidate, Inv!AcceptCheckMember, Inv!RejectWrite,
     Inv!NotifyInviter, Inv!RevokeFind, Inv!RevokeWrite

(* A step of InvitationsService. *)
LEMMA InvRows ==
  ASSUME RowsInv, MembersOK, LinkSide, LetterSide, NEW r \in Reqs, UNCHANGED <<orgs, req>>,
         (Inv!InvCall(r) /\ req[r].pc = "new") \/ Inv!InvHandler(r) \/ Inv!InvAbort(r)
  PROVE  RowsInv' /\ (UNCHANGED members \/ WritesById(r) \/ InsertsNow(r))
<1>1. req[r].pc = "new"
  <2>1. Inv!InvHandler(r) \/ Inv!InvAbort(r) => ireq[r].pc # "new"
    BY DEF Inv!InvHandler, Inv!InvAbort, Inv!IInFlight, Inv!IAt, Inv!InvCheckCaller, Inv!SendCheckOrg,
     Inv!SendCheckDuplicate, Inv!SendFindUser, Inv!SendCheckMember, Inv!SendInsert, Inv!ExpireMine, Inv!ViewRead,
     Inv!ExpireOne, Inv!ResolveAndValidate, Inv!AcceptCheckMember, Inv!AcceptTransaction, Inv!RejectWrite,
     Inv!NotifyInviter, Inv!RevokeFind, Inv!RevokeWrite
  <2> QED
    BY <2>1 DEF RowsInv, OneService
<1>2. UNCHANGED members \/ InsertsNow(r)
  BY <1>1, InvWritesRow
<1>3. PICK g : ireq' = [ireq EXCEPT ![r] = g] /\ (ireq[r].pc \in After => g.pc \in After)
  BY InvGoesOn
<1>4. ireq'[r] = g /\ \A q \in Reqs : q # r => ireq'[q] = ireq[q]
  BY <1>3 DEF LetterSide
<1>5. OneService' /\ \A q \in Reqs : Past(q) => Past(q)'
  BY <1>1, <1>3, <1>4 DEF RowsInv, OneService, Past
<1>6. \A q \in Reqs : req'[q].row \in Reqs => Past(req'[q].row)
  BY DEF RowsInv, IdsPast
<1>7. \A q \in Reqs : TargetOnly(req'[q])
  BY DEF RowsInv, HeldIsTarget
<1>8. ExistingOrg \subseteq ExistingOrg'
  BY DEF ExistingOrg
<1> QED
  BY <1>2, <1>5, <1>6, <1>7, <1>8, RowsMove

(* The clock, and a step of nobody. *)
LEMMA RowsRest ==
  ASSUME RowsInv, UNCHANGED <<orgs, members, req, ireq>>
  PROVE  RowsInv'
<1>1. ExistingOrg' = ExistingOrg /\ members' = members /\ req' = req /\ ireq' = ireq
  BY DEF ExistingOrg
<1> QED
  BY <1>1 DEF RowsInv, OneService, Housed, IdsPast, Past, OneRowPerId, HeldIsTarget, TargetOnly, IsMember

(* The rows the behaviours start with carry their own keys. *)
LEMMA InitRows == Init => RowsInv
<1>1. SUFFICES ASSUME Init PROVE RowsInv
  OBVIOUS
<1>2. PICK slug \in [SeedOrgs -> Names] :
        orgs = [o \in OrgIds |->
          IF o \in SeedOrgs
          THEN [slug |-> slug[o], isActive |-> TRUE, deleted |-> FALSE] ELSE Org!NoOrg]
  BY <1>1, Shared DEF Init, Org!OrgInit, Org!TablesInit
<1>3. SeedOrgs \subseteq ExistingOrg
  <2>1. \A o \in SeedOrgs : slug[o] \in Names /\ slug[o] # Null
    BY IdAssumption DEF Slugs
  <2> QED
    BY <1>2, <2>1 DEF ExistingOrg, OrgIds
<1>4. req = [r \in Reqs |-> Org!Blank] /\ ireq = [r \in Reqs |-> Inv!IBlank]
  BY <1>1 DEF Init, Org!OrgInit, Inv!InvInit
<1>5. \A r \in Reqs : req[r].pc = "new" /\ req[r].op = "none" /\ req[r].row = Null
  BY <1>4 DEF Org!Blank
<1>6. PICK role : members = Org!SeedMembers(role)
  BY <1>1 DEF Init, Org!OrgInit, Org!TablesInit
<1>7. members = [o \in OrgIds |-> [u \in Users |->
        IF o \in SeedOrgs /\ role[<<o, u>>] # "NONE"
        THEN [id |-> <<o, u>>, role |-> role[<<o, u>>]] ELSE NoMember]]
  BY <1>6, Shared DEF Org!SeedMembers
<1>8. NoMember.id = Null /\ Null \notin MemberIds
  BY Ids DEF NoMember
<1>9. ASSUME NEW o \in OrgIds, NEW u \in Users
      PROVE  \/ ~IsMember(u, o) /\ members[o][u].id = Null
             \/ /\ o \in SeedOrgs /\ members[o][u].id = <<o, u>>
                /\ <<o, u>> \in MemberIds /\ <<o, u>> \notin Reqs
  BY <1>7, <1>8, IdAssumption DEF IsMember, MemberIds
<1>10. OneService /\ HeldIsTarget
  BY <1>5 DEF OneService, HeldIsTarget, TargetOnly
<1>11. Housed
  BY <1>3, <1>9 DEF Housed
<1>12. IdsPast
  BY <1>5, <1>9, Ids DEF IdsPast
<1>13. OneRowPerId
  <2>1. ASSUME NEW o \in OrgIds, NEW p \in OrgIds, NEW u \in Users, NEW v \in Users,
               IsMember(u, o), members[o][u].id = members[p][v].id
        PROVE  o = p /\ u = v
    <3>1. members[o][u].id = <<o, u>> /\ members[o][u].id # Null
      BY <1>8, <1>9, <2>1
    <3>2. members[p][v].id = <<p, v>>
      BY <1>9, <2>1, <3>1
    <3>3. <<o, u>> = <<p, v>>
      BY <2>1, <3>1, <3>2
    <3> QED
      BY <3>3
  <2> QED
    BY <2>1 DEF OneRowPerId
<1> QED
  BY <1>10, <1>11, <1>12, <1>13 DEF RowsInv

(* What OrganizationsService promises of one step. *)
WritesHit == Org!RemovalHitsTarget /\ Org!RoleChangeHitsRow

(* A write by id hits the row its request means, an insert no row. *)
LEMMA HitsTarget ==
  ASSUME DoorInv, RowsInv, NEW r \in Reqs, UNCHANGED members \/ WritesById(r) \/ InsertsNow(r)
  PROVE  WritesHit
<1>0. MembersOK /\ LinkSide
  BY DEF DoorInv
<1> SUFFICES ASSUME NEW o \in OrgIds, NEW u \in Users, IsMember(u, o)
             PROVE  /\ members'[o][u] = NoMember =>
                         \E q \in Reqs : /\ Org!At(q, "removeMember", "delete")
                                         /\ req[q].org = o /\ req[q].user = u
                                         /\ req[q].row = members[o][u].id
                    /\ IsMember(u, o)' /\ members'[o][u] # members[o][u] =>
                         \E q \in Reqs : /\ Org!At(q, "updateMemberRole", "write")
                                         /\ req[q].row = members[o][u].id
                                         /\ members'[o][u] = [id |-> req[q].row, role |-> req[q].role]
  BY Shared DEF WritesHit, Org!RemovalHitsTarget, Org!RoleChangeHitsRow, Org!IsMember, IsMember
<1>1. CASE UNCHANGED members
  BY <1>1 DEF IsMember
<1>2. CASE WritesRole(r)
  <2>1. /\ Org!At(r, "updateMemberRole", "write") /\ req[r].row # Null
        /\ members' = [p \in OrgIds |-> [v \in Users |->
             IF members[p][v].id = req[r].row THEN [id |-> req[r].row, role |-> req[r].role]
             ELSE members[p][v]]]
    BY <1>0, <1>2, Shared, Ids DEF WritesRole, Org!SetRoleById, Org!At, LinkSide, LinkFrameOK
  <2>2. CASE members[o][u].id = req[r].row
    <3>1. members'[o][u] = [id |-> req[r].row, role |-> req[r].role]
      BY <2>1, <2>2
    <3>2. members'[o][u] # NoMember
      BY <2>1, <3>1 DEF NoMember
    <3> QED
      BY <2>1, <2>2, <3>1, <3>2
  <2>3. CASE members[o][u].id # req[r].row
    <3>1. members'[o][u] = members[o][u]
      BY <2>1, <2>3
    <3> QED
      BY <3>1 DEF IsMember
  <2> QED
    BY <2>2, <2>3
<1>3. CASE DeletesRow(r)
  <2>1. /\ Org!At(r, "removeMember", "delete")
        /\ members' = [p \in OrgIds |-> [v \in Users |->
             IF members[p][v].id = req[r].row THEN NoMember ELSE members[p][v]]]
    BY <1>3, Shared DEF DeletesRow, Org!DeleteMemberById
  <2>2. CASE members[o][u].id = req[r].row
    <3>1. members'[o][u] = NoMember
      BY <2>1, <2>2
    <3>2. o = req[r].org /\ u = req[r].user
      BY <2>1, <2>2 DEF RowsInv, HeldIsTarget, TargetOnly, Org!At
    <3> QED
      BY <2>1, <2>2, <3>1, <3>2 DEF IsMember
  <2>3. CASE members[o][u].id # req[r].row
    <3>1. members'[o][u] = members[o][u]
      BY <2>1, <2>3
    <3> QED
      BY <3>1 DEF IsMember
  <2> QED
    BY <2>2, <2>3
<1>4. CASE InsertsNow(r)
  <2>1. PICK p \in OrgIds, v \in Users : Adds(r, v, p)
    BY <1>4 DEF InsertsNow
  <2>2. PICK role : ~IsMember(v, p) /\ Inserts(r, v, p, role)
    BY <2>1 DEF Adds
  <2>3. /\ MembersOK' /\ members'[p][v] = [id |-> r, role |-> role]
        /\ \A a \in OrgIds, b \in Users : a # p \/ b # v => members'[a][b] = members[a][b]
    BY <1>0, <2>1, <2>2, InsertedRow
  <2>4. members'[o][u] = members[o][u]
    BY <2>2, <2>3
  <2> QED
    BY <2>4 DEF IsMember
<1> QED
  BY <1>1, <1>2, <1>3, <1>4 DEF WritesById

(* Every step keeps the rows' invariant and hits what it means. *)
LEMMA RowsNext ==
  ASSUME DoorInv, RowsInv, [Next]_allVars
  PROVE  RowsInv' /\ WritesHit
<1>1. MembersOK /\ LinkSide /\ LetterSide
  BY DEF DoorInv
<1>2. ASSUME UNCHANGED <<orgs, members, req, ireq>>
      PROVE  RowsInv' /\ WritesHit
  <2>1. WritesHit
    BY <1>2 DEF WritesHit, Org!RemovalHitsTarget, Org!RoleChangeHitsRow, Org!IsMember
  <2> QED
    BY <1>2, <2>1, RowsRest
<1>3. ASSUME NEW r \in Reqs, OrgCall(r) \/ OrgStep(r)
      PROVE  RowsInv' /\ WritesHit
  <2>1. UNCHANGED ireq /\ ((Org!Call(r) /\ ireq[r].pc = "new") \/ Org!Handler(r) \/ Org!Abort(r))
    BY <1>3 DEF OrgCall, OrgStep, onlyInv
  <2>2. RowsInv' /\ (UNCHANGED members \/ WritesById(r) \/ InsertsNow(r))
    BY <1>1, <2>1, OrgRows
  <2> QED
    BY <2>2, HitsTarget
<1>4. ASSUME NEW r \in Reqs, InvCall(r) \/ InvStep(r)
      PROVE  RowsInv' /\ WritesHit
  <2>1. UNCHANGED req /\ ((Inv!InvCall(r) /\ req[r].pc = "new") \/ Inv!InvHandler(r) \/ Inv!InvAbort(r))
    BY <1>4 DEF InvCall, InvStep, onlyOrg
  <2>2. UNCHANGED orgs
    BY <1>1, <2>1, InvCalls DEF Inv!InvHandler, Inv!InvAbort, Inv!InvIssue, Inv!InvCheckCaller, Inv!SendCheckOrg,
       Inv!SendCheckDuplicate, Inv!SendFindUser, Inv!SendCheckMember, Inv!SendInsert, Inv!ExpireMine, Inv!ViewRead,
       Inv!ExpireOne, Inv!ResolveAndValidate, Inv!AcceptCheckMember, Inv!AcceptTransaction, Inv!RejectWrite,
       Inv!NotifyInviter, Inv!RevokeFind, Inv!RevokeWrite
  <2>3. RowsInv' /\ (UNCHANGED members \/ WritesById(r) \/ InsertsNow(r))
    BY <1>1, <2>1, <2>2, InvRows
  <2> QED
    BY <2>3, HitsTarget
<1>5. CASE OrgClock \/ InvClock \/ UNCHANGED allVars
  <2>1. UNCHANGED <<orgs, members, req, ireq>>
    BY <1>5 DEF OrgClock, InvClock, Org!LinkExpires, Inv!InvPasses, onlyOrg, onlyInv, allVars
  <2> QED
    BY <1>2, <2>1
<1> QED
  BY <1>3, <1>4, <1>5 DEF Next

(* A request of one service at a time, and an id for one membership, also  *)
(* when both services insert rows.                                         *)
THEOREM RowsStayApart == Spec => []RowsInv
<1>1. DoorInv /\ RowsInv /\ [Next]_allVars => RowsInv'
  BY RowsNext
<1> QED
  BY InitRows, DoorsStayOpen, <1>1, PTL DEF Spec

(* removeMember deletes its target's row and no other, even if the target  *)
(* has left and come back through either door since the row was read.      *)
THEOREM RemovalsHitThroughBothDoors == Spec => Org!RemovalHitsOnlyTarget
<1>1. DoorInv /\ RowsInv /\ [Next]_allVars => [Org!RemovalHitsTarget]_Org!orgVars
  BY RowsNext DEF WritesHit
<1> QED
  BY DoorsStayOpen, RowsStayApart, <1>1, PTL DEF Spec, Org!RemovalHitsOnlyTarget

(* updateMemberRole writes the row its client named and no other.          *)
THEOREM RolesHitThroughBothDoors == Spec => Org!RoleChangeKeepsRow
<1>1. DoorInv /\ RowsInv /\ [Next]_allVars => [Org!RoleChangeHitsRow]_Org!orgVars
  BY RowsNext DEF WritesHit
<1> QED
  BY DoorsStayOpen, RowsStayApart, <1>1, PTL DEF Spec, Org!RoleChangeKeepsRow
=============================================================================
