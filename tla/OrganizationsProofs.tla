------------------------ MODULE OrganizationsProofs ------------------------
(***************************************************************************)
(* Theorems about Organizations for any number of users, requests, links   *)
(* and organizations.                                                      *)
(***************************************************************************)
EXTENDS Organizations, TLAPS

(* A handler's frame stays a frame when its pc moves or it ends. *)
LEMMA FrameMoves ==
  ASSUME req \in [Reqs -> Frame], NEW r \in Reqs, NEW pc \in PCs
  PROVE  /\ [req EXCEPT ![r].pc = pc] \in [Reqs -> Frame]
         /\ [req EXCEPT ![r] = Done] \in [Reqs -> Frame]
<1>1. Done \in Frame
  BY DEF Done, Blank, Frame, PCs
<1>2. [req[r] EXCEPT !.pc = pc] \in Frame
  BY DEF Frame
<1> QED
  BY <1>1, <1>2

(* Check, Goto and Finish keep req a function to frames.                   *)
LEMMA StepsKeepFrames ==
  ASSUME req \in [Reqs -> Frame], NEW r \in Reqs, NEW pc \in PCs, NEW ok \in BOOLEAN,
         Goto(r, pc) \/ Finish(r) \/ Check(r, ok, pc)
  PROVE  req' \in [Reqs -> Frame]
<1>1. CASE Goto(r, pc)
  BY <1>1, FrameMoves DEF Goto
<1>2. CASE Finish(r)
  BY <1>2, FrameMoves DEF Finish
<1> QED
  BY <1>1, <1>2 DEF Check

(* The writes keep the membership table a table. *)
LEMMA WritesKeepMembers ==
  ASSUME TablesOK, NEW id \in MemberIds, NEW u \in Users, NEW o \in OrgIds,
         NEW role \in Roles,
         InsertMember(id, u, o, role) \/ SetRoleById(id, role) \/ DeleteMemberById(id)
  PROVE  members' \in [OrgIds -> [Users -> MemberRow \cup {NoMember}]]
<1> DEFINE Row == MemberRow \cup {NoMember}
<1>1. [id |-> id, role |-> role] \in Row
  BY DEF MemberRow
<1>2. CASE InsertMember(id, u, o, role)
  BY <1>1, <1>2 DEF InsertMember, TablesOK
<1>3. CASE SetRoleById(id, role)
  BY <1>1, <1>3 DEF SetRoleById, TablesOK
<1>4. CASE DeleteMemberById(id)
  BY <1>4 DEF DeleteMemberById, TablesOK
<1> QED
  BY <1>2, <1>3, <1>4

-----------------------------------------------------------------------------
(***************************************************************************)
(* Type correctness.                                                       *)
(***************************************************************************)
LEMMA InitType == OrgInit => OrgTypeOK
<1> SUFFICES ASSUME OrgInit PROVE OrgTypeOK
  OBVIOUS
<1>1. orgs \in [OrgIds -> OrgRow]
  BY DEF OrgInit, TablesInit, OrgRow, NoOrg, Slugs, OrgIds
<1>2. members \in [OrgIds -> [Users -> MemberRow \cup {NoMember}]]
  BY DEF OrgInit, TablesInit, SeedMembers, MemberRow, MemberIds
<1>3. links \in [LinkIds -> LinkRow]
  BY DEF OrgInit, LinkRow, NoLink, OrgIds, LinkIds
<1>4. req \in [Reqs -> Frame]
  BY DEF OrgInit, Blank, Frame, PCs
<1>5. fired \subseteq Notice
  BY DEF OrgInit
<1> QED
  BY <1>1, <1>2, <1>3, <1>4, <1>5 DEF OrgTypeOK, TablesOK

(* A request not issued yet has a well-typed frame.                        *)
LEMMA BlankFrame == Blank \in Frame
BY DEF Blank, Frame, PCs

(* Whatever a client calls, the new frame is well formed, and is at its    *)
(* first database call.                                                    *)
NewFrame(f) ==
  /\ f \in Frame /\ FrameOK(f)
  /\ f.org # Null => f.org \in ExistingOrg
  /\ f.row \in Reqs => f.row \in Inserted
  /\ f.pc \in {"slug", "link", "caller"}

Asked(f, op) ==
  /\ f \in Frame /\ f.op = op /\ f.by \in Users /\ f.org \in ExistingOrg
  /\ f.pc = "caller" /\ f.row = Null

(* A call sets one blank frame, to what the caller may name, and writes no table. *)
LEMMA CallIssuesNewFrame ==
  ASSUME OrgInv, NEW r \in Reqs, Call(r)
  PROVE  \E f : NewFrame(f) /\ Issue(r, f)
<1>0. Null \notin Reqs /\ Null \notin OrgIds
  BY IdAssumption DEF OrgIds
<1>1. PICK u \in Users : OwnCall(r, u) \/ \E o \in ExistingOrg : CallAbout(r, u, o)
  BY DEF Call
<1>2. CASE OwnCall(r, u)
  <2>1. ASSUME NEW n \in Names
        PROVE  NewFrame([Blank EXCEPT !.pc = "slug", !.op = "create", !.by = u, !.slug = n])
    BY BlankFrame, <1>0 DEF NewFrame, FrameOK, Frame, PCs, AllOps, Slugs, Blank
  <2>2. ASSUME NEW l \in KnownLink
        PROVE  NewFrame([Blank EXCEPT !.pc = "link", !.op = "joinByToken", !.by = u, !.link = l])
    BY BlankFrame, <1>0 DEF NewFrame, FrameOK, Frame, PCs, AllOps, KnownLink, Blank
  <2> QED
    BY <1>2, <2>1, <2>2, Zenon DEF OwnCall
<1>3. ASSUME NEW o \in ExistingOrg, CallAbout(r, u, o)
      PROVE  \E f : NewFrame(f) /\ Issue(r, f)
  <2>1. ASSUME NEW op \in AllOps
        PROVE  Asked(Ask(op, u, o), op)
    BY BlankFrame DEF Asked, Ask, Frame, PCs, ExistingOrg, Blank
  <2>2. CASE \E p \in OrgIds, v \in Users, role \in Roles :
              IsMember(v, p) /\ Issue(r, [Ask("updateMemberRole", u, o) EXCEPT !.row = members[p][v].id, !.role = role])
    <3> DEFINE f == Ask("updateMemberRole", u, o)
    <3>1. PICK p \in OrgIds, v \in Users, role \in Roles :
            IsMember(v, p) /\ Issue(r, [f EXCEPT !.row = members[p][v].id, !.role = role])
      BY <2>2
    <3>2. members[p][v].id \in MemberIds /\ (members[p][v].id \in Reqs => members[p][v].id \in Inserted)
      BY <3>1 DEF OrgInv, OrgTypeOK, TablesOK, MemberRow, IsMember, IdsTaken
    <3>3. Asked(f, "updateMemberRole")
      BY <2>1 DEF AllOps
    <3> HIDE DEF f
    <3> DEFINE g == [f EXCEPT !.row = members[p][v].id, !.role = role]
    <3>4. g \in Frame
      BY <3>3, <3>2 DEF Asked, Frame, KnownLink
    <3>5. NewFrame(g)
      BY <3>3, <3>4, <3>2 DEF Asked, NewFrame, FrameOK, Frame
    <3> QED
      BY <3>1, <3>5
  <2>3. CASE \E b \in BOOLEAN :
              Issue(r, [Ask("update", u, o) EXCEPT !.flag = b])
    <3> DEFINE f == Ask("update", u, o)
    <3>1. PICK b \in BOOLEAN : Issue(r, [f EXCEPT !.flag = b])
      BY <2>3
    <3>3. Asked(f, "update")
      BY <2>1 DEF AllOps
    <3> HIDE DEF f
    <3> DEFINE g == [f EXCEPT !.flag = b]
    <3>4. g \in Frame
      BY <3>3 DEF Asked, Frame, KnownLink
    <3>5. NewFrame(g)
      BY <3>3, <3>4, <1>0 DEF Asked, NewFrame, FrameOK, Frame
    <3> QED
      BY <3>1, <3>5
  <2>4. CASE Issue(r, Ask("remove", u, o))
    <3>1. Asked(Ask("remove", u, o), "remove")
      BY <2>1 DEF AllOps
    <3> QED
      BY <2>4, <3>1, <1>0 DEF Asked, NewFrame, FrameOK
  <2>5. CASE \E v \in Users :
              Issue(r, [Ask("removeMember", u, o) EXCEPT !.user = v])
    <3> DEFINE f == Ask("removeMember", u, o)
    <3>1. PICK v \in Users : Issue(r, [f EXCEPT !.user = v])
      BY <2>5
    <3>3. Asked(f, "removeMember")
      BY <2>1 DEF AllOps
    <3> HIDE DEF f
    <3> DEFINE g == [f EXCEPT !.user = v]
    <3>4. g \in Frame
      BY <3>3 DEF Asked, Frame, KnownLink
    <3>5. NewFrame(g)
      BY <3>3, <3>4, <1>0 DEF Asked, NewFrame, FrameOK, Frame
    <3> QED
      BY <3>1, <3>5
  <2>6. CASE \E role \in Roles, past \in BOOLEAN :
              Issue(r, [Ask("createInviteLink", u, o) EXCEPT !.role = role, !.flag = past])
    <3> DEFINE f == Ask("createInviteLink", u, o)
    <3>1. PICK role \in Roles, past \in BOOLEAN : Issue(r, [f EXCEPT !.role = role, !.flag = past])
      BY <2>6
    <3>3. Asked(f, "createInviteLink")
      BY <2>1 DEF AllOps
    <3> HIDE DEF f
    <3> DEFINE g == [f EXCEPT !.role = role, !.flag = past]
    <3>4. g \in Frame
      BY <3>3 DEF Asked, Frame, KnownLink
    <3>5. NewFrame(g)
      BY <3>3, <3>4, <1>0 DEF Asked, NewFrame, FrameOK, Frame
    <3> QED
      BY <3>1, <3>5
  <2>7. CASE \E l \in KnownLink :
              Issue(r, [Ask("revokeInviteLink", u, o) EXCEPT !.link = l])
    <3> DEFINE f == Ask("revokeInviteLink", u, o)
    <3>1. PICK l \in KnownLink : Issue(r, [f EXCEPT !.link = l])
      BY <2>7
    <3>3. Asked(f, "revokeInviteLink")
      BY <2>1 DEF AllOps
    <3> HIDE DEF f
    <3> DEFINE g == [f EXCEPT !.link = l]
    <3>4. g \in Frame
      BY <3>3 DEF Asked, Frame, KnownLink
    <3>5. NewFrame(g)
      BY <3>3, <3>4, <1>0 DEF Asked, NewFrame, FrameOK, Frame
    <3> QED
      BY <3>1, <3>5
  <2> QED
    BY <1>3, <2>2, <2>3, <2>4, <2>5, <2>6, <2>7, Zenon DEF CallAbout
<1> QED
  BY <1>1, <1>2, <1>3

-----------------------------------------------------------------------------
(***************************************************************************)
(* Steps that only change the request's own frame.                         *)
(***************************************************************************)
LEMMA FrameStep ==
  ASSUME OrgInv, NEW r \in Reqs, NEW g \in Frame, FrameOK(g),
         g.org # Null => g.org \in ExistingOrg,
         g.row \in Reqs => g.row \in Inserted,
         r \in Inserted => g.pc \in {"notify", "done"},
         g.op = "removeMember" /\ g.pc = "delete" =>
           \A o \in OrgIds, u \in Users :
             IsMember(u, o) /\ members[o][u].id = g.row => o = g.org /\ u = g.user,
         req' = [req EXCEPT ![r] = g], UNCHANGED <<orgs, members, links>>,
         fired' \subseteq Notice
  PROVE  OrgInv'
<1>1. OrgTypeOK'
  BY DEF OrgInv, OrgTypeOK, TablesOK
<1>2. \A q \in Reqs : req'[q] = IF q = r THEN g ELSE req[q]
  BY DEF OrgInv, OrgTypeOK
<1>3. ForeignKeys'
  BY <1>2 DEF OrgInv, ForeignKeys, IsMember, ExistingOrg, KnownLink
<1>4. FramesOK'
  BY <1>2 DEF OrgInv, FramesOK, FrameOK, ExistingOrg, KnownLink
<1>5. Inserted \subseteq Inserted'
  BY <1>2 DEF Inserted
<1>6. IdsTaken'
  BY <1>2, <1>5 DEF OrgInv, IdsTaken, ExistingOrg, KnownLink
<1>7. RowIdentity'
  BY DEF OrgInv, RowIdentity, IsMember
<1>8. RemovalTarget'
  BY <1>2 DEF OrgInv, RemovalTarget, IsMember, At
<1>9. UniqueSlugs'
  BY DEF OrgInv, UniqueSlugs, ExistingOrg
<1> QED
  BY <1>1, <1>3, <1>4, <1>6, <1>7, <1>8, <1>9 DEF OrgInv

(* An ended request's frame satisfies whatever the invariant asks of frames. *)
LEMMA DoneFrame ==
  ASSUME NEW r \in Reqs
  PROVE  /\ Done \in Frame /\ Done.pc = "done" /\ Done.op = "none" /\ Done.org = Null
         /\ Done.row = Null /\ Done.row \notin Reqs
BY IdAssumption DEF Done, Blank, Frame, PCs, OrgIds

(* A request that ends leaves the invariant alone. *)
LEMMA FinishStep ==
  ASSUME OrgInv, NEW r \in Reqs, Finish(r), UNCHANGED <<orgs, members, links>>,
         fired' \subseteq Notice
  PROVE  OrgInv'
<1>1. FrameOK(Done)
  BY DoneFrame DEF FrameOK
<1> QED
  BY <1>1, DoneFrame, FrameStep DEF Finish

(* So does a handler that goes on with what it has already read. *)
LEMMA GotoStep ==
  ASSUME OrgInv, NEW r \in Reqs, NEW pc \in PCs \ {"slug"}, Goto(r, pc),
         r \in Inserted => pc \in {"notify", "done"},
         req[r].op = "joinByToken" => req[r].pc # "link",
         req[r].op = "removeMember" => pc # "delete",
         UNCHANGED <<orgs, members, links, fired>>
  PROVE  OrgInv'
<1> DEFINE f == req[r]
           g == [f EXCEPT !.pc = pc]
<1>1. f \in Frame
  BY DEF OrgInv, OrgTypeOK
<1>2. g \in Frame
  BY <1>1 DEF Frame
<1>3. /\ g.pc = pc /\ g.op = f.op /\ g.by = f.by /\ g.org = f.org /\ g.user = f.user
      /\ g.row = f.row /\ g.link = f.link /\ g.role = f.role /\ g.slug = f.slug
  BY <1>1 DEF Frame
<1>4. FrameOK(f)
  BY DEF OrgInv, FramesOK
<1>5. req' = [req EXCEPT ![r] = g]
  BY DEF Goto
<1> HIDE DEF g
<1>6. FrameOK(g)
  BY <1>3, <1>4 DEF FrameOK
<1>7. g.org # Null => g.org \in ExistingOrg
  BY <1>3 DEF OrgInv, ForeignKeys
<1>8. g.row \in Reqs => g.row \in Inserted
  BY <1>3 DEF OrgInv, IdsTaken
<1>9. fired' \subseteq Notice
  BY DEF OrgInv, OrgTypeOK
<1> QED
  BY <1>2, <1>3, <1>5, <1>6, <1>7, <1>8, <1>9, FrameStep

(* A check either goes on or ends, so it keeps the invariant.              *)
LEMMA CheckStep ==
  ASSUME OrgInv, NEW r \in Reqs, NEW pc \in PCs \ {"slug"}, NEW ok \in BOOLEAN,
         Check(r, ok, pc), r \notin Inserted,
         req[r].op = "joinByToken" => req[r].pc # "link",
         req[r].op = "removeMember" => pc # "delete",
         UNCHANGED <<orgs, members, links, fired>>
  PROVE  OrgInv'
<1>1. CASE Finish(r)
  BY <1>1, FinishStep DEF OrgInv, OrgTypeOK
<1>2. CASE Goto(r, pc)
  BY <1>2, GotoStep
<1> QED
  BY <1>1, <1>2 DEF Check

(* Issuing a request keeps the invariant.                                  *)
LEMMA CallInv == ASSUME OrgInv, NEW r \in Reqs, Call(r) PROVE OrgInv'
<1>1. PICK f : NewFrame(f) /\ Issue(r, f)
  BY CallIssuesNewFrame
<1> QED
  BY <1>1, FrameStep DEF NewFrame, Issue, Inserted, OrgInv, OrgTypeOK

-----------------------------------------------------------------------------
(***************************************************************************)
(* Steps that write a table: organizations and links only come to exist,   *)
(* a link's organization and role stay, and a membership that is not the   *)
(* request's own insert is one that was there, with its id.                *)
(***************************************************************************)
OldRow(o, u) == IsMember(u, o) /\ members'[o][u].id = members[o][u].id

(* A frame no step moves stays right while organizations and links only grow. *)
LEMMA FrameKept ==
  ASSUME NEW f, FrameOK(f), ExistingOrg \subseteq ExistingOrg',
         \A l \in KnownLink : /\ l \in KnownLink'
                              /\ links'[l].org = links[l].org /\ links'[l].role = links[l].role
  PROVE  FrameOK(f)'
BY DEF FrameOK

(* Rows that keep their slugs keep them apart.                             *)
LEMMA SlugsStay ==
  ASSUME OrgInv, \A o \in OrgIds : orgs'[o].slug = orgs[o].slug
  PROVE  UniqueSlugs'
BY DEF OrgInv, UniqueSlugs, ExistingOrg

(* A step that ends or moves one request and writes tables keeps the       *)
(* invariant if the new rows do.                                           *)
LEMMA TableStep ==
  ASSUME OrgInv, OrgTypeOK', NEW r \in Reqs, r \notin Inserted,
         \/ Finish(r)
         \/ Goto(r, "notify") /\ req[r].op = "joinByToken" /\ req[r].pc # "link",
         ExistingOrg \subseteq ExistingOrg', ExistingOrg' \subseteq ExistingOrg \cup {r},
         KnownLink' \subseteq KnownLink \cup {r},
         \A l \in KnownLink : /\ l \in KnownLink'
                              /\ links'[l].org = links[l].org /\ links'[l].role = links[l].role,
         r \in KnownLink' => links'[r].org \in ExistingOrg /\ links'[r].role \in Roles,
         UniqueSlugs', NEW oo, NEW uu,
         \A o \in OrgIds, u \in Users : IsMember(u, o)' =>
           \/ OldRow(o, u)
           \/ members'[o][u].id = r /\ o \in ExistingOrg' /\ o = oo /\ u = uu
  PROVE  OrgInv'
<1> DEFINE f == req[r]
           g == req'[r]
<1>1. f \in Frame /\ req \in [Reqs -> Frame]
  BY DEF OrgInv, OrgTypeOK
<1>2. \A q \in Reqs : q # r => req'[q] = req[q]
  BY <1>1 DEF Finish, Goto
<1>3. g = Done \/ (g = [f EXCEPT !.pc = "notify"] /\ f.op = "joinByToken" /\ f.pc # "link")
  BY <1>1 DEF Finish, Goto
<1>4. g.pc \in {"notify", "done"} /\ g.row \in {f.row, Null} /\ g.org \in {f.org, Null}
  BY <1>1, <1>3, DoneFrame DEF Frame
<1>5. Inserted' = Inserted \cup {r}
  BY <1>2, <1>4 DEF Inserted
<1>6. Null \notin Reqs
  BY IdAssumption DEF OrgIds
<1>7. ForeignKeys'
  <2>1. \A o \in OrgIds, u \in Users : IsMember(u, o)' => o \in ExistingOrg'
    BY DEF OldRow, OrgInv, ForeignKeys
  <2>2. \A l \in KnownLink' : links'[l].org \in ExistingOrg' /\ links'[l].role \in Roles
    BY DEF OrgInv, ForeignKeys
  <2>3. \A q \in Reqs : req'[q].org # Null => req'[q].org \in ExistingOrg'
    BY <1>2, <1>4 DEF OrgInv, ForeignKeys
  <2> QED
    BY <2>1, <2>2, <2>3 DEF ForeignKeys
<1>8. FramesOK'
  <2>1. \A q \in Reqs : FrameOK(req[q])
    BY DEF OrgInv, FramesOK
  <2>2. ASSUME NEW q \in Reqs, q # r
        PROVE  FrameOK(req[q])'
    <3>1. \A h : FrameOK(h) => FrameOK(h)'
      BY FrameKept
    <3> QED
      BY <1>2, <2>1, <2>2 DEF FrameOK
  <2>3. FrameOK(req[r])'
    <3>1. CASE g = Done
      BY <3>1, DoneFrame DEF FrameOK
    <3>2. CASE g = [f EXCEPT !.pc = "notify"] /\ f.op = "joinByToken" /\ f.pc # "link"
      <4>1. g.op = "joinByToken" /\ g.by = f.by /\ g.org = f.org /\ g.link = f.link /\ g.role = f.role
        BY <1>1, <3>2 DEF Frame
      <4> QED
        BY <2>1, <3>2, <4>1 DEF FrameOK
    <3> QED
      BY <1>3, <3>1, <3>2
  <2> QED
    BY <2>2, <2>3 DEF FramesOK
<1>9. IdsTaken'
  <2>1. \A o \in OrgIds, u \in Users :
          members'[o][u].id \in Reqs => members'[o][u].id \in Inserted'
    <3> SUFFICES ASSUME NEW o \in OrgIds, NEW u \in Users, members'[o][u].id \in Reqs
                 PROVE  members'[o][u].id \in Inserted'
      OBVIOUS
    <3>1. IsMember(u, o)'
      BY <1>6 DEF IsMember, NoMember
    <3> QED
      BY <1>5, <3>1 DEF OldRow, OrgInv, IdsTaken
  <2>2. \A q \in Reqs : req'[q].row \in Reqs => req'[q].row \in Inserted'
    BY <1>2, <1>4, <1>5, <1>6 DEF OrgInv, IdsTaken
  <2> QED
    BY <1>5, <2>1, <2>2 DEF OrgInv, IdsTaken
<1>10. \A o \in OrgIds, u \in Users : members[o][u].id # r
  BY DEF OrgInv, IdsTaken
<1>11. RowIdentity'
  <2> SUFFICES ASSUME NEW o \in OrgIds, NEW p \in OrgIds, NEW u \in Users, NEW v \in Users,
                      IsMember(u, o)', members'[o][u].id = members'[p][v].id
               PROVE  o = p /\ u = v
    BY DEF RowIdentity
  <2>1. IsMember(v, p)'
    <3>1. members'[o][u].id # Null
      BY IdAssumption DEF OrgTypeOK, TablesOK, IsMember, MemberRow
    <3> QED
      BY <3>1 DEF IsMember, NoMember
  <2> QED
    BY <1>10, <2>1 DEF OldRow, OrgInv, RowIdentity
<1>12. RemovalTarget'
  <2> SUFFICES ASSUME NEW q \in Reqs, At(q, "removeMember", "delete")',
                      NEW o \in OrgIds, NEW u \in Users,
                      IsMember(u, o)', members'[o][u].id = req'[q].row
               PROVE  o = req'[q].org /\ u = req'[q].user
    BY DEF RemovalTarget
  <2>1. q # r
    BY <1>4 DEF At
  <2>2. req[q].row # r
    BY DEF OrgInv, IdsTaken
  <2> QED
    BY <1>2, <2>1, <2>2 DEF At, OldRow, OrgInv, RemovalTarget
<1> QED
  BY <1>7, <1>8, <1>9, <1>11, <1>12 DEF OrgInv

-----------------------------------------------------------------------------
(***************************************************************************)
(* Every action keeps the invariant.                                       *)
(***************************************************************************)
LEMMA CreateFindSlugInv == ASSUME OrgInv, NEW r \in Reqs, CreateFindSlug(r) PROVE OrgInv'
<1> DEFINE f == req[r]
<1>1. f \in Frame /\ FrameOK(f) /\ f.op = "create" /\ f.pc = "slug"
  BY DEF CreateFindSlug, At, OrgInv, OrgTypeOK, FramesOK
<1>2. PICK t \in Stamps :
        req' = [req EXCEPT ![r].pc = "insert",
                  ![r].slug = IF SlugTaken(req[r].slug) THEN <<req[r].slug, t>> ELSE @]
  BY DEF CreateFindSlug
<1>3. PICK s \in Slugs : req' = [req EXCEPT ![r].pc = "insert", ![r].slug = s]
  <2>1. f.slug \in Slugs /\ <<f.slug, t>> \in Slugs
    BY <1>1 DEF FrameOK, Slugs
  <2>2. CASE SlugTaken(req[r].slug)
    BY <1>2, <2>1, <2>2
  <2>3. CASE ~SlugTaken(req[r].slug)
    BY <1>2, <2>1, <2>3
  <2> QED
    BY <2>2, <2>3
<1> DEFINE g == [f EXCEPT !.pc = "insert", !.slug = s]
<1>4. req' = [req EXCEPT ![r] = g]
  BY <1>3 DEF OrgInv, OrgTypeOK
<1>5. g \in Frame /\ g.pc = "insert" /\ g.op = "create" /\ g.slug = s /\ g.by = f.by
      /\ g.org = f.org /\ g.row = f.row
  BY <1>1 DEF Frame, PCs
<1> HIDE DEF g
<1>6. FrameOK(g)
  BY <1>1, <1>5 DEF FrameOK
<1>7. g.org # Null => g.org \in ExistingOrg
  BY <1>5 DEF OrgInv, ForeignKeys
<1>8. g.row \in Reqs => g.row \in Inserted
  BY <1>5 DEF OrgInv, IdsTaken
<1>9. r \notin Inserted /\ fired \subseteq Notice
  BY <1>1 DEF Inserted, OrgInv, OrgTypeOK
<1> QED
  BY <1>4, <1>5, <1>6, <1>7, <1>8, <1>9, FrameStep DEF CreateFindSlug

(* The role checks keep the invariant: they move a frame they do not change. *)
LEMMA CheckCallerInv == ASSUME OrgInv, NEW r \in Reqs, CheckCaller(r) PROVE OrgInv'
<1>1. req[r].pc = "caller" /\ r \notin Inserted /\ UNCHANGED <<orgs, members, links, fired>>
  BY DEF CheckCaller, Inserted
<1>2. PICK ok \in BOOLEAN, pc \in {"write", "insert", "find"} : Check(r, ok, pc)
  <2> DEFINE admin == IsAdminOrOwner(req[r].by, req[r].org)
             owner == IsOwner(req[r].by, req[r].org)
  <2>1. admin \in BOOLEAN /\ owner \in BOOLEAN
    BY DEF IsAdminOrOwner, IsOwner
  <2>2. \/ Check(r, admin, "write") \/ Check(r, owner, "write")
        \/ Check(r, admin, "insert") \/ Check(r, admin, "find")
    BY DEF CheckCaller
  <2> HIDE DEF admin, owner
  <2> QED
    BY <2>1, <2>2
<1> QED
  BY <1>1, <1>2, CheckStep DEF PCs

(* removeMember's first two reads keep the invariant.                      *)
LEMMA RemoveMemberReadsInv ==
  ASSUME OrgInv, NEW r \in Reqs, RemoveMemberCaller(r) \/ RemoveMemberCount(r)
  PROVE  OrgInv'
<1>1. /\ req[r].pc \in {"caller", "count"} /\ req[r].op = "removeMember" /\ r \notin Inserted
      /\ UNCHANGED <<orgs, members, links, fired>>
  BY DEF RemoveMemberCaller, RemoveMemberCount, At, Inserted
<1>2. PICK ok \in BOOLEAN, pc \in {"count", "target"} : Check(r, ok, pc)
  BY DEF RemoveMemberCaller, RemoveMemberCount, Check
<1> QED
  BY <1>1, <1>2, CheckStep DEF PCs

(* removeMember's third read keeps the invariant: the row id it keeps is the *)
(* target's, and no other membership has it.                               *)
LEMMA RemoveMemberTargetInv == ASSUME OrgInv, NEW r \in Reqs, RemoveMemberTarget(r) PROVE OrgInv'
<1> DEFINE f == req[r]
           id == members[f.org][f.user].id
           g == [f EXCEPT !.pc = "delete", !.row = id]
<1>1. /\ f \in Frame /\ FrameOK(f) /\ f.op = "removeMember" /\ f.pc = "target"
      /\ r \notin Inserted /\ fired \subseteq Notice /\ UNCHANGED <<orgs, members, links, fired>>
  BY DEF RemoveMemberTarget, At, OrgInv, OrgTypeOK, FramesOK, Inserted
<1>2. CASE Finish(r)
  BY <1>1, <1>2, FinishStep
<1>3. CASE IsMember(f.user, f.org) /\ req' = [req EXCEPT ![r].pc = "delete", ![r].row = id]
  <2>1. f.org \in OrgIds /\ f.org \in ExistingOrg /\ f.user \in Users
    BY <1>1 DEF FrameOK, ExistingOrg
  <2>2. id \in MemberIds /\ (id \in Reqs => id \in Inserted)
    BY <1>3, <2>1 DEF OrgInv, OrgTypeOK, TablesOK, MemberRow, IsMember, IdsTaken
  <2>3. req' = [req EXCEPT ![r] = g]
    BY <1>3 DEF OrgInv, OrgTypeOK
  <2>4. g \in Frame /\ g.pc = "delete" /\ g.row = id /\ g.op = f.op /\ g.by = f.by
        /\ g.org = f.org /\ g.user = f.user
    BY <1>1, <2>2 DEF Frame, PCs
  <2>5. \A o \in OrgIds, u \in Users :
          IsMember(u, o) /\ members[o][u].id = id => o = f.org /\ u = f.user
    BY <2>1 DEF OrgInv, RowIdentity
  <2> HIDE DEF g, id
  <2>6. FrameOK(g)
    BY <1>1, <2>4 DEF FrameOK
  <2> QED
    BY <1>1, <2>1, <2>2, <2>3, <2>4, <2>5, <2>6, FrameStep
<1> QED
  BY <1>2, <1>3 DEF RemoveMemberTarget

(* revokeInviteLink's read keeps the invariant.                            *)
LEMMA RevokeInviteLinkFindInv ==
  ASSUME OrgInv, NEW r \in Reqs, RevokeInviteLinkFind(r) PROVE OrgInv'
<1>1. /\ req[r].pc = "find" /\ req[r].op = "revokeInviteLink" /\ r \notin Inserted
      /\ UNCHANGED <<orgs, members, links, fired>>
  BY DEF RevokeInviteLinkFind, At, Inserted
<1>2. PICK ok \in BOOLEAN : Check(r, ok, "delete")
  BY DEF RevokeInviteLinkFind
<1> QED
  BY <1>1, <1>2, CheckStep DEF PCs

(* joinByToken's read keeps the invariant: the frame holds the link's      *)
(* organization and role.                                                  *)
LEMMA JoinReadLinkInv == ASSUME OrgInv, NEW r \in Reqs, JoinReadLink(r) PROVE OrgInv'
<1> DEFINE f == req[r]
           l == links[f.link]
           g == [f EXCEPT !.pc = "existing", !.org = l.org, !.role = l.role]
<1>1. /\ f \in Frame /\ FrameOK(f) /\ f.op = "joinByToken" /\ f.pc = "link"
      /\ r \notin Inserted /\ fired \subseteq Notice /\ UNCHANGED <<orgs, members, links, fired>>
  BY DEF JoinReadLink, At, OrgInv, OrgTypeOK, FramesOK, Inserted
<1>2. CASE Finish(r)
  BY <1>1, <1>2, FinishStep
<1>3. CASE req' = [req EXCEPT ![r].pc = "existing", ![r].org = l.org, ![r].role = l.role]
  <2>1. f.link \in KnownLink /\ l.org \in ExistingOrg /\ l.org \in OrgIds /\ l.role \in Roles
    BY <1>1 DEF FrameOK, OrgInv, ForeignKeys, ExistingOrg
  <2>2. req' = [req EXCEPT ![r] = g]
    BY <1>3 DEF OrgInv, OrgTypeOK
  <2>3. g \in Frame /\ g.pc = "existing" /\ g.op = f.op /\ g.by = f.by
        /\ g.org = l.org /\ g.role = l.role /\ g.link = f.link /\ g.row = f.row
    BY <1>1, <2>1 DEF Frame, PCs
  <2> HIDE DEF g
  <2>4. FrameOK(g)
    BY <1>1, <2>1, <2>3 DEF FrameOK
  <2>5. g.row \in Reqs => g.row \in Inserted
    BY <2>3 DEF OrgInv, IdsTaken
  <2> QED
    BY <1>1, <2>1, <2>2, <2>3, <2>4, <2>5, FrameStep
<1> QED
  BY <1>2, <1>3 DEF JoinReadLink

(* joinByToken's membership check keeps the invariant.                     *)
LEMMA JoinCheckMemberInv == ASSUME OrgInv, NEW r \in Reqs, JoinCheckMember(r) PROVE OrgInv'
<1>1. /\ req[r].pc = "existing" /\ req[r].op = "joinByToken" /\ r \notin Inserted
      /\ UNCHANGED <<orgs, members, links, fired>>
  BY DEF JoinCheckMember, At, Inserted
<1>2. PICK ok \in BOOLEAN : Check(r, ok, "tx")
  BY DEF JoinCheckMember, IsMember
<1> QED
  BY <1>1, <1>2, CheckStep DEF PCs

(* Notifying the administrators keeps the invariant.                       *)
LEMMA JoinNotifyInv == ASSUME OrgInv, NEW r \in Reqs, JoinNotify(r) PROVE OrgInv'
<1>1. fired' \subseteq Notice
  BY DEF JoinNotify, OrgInv, OrgTypeOK, Notice, Admins
<1> QED
  BY <1>1, FinishStep DEF JoinNotify

(* A request that fails keeps the invariant.                               *)
LEMMA AbortInv == ASSUME OrgInv, NEW r \in Reqs, Abort(r) PROVE OrgInv'
BY FinishStep DEF Abort, OrgInv, OrgTypeOK

(* updateMemberRole's write keeps the invariant: no id moves.              *)
LEMMA UpdateMemberRoleInv == ASSUME OrgInv, NEW r \in Reqs, UpdateMemberRole(r) PROVE OrgInv'
<1> DEFINE f == req[r]
<1>1. f.row \in MemberIds /\ f.role \in Roles /\ r \notin Inserted
  BY DEF UpdateMemberRole, At, OrgInv, FramesOK, FrameOK, Inserted
<1>2. fired' \subseteq Notice
  BY DEF UpdateMemberRole, OrgInv, OrgTypeOK, Notice
<1>3. OrgTypeOK'
  <2>1. members' \in [OrgIds -> [Users -> MemberRow \cup {NoMember}]]
    BY <1>1 DEF UpdateMemberRole, SetRoleById, OrgInv, OrgTypeOK, TablesOK, MemberRow
  <2>2. req' \in [Reqs -> Frame]
    BY DoneFrame DEF UpdateMemberRole, Finish, OrgInv, OrgTypeOK
  <2> QED
    BY <1>2, <2>1, <2>2 DEF UpdateMemberRole, OrgInv, OrgTypeOK, TablesOK
<1>4. ASSUME NEW o \in OrgIds, NEW u \in Users, IsMember(u, o)'
      PROVE  OldRow(o, u)
  <2>1. members'[o][u] = IF members[o][u].id = f.row THEN [id |-> f.row, role |-> f.role]
                                                     ELSE members[o][u]
    BY DEF UpdateMemberRole, SetRoleById
  <2>2. NoMember.id = Null /\ Null \notin MemberIds
    BY IdAssumption DEF NoMember
  <2> QED
    BY <1>1, <1>4, <2>1, <2>2 DEF OldRow, IsMember
<1>5. UniqueSlugs'
  BY SlugsStay DEF UpdateMemberRole
<1> QED
  BY <1>1, <1>3, <1>4, <1>5, TableStep DEF UpdateMemberRole, ExistingOrg, KnownLink, OrgInv, IdsTaken

(* An organization row keeps its slug whatever is updated. *)
LEMMA OrganizationWritesInv ==
  ASSUME OrgInv, NEW r \in Reqs, Update(r) \/ Remove(r)
  PROVE  OrgInv'
<1>1. /\ Finish(r) /\ UNCHANGED <<members, links, fired>> /\ r \notin Inserted
      /\ req[r].org \in ExistingOrg /\ req[r] \in Frame
  BY DEF Update, Remove, At, OrgInv, OrgTypeOK, FramesOK, FrameOK, Inserted
<1>2. PICK row \in OrgRow : /\ orgs' = [orgs EXCEPT ![req[r].org] = row]
                            /\ row.slug = orgs[req[r].org].slug
  <2> DEFINE o == req[r].org
  <2>1. orgs[o] \in OrgRow /\ o \in OrgIds /\ req[r].flag \in BOOLEAN
    BY <1>1 DEF OrgInv, OrgTypeOK, TablesOK, ExistingOrg, Frame
  <2>2. CASE Update(r)
    <3> DEFINE row == [orgs[o] EXCEPT !.isActive = req[r].flag]
    <3>1. row \in OrgRow /\ row.slug = orgs[o].slug
      BY <2>1 DEF OrgRow
    <3>2. orgs' = [orgs EXCEPT ![o] = row]
      BY <2>2 DEF Update, OrgInv, OrgTypeOK, TablesOK
    <3> QED
      BY <3>1, <3>2
  <2>3. CASE Remove(r)
    <3> DEFINE row == [orgs[o] EXCEPT !.isActive = FALSE, !.deleted = TRUE]
    <3>1. row \in OrgRow /\ row.slug = orgs[o].slug
      BY <2>1 DEF OrgRow
    <3>2. orgs' = [orgs EXCEPT ![o] = row]
      BY <2>3 DEF Remove, OrgInv, OrgTypeOK, TablesOK
    <3> QED
      BY <3>1, <3>2
  <2> QED
    BY <2>2, <2>3
<1>3. ExistingOrg' = ExistingOrg
  BY <1>2 DEF ExistingOrg, OrgInv, OrgTypeOK, TablesOK
<1>4. OrgTypeOK'
  BY <1>1, <1>2, DoneFrame DEF Finish, OrgInv, OrgTypeOK, TablesOK
<1>5. \A o \in OrgIds, u \in Users : IsMember(u, o)' => OldRow(o, u)
  BY <1>1 DEF OldRow, IsMember
<1>6. UniqueSlugs'
  BY <1>1, <1>2, SlugsStay DEF OrgInv, OrgTypeOK, TablesOK
<1> QED
  BY <1>1, <1>3, <1>4, <1>5, <1>6, TableStep DEF KnownLink, OrgInv, IdsTaken

(* removeMember's delete keeps the invariant: rows only disappear.         *)
LEMMA RemoveMemberDeleteInv == ASSUME OrgInv, NEW r \in Reqs, RemoveMemberDelete(r) PROVE OrgInv'
<1>1. r \notin Inserted
  BY DEF RemoveMemberDelete, At, Inserted
<1>2. OrgTypeOK'
  <2>1. members' \in [OrgIds -> [Users -> MemberRow \cup {NoMember}]]
    BY DEF RemoveMemberDelete, DeleteMemberById, OrgInv, OrgTypeOK, TablesOK
  <2> QED
    BY <2>1, DoneFrame DEF RemoveMemberDelete, Finish, OrgInv, OrgTypeOK, TablesOK
<1>3. \A o \in OrgIds, u \in Users : IsMember(u, o)' => OldRow(o, u)
  BY DEF RemoveMemberDelete, DeleteMemberById, OldRow, IsMember
<1>4. UniqueSlugs'
  BY SlugsStay DEF RemoveMemberDelete
<1> QED
  BY <1>1, <1>2, <1>3, <1>4, TableStep DEF RemoveMemberDelete, ExistingOrg, KnownLink, OrgInv, IdsTaken

(* create's insert keeps the invariant: its ids are the request's, not taken. *)
LEMMA CreateInsertInv == ASSUME OrgInv, NEW r \in Reqs, CreateInsert(r) PROVE OrgInv'
<1> DEFINE f == req[r]
<1>1. /\ f.by \in Users /\ f.slug \in Slugs /\ r \notin Inserted /\ r \in OrgIds
      /\ r \in MemberIds /\ "OWNER" \in Roles /\ Finish(r) /\ UNCHANGED <<links, fired>>
  BY RolesAssumption DEF CreateInsert, At, OrgInv, FramesOK, FrameOK, Inserted, OrgIds, MemberIds,
     AdminRoles
<1>2. CASE UNCHANGED <<orgs, members>>
  BY <1>1, <1>2, FinishStep DEF OrgInv, OrgTypeOK
<1>3. CASE /\ ~SlugTaken(f.slug)
           /\ orgs' = [orgs EXCEPT ![r] =
                         [slug |-> f.slug, isActive |-> TRUE, deleted |-> FALSE]]
           /\ InsertMember(r, f.by, r, "OWNER")
  <2>1. orgs \in [OrgIds -> OrgRow] /\ members \in [OrgIds -> [Users -> MemberRow \cup {NoMember}]]
    BY DEF OrgInv, OrgTypeOK, TablesOK
  <2>2. members' \in [OrgIds -> [Users -> MemberRow \cup {NoMember}]]
    BY <1>1, <1>3, WritesKeepMembers DEF OrgInv, OrgTypeOK
  <2>3. orgs' \in [OrgIds -> OrgRow]
    BY <1>1, <1>3, <2>1 DEF OrgRow
  <2>4. OrgTypeOK'
    BY <1>1, <2>2, <2>3, DoneFrame DEF Finish, OrgInv, OrgTypeOK, TablesOK
  <2>5. ExistingOrg' = ExistingOrg \cup {r}
    BY <1>1, <1>3, <2>1, IdAssumption DEF ExistingOrg
  <2>6. \A o \in OrgIds, u \in Users : IsMember(u, o)' =>
          OldRow(o, u) \/ (members'[o][u].id = r /\ o \in ExistingOrg' /\ o = r /\ u = f.by)
    <3>1. members'[r][f.by] = [id |-> r, role |-> "OWNER"]
      BY <1>1, <1>3, <2>1 DEF InsertMember
    <3>2. \A o \in OrgIds, u \in Users : o # r \/ u # f.by => members'[o][u] = members[o][u]
      BY <1>1, <1>3, <2>1 DEF InsertMember
    <3> QED
      BY <2>5, <3>1, <3>2 DEF OldRow, IsMember
  <2>7. /\ KnownLink' = KnownLink /\ r \notin KnownLink
        /\ \A l \in KnownLink : links'[l].org = links[l].org /\ links'[l].role = links[l].role
    BY <1>1 DEF KnownLink, OrgInv, IdsTaken
  <2> DEFINE u0 == f.by
  <2> HIDE DEF u0
  <2>8. \A o \in OrgIds, u \in Users : IsMember(u, o)' =>
          OldRow(o, u) \/ (members'[o][u].id = r /\ o \in ExistingOrg' /\ o = r /\ u = u0)
    BY <2>6 DEF u0
  <2>9. UniqueSlugs'
    <3>1. /\ orgs'[r].slug = f.slug
          /\ \A o \in OrgIds : o # r => orgs'[o] = orgs[o] /\ orgs[o].slug # f.slug
      BY <1>1, <1>3, <2>1 DEF SlugTaken
    <3> QED
      BY <1>1, <3>1 DEF OrgInv, UniqueSlugs, ExistingOrg
  <2> QED
    BY <1>1, <2>4, <2>5, <2>7, <2>8, <2>9, TableStep
<1> QED
  BY <1>2, <1>3 DEF CreateInsert

(* createInviteLink's insert keeps the invariant.                          *)
LEMMA CreateInviteLinkInv == ASSUME OrgInv, NEW r \in Reqs, CreateInviteLink(r) PROVE OrgInv'
<1> DEFINE f == req[r]
<1>1. /\ f.org \in ExistingOrg /\ f.org \in OrgIds /\ f.role \in Roles /\ f.flag \in BOOLEAN
      /\ r \notin Inserted /\ r \in LinkIds /\ Finish(r) /\ UNCHANGED <<orgs, members, fired>>
  BY DEF CreateInviteLink, At, OrgInv, OrgTypeOK, FramesOK, FrameOK, Frame, Inserted, LinkIds, ExistingOrg
<1>2. links \in [LinkIds -> LinkRow]
  BY DEF OrgInv, OrgTypeOK
<1>3. links' = [links EXCEPT ![r] =
                  [state |-> "open", org |-> f.org, role |-> f.role, expired |-> f.flag]]
  BY DEF CreateInviteLink
<1>4. links' \in [LinkIds -> LinkRow]
  BY <1>1, <1>2, <1>3 DEF LinkRow
<1>5. OrgTypeOK'
  BY <1>1, <1>4, DoneFrame DEF Finish, OrgInv, OrgTypeOK, TablesOK
<1>6. r \notin KnownLink
  BY <1>1 DEF OrgInv, IdsTaken
<1>7. KnownLink' = KnownLink \cup {r} /\ \A l \in LinkIds : l # r => links'[l] = links[l]
  BY <1>1, <1>2, <1>3 DEF KnownLink
<1>8. links'[r].org = f.org /\ links'[r].role = f.role
  BY <1>1, <1>2, <1>3
<1>9. \A l \in KnownLink : /\ l \in KnownLink'
                           /\ links'[l].org = links[l].org /\ links'[l].role = links[l].role
  BY <1>6, <1>7 DEF KnownLink
<1>10. \A o \in OrgIds, u \in Users : IsMember(u, o)' => OldRow(o, u)
  BY <1>1 DEF OldRow, IsMember
<1>11. UniqueSlugs'
  BY <1>1, SlugsStay
<1> QED
  BY <1>1, <1>5, <1>7, <1>8, <1>9, <1>10, <1>11, TableStep DEF ExistingOrg

(* A write to a link's state leaves its organization and role. *)
LEMMA LinkStateWritten ==
  ASSUME OrgInv, NEW l \in KnownLink, NEW s \in {"used", "gone"},
         links' = [links EXCEPT ![l].state = s]
  PROVE  /\ links' \in [LinkIds -> LinkRow] /\ KnownLink' = KnownLink
         /\ \A k \in KnownLink : links'[k].org = links[k].org /\ links'[k].role = links[k].role
<1>1. links \in [LinkIds -> LinkRow] /\ l \in LinkIds
  BY DEF OrgInv, OrgTypeOK, KnownLink
<1> QED
  BY <1>1 DEF LinkRow, KnownLink

(* revokeInviteLink's delete keeps the invariant.                          *)
LEMMA RevokeInviteLinkDeleteInv ==
  ASSUME OrgInv, NEW r \in Reqs, RevokeInviteLinkDelete(r) PROVE OrgInv'
<1>1. /\ req[r].link \in KnownLink /\ r \notin Inserted /\ Finish(r)
      /\ UNCHANGED <<orgs, members, fired>>
      /\ links' = [links EXCEPT ![req[r].link].state = "gone"]
  BY DEF RevokeInviteLinkDelete, At, OrgInv, FramesOK, FrameOK, Inserted
<1>2. /\ links' \in [LinkIds -> LinkRow] /\ KnownLink' = KnownLink
      /\ \A k \in KnownLink : links'[k].org = links[k].org /\ links'[k].role = links[k].role
  BY <1>1, LinkStateWritten
<1>3. OrgTypeOK'
  BY <1>1, <1>2, DoneFrame DEF Finish, OrgInv, OrgTypeOK, TablesOK
<1>4. \A o \in OrgIds, u \in Users : IsMember(u, o)' => OldRow(o, u)
  BY <1>1 DEF OldRow, IsMember
<1>5. UniqueSlugs'
  BY <1>1, SlugsStay
<1> QED
  BY <1>1, <1>2, <1>3, <1>4, <1>5, TableStep DEF ExistingOrg, OrgInv, IdsTaken

(* joinByToken's transaction keeps the invariant: the new row's id is the  *)
(* request's, not taken.                                                   *)
LEMMA JoinTransactionInv == ASSUME OrgInv, NEW r \in Reqs, JoinTransaction(r) PROVE OrgInv'
<1> DEFINE f == req[r]
<1>1. /\ f.op = "joinByToken" /\ f.pc = "tx" /\ f.by \in Users /\ f.link \in KnownLink
      /\ f.org = links[f.link].org /\ f.role = links[f.link].role
      /\ r \notin Inserted /\ r \in MemberIds /\ UNCHANGED <<orgs, fired>>
  BY DEF JoinTransaction, At, OrgInv, FramesOK, FrameOK, Inserted, MemberIds
<1>2. f.org \in ExistingOrg /\ f.org \in OrgIds /\ f.role \in Roles
  BY <1>1 DEF OrgInv, ForeignKeys, ExistingOrg
<1>3. CASE Finish(r) /\ UNCHANGED <<members, links>>
  BY <1>1, <1>3, FinishStep DEF OrgInv, OrgTypeOK
<1>4. CASE /\ InsertMember(r, f.by, f.org, f.role)
           /\ links' = [links EXCEPT ![f.link].state = "used"]
           /\ Goto(r, "notify")
  <2>1. members \in [OrgIds -> [Users -> MemberRow \cup {NoMember}]]
    BY DEF OrgInv, OrgTypeOK, TablesOK
  <2>2. members' \in [OrgIds -> [Users -> MemberRow \cup {NoMember}]]
    BY <1>1, <1>2, <1>4, WritesKeepMembers DEF OrgInv, OrgTypeOK
  <2>3. /\ links' \in [LinkIds -> LinkRow] /\ KnownLink' = KnownLink /\ r \notin KnownLink
        /\ \A k \in KnownLink : links'[k].org = links[k].org /\ links'[k].role = links[k].role
    BY <1>1, <1>4, LinkStateWritten DEF OrgInv, IdsTaken
  <2>4. req' \in [Reqs -> Frame]
    BY <1>4, StepsKeepFrames DEF OrgInv, OrgTypeOK, PCs
  <2>5. OrgTypeOK'
    BY <1>1, <2>2, <2>3, <2>4 DEF OrgInv, OrgTypeOK, TablesOK
  <2>6. ExistingOrg' = ExistingOrg
    BY <1>1 DEF ExistingOrg
  <2> DEFINE oo == f.org
             uu == f.by
  <2>7. \A o \in OrgIds, u \in Users : IsMember(u, o)' =>
          OldRow(o, u) \/ (members'[o][u].id = r /\ o \in ExistingOrg' /\ o = oo /\ u = uu)
    <3>1. members'[f.org][f.by] = [id |-> r, role |-> f.role]
      BY <1>1, <1>2, <1>4, <2>1 DEF InsertMember
    <3>2. \A o \in OrgIds, u \in Users : o # oo \/ u # uu => members'[o][u] = members[o][u]
      BY <1>1, <1>2, <1>4, <2>1 DEF InsertMember
    <3> QED
      BY <1>2, <2>6, <3>1, <3>2 DEF OldRow, IsMember
  <2>8. UniqueSlugs'
    BY <1>1, SlugsStay
  <2> HIDE DEF oo, uu
  <2> QED
    BY <1>1, <1>4, <2>3, <2>5, <2>6, <2>7, <2>8, TableStep
<1> QED
  BY <1>3, <1>4 DEF JoinTransaction

(* The clock keeps the invariant.                                          *)
LEMMA LinkExpiresInv == ASSUME OrgInv, NEW l \in LinkIds, LinkExpires(l) PROVE OrgInv'
<1>1. links \in [LinkIds -> LinkRow] /\ links' = [links EXCEPT ![l].expired = TRUE]
      /\ UNCHANGED <<orgs, members, req, fired>>
  BY DEF LinkExpires, OrgInv, OrgTypeOK
<1>2. links' \in [LinkIds -> LinkRow]
  BY <1>1 DEF LinkRow
<1>3. /\ KnownLink' = KnownLink /\ ExistingOrg' = ExistingOrg /\ Inserted' = Inserted
      /\ \A k \in LinkIds : links'[k].org = links[k].org /\ links'[k].role = links[k].role
  BY <1>1 DEF LinkRow, KnownLink, ExistingOrg, Inserted
<1>4. OrgTypeOK'
  BY <1>1, <1>2 DEF OrgInv, OrgTypeOK, TablesOK
<1>5. ForeignKeys'
  BY <1>1, <1>3 DEF OrgInv, ForeignKeys, IsMember, KnownLink
<1>6. FramesOK'
  <2>1. \A h : FrameOK(h) => FrameOK(h)'
    BY <1>3, FrameKept DEF KnownLink
  <2> QED
    BY <1>1, <2>1 DEF OrgInv, FramesOK
<1>7. IdsTaken'
  BY <1>1, <1>3 DEF OrgInv, IdsTaken
<1>8. RowIdentity' /\ UniqueSlugs' /\ RemovalTarget'
  BY <1>1 DEF OrgInv, RowIdentity, UniqueSlugs, RemovalTarget, IsMember, At, ExistingOrg
<1> QED
  BY <1>4, <1>5, <1>6, <1>7, <1>8 DEF OrgInv

(* The invariant speaks of the variables only.                             *)
LEMMA StutterInv == ASSUME OrgInv, UNCHANGED orgVars PROVE OrgInv'
BY DEF orgVars, OrgInv, OrgTypeOK, TablesOK, ForeignKeys, FramesOK, FrameOK, IdsTaken, Inserted,
       RowIdentity, UniqueSlugs, RemovalTarget, IsMember, At, KnownLink, ExistingOrg

(* Every step keeps the invariant.                                         *)
LEMMA StepInv == OrgInv /\ [OrgNext]_orgVars => OrgInv'
<1> SUFFICES ASSUME OrgInv, [OrgNext]_orgVars PROVE OrgInv'
  OBVIOUS
<1>1. ASSUME NEW r \in Reqs, Handler(r)
      PROVE  OrgInv'
  BY <1>1, CreateFindSlugInv, CreateInsertInv, CheckCallerInv, UpdateMemberRoleInv,
     OrganizationWritesInv, RemoveMemberReadsInv, RemoveMemberTargetInv, RemoveMemberDeleteInv,
     CreateInviteLinkInv, RevokeInviteLinkFindInv, RevokeInviteLinkDeleteInv, JoinReadLinkInv,
     JoinCheckMemberInv, JoinTransactionInv, JoinNotifyInv
     DEF Handler
<1>2. ASSUME NEW r \in Reqs, Call(r) \/ Abort(r)
      PROVE  OrgInv'
  BY <1>2, CallInv, AbortInv
<1>3. ASSUME NEW l \in LinkIds, LinkExpires(l)
      PROVE  OrgInv'
  BY <1>3, LinkExpiresInv
<1>4. CASE UNCHANGED orgVars
  BY <1>4, StutterInv
<1> QED
  BY <1>1, <1>2, <1>3, <1>4 DEF OrgNext

(* The invariant holds initially.                                          *)
LEMMA InitInv == OrgInit => OrgInv
<1> SUFFICES ASSUME OrgInit PROVE OrgInv
  OBVIOUS
<1>1. OrgTypeOK
  BY InitType
<1>2. req = [r \in Reqs |-> Blank] /\ Blank.pc = "new" /\ Blank.op = "none"
      /\ Blank.org = Null /\ Blank.row = Null
  BY DEF OrgInit, Blank
<1>3. Null \notin Reqs /\ Null \notin SeedOrgs /\ Null \notin Slugs /\ Names \subseteq Slugs
      /\ SeedOrgs \cap Reqs = {} /\ (SeedOrgs \X Users) \cap Reqs = {} /\ SeedLinks \cap Reqs = {}
  BY IdAssumption, LinkAssumption DEF OrgIds, Slugs
<1>4. ExistingOrg = SeedOrgs
  BY <1>3 DEF OrgInit, TablesInit, ExistingOrg, OrgIds, NoOrg
<1>5. \A o \in OrgIds, u \in Users :
        \/ members[o][u] = NoMember
        \/ o \in SeedOrgs /\ members[o][u].id = <<o, u>>
  <2>1. PICK role \in [SeedOrgs \X Users -> Roles \cup {"NONE"}] : members = SeedMembers(role)
    BY DEF OrgInit, TablesInit
  <2> QED
    BY <2>1 DEF SeedMembers
<1>6. KnownLink \subseteq SeedLinks /\ \A l \in KnownLink :
        links[l].org \in SeedOrgs /\ links[l].role \in Roles
  BY DEF OrgInit, KnownLink, NoLink, LinkIds
<1>7. ForeignKeys
  BY <1>2, <1>4, <1>5, <1>6 DEF ForeignKeys, IsMember
<1>8. FramesOK
  BY <1>2 DEF FramesOK, FrameOK
<1>9. IdsTaken
  <2>1. ASSUME NEW o \in OrgIds, NEW u \in Users
        PROVE  members[o][u].id \notin Reqs
    <3>1. CASE members[o][u] = NoMember
      BY <1>3, <3>1 DEF NoMember
    <3>2. CASE o \in SeedOrgs /\ members[o][u].id = <<o, u>>
      <4>1. <<o, u>> \in SeedOrgs \X Users
        BY <3>2
      <4> QED
        BY <1>3, <3>2, <4>1
    <3> QED
      BY <1>5, <3>1, <3>2
  <2> QED
    BY <1>2, <1>3, <1>4, <1>6, <2>1 DEF IdsTaken
<1>10. RowIdentity
  <2> SUFFICES ASSUME NEW o \in OrgIds, NEW p \in OrgIds, NEW u \in Users, NEW v \in Users,
                      IsMember(u, o), members[o][u].id = members[p][v].id
               PROVE  o = p /\ u = v
    BY DEF RowIdentity
  <2>1. members[o][u].id = <<o, u>> /\ o \in SeedOrgs
    BY <1>5 DEF IsMember
  <2>2. members[o][u].id # Null
    <3>1. <<o, u>> \in MemberIds
      BY <2>1 DEF MemberIds
    <3> QED
      BY <2>1, <3>1, IdAssumption
  <2>3. members[p][v].id = <<p, v>>
    BY <1>5, <2>2 DEF NoMember
  <2>4. <<o, u>> = <<p, v>>
    BY <2>1, <2>3
  <2> QED
    BY <2>4
<1>11. RemovalTarget
  BY <1>2 DEF RemovalTarget, At
<1>12. UniqueSlugs
  <2>1. PICK slug \in [SeedOrgs -> Names] :
          /\ \A a, b \in SeedOrgs : slug[a] = slug[b] => a = b
          /\ \A o \in SeedOrgs : orgs[o].slug = slug[o]
    BY DEF OrgInit, TablesInit, OrgIds
  <2> QED
    BY <1>4, <2>1 DEF UniqueSlugs
<1> QED
  BY <1>1, <1>7, <1>8, <1>9, <1>10, <1>11, <1>12 DEF OrgInv

-----------------------------------------------------------------------------
(***************************************************************************)
(* What the four writers of organization_members do to its rows.           *)
(***************************************************************************)
MemberWriter(r) ==
  CreateInsert(r) \/ UpdateMemberRole(r) \/ RemoveMemberDelete(r) \/ JoinTransaction(r)

(* Four steps write memberships; all others leave the table alone.         *)
LEMMA OnlyWritersWrite ==
  OrgNext => UNCHANGED members \/ \E r \in Reqs : MemberWriter(r)
<1> SUFFICES ASSUME OrgNext PROVE UNCHANGED members \/ \E r \in Reqs : MemberWriter(r)
  OBVIOUS
<1>1. ASSUME NEW r \in Reqs, Call(r)
      PROVE  UNCHANGED members
  <2>1. \A f : Issue(r, f) => UNCHANGED members
    BY DEF Issue
  <2> QED
    BY <1>1, <2>1 DEF Call, OwnCall, CallAbout
<1>2. ASSUME NEW r \in Reqs, Handler(r), ~MemberWriter(r)
      PROVE  UNCHANGED members
  BY <1>2 DEF MemberWriter, Handler, CreateFindSlug, CheckCaller, Update, Remove, RemoveMemberCaller,
     RemoveMemberCount, RemoveMemberTarget, CreateInviteLink, RevokeInviteLinkFind,
     RevokeInviteLinkDelete, JoinReadLink, JoinCheckMember, JoinNotify
<1>3. ASSUME NEW r \in Reqs, Abort(r)
      PROVE  UNCHANGED members
  BY <1>3 DEF Abort
<1>4. ASSUME NEW l \in LinkIds, LinkExpires(l)
      PROVE  UNCHANGED members
  BY <1>4 DEF LinkExpires
<1> QED
  BY <1>1, <1>2, <1>3, <1>4 DEF OrgNext

(* create puts its OWNER into an organization that did not exist before. *)
LEMMA CreateRows ==
  ASSUME OrgInv, NEW r \in Reqs, CreateInsert(r), NEW o \in OrgIds, NEW u \in Users
  PROVE  \/ members'[o][u] = members[o][u]
         \/ o \notin ExistingOrg /\ ~IsMember(u, o) /\ IsMember(u, o)'
<1>1. r \notin ExistingOrg /\ r \in OrgIds
  BY DEF CreateInsert, At, OrgInv, IdsTaken, Inserted, OrgIds
<1>2. \A v \in Users : ~IsMember(v, r)
  BY <1>1 DEF OrgInv, ForeignKeys
<1>3. members \in [OrgIds -> [Users -> MemberRow \cup {NoMember}]] /\ "NONE" # "OWNER"
  BY DEF OrgInv, OrgTypeOK, TablesOK
<1>4. CASE UNCHANGED members
  BY <1>4
<1>5. CASE InsertMember(r, req[r].by, r, "OWNER")
  <2>1. CASE o = r /\ u = req[r].by
    BY <1>1, <1>2, <1>3, <1>5, <2>1 DEF InsertMember, IsMember, NoMember
  <2>2. CASE o # r \/ u # req[r].by
    BY <1>3, <1>5, <2>2 DEF InsertMember
  <2> QED
    BY <2>1, <2>2
<1> QED
  BY <1>4, <1>5 DEF CreateInsert

(* joinByToken's transaction adds one row, of its link. *)
LEMMA JoinRows ==
  ASSUME OrgInv, NEW r \in Reqs, JoinTransaction(r), NEW o \in OrgIds, NEW u \in Users
  PROVE  \/ members'[o][u] = members[o][u]
         \/ /\ ~IsMember(u, o) /\ IsMember(u, o)'
            /\ \E l \in LinkIds : /\ LinkExists(l) /\ links[l].org = o
                                  /\ links[l].role = members'[o][u].role
                                  /\ links'[l].state = "used"
<1> DEFINE f == req[r]
<1>1. /\ f.link \in KnownLink /\ f.org = links[f.link].org /\ f.role = links[f.link].role
      /\ f.org \in OrgIds /\ f.role \in Roles /\ "NONE" \notin Roles
  BY RolesAssumption
     DEF JoinTransaction, At, OrgInv, FramesOK, FrameOK, ForeignKeys, ExistingOrg, AllRoles
<1>2. members \in [OrgIds -> [Users -> MemberRow \cup {NoMember}]] /\ links \in [LinkIds -> LinkRow]
  BY DEF OrgInv, OrgTypeOK, TablesOK
<1>3. CASE UNCHANGED members
  BY <1>3
<1>4. CASE /\ ~IsMember(f.by, f.org) /\ LinkExists(f.link)
           /\ InsertMember(r, f.by, f.org, f.role)
           /\ links' = [links EXCEPT ![f.link].state = "used"]
  <2>1. CASE o = f.org /\ u = f.by
    <3>1. members'[o][u] = [id |-> r, role |-> f.role]
      BY <1>1, <1>2, <1>4, <2>1 DEF InsertMember
    <3>2. IsMember(u, o)'
      BY <1>1, <3>1 DEF IsMember, NoMember
    <3>3. f.link \in LinkIds /\ links'[f.link].state = "used"
      BY <1>1, <1>2, <1>4 DEF KnownLink, LinkRow
    <3> QED
      BY <1>1, <1>4, <2>1, <3>1, <3>2, <3>3
  <2>2. CASE o # f.org \/ u # f.by
    BY <1>2, <1>4, <2>2 DEF InsertMember
  <2> QED
    BY <2>1, <2>2
<1> QED
  BY <1>3, <1>4 DEF JoinTransaction

(* updateMemberRole keeps every row where it is. *)
LEMMA RoleRows ==
  ASSUME OrgInv, NEW r \in Reqs, UpdateMemberRole(r), NEW o \in OrgIds, NEW u \in Users
  PROVE  \/ members'[o][u] = members[o][u]
         \/ /\ At(r, "updateMemberRole", "write") /\ req[r].row = members[o][u].id
            /\ members'[o][u] = [id |-> req[r].row, role |-> req[r].role]
            /\ IsMember(u, o) /\ IsMember(u, o)'
<1>1. /\ req[r].row \in MemberIds /\ req[r].role \in Roles /\ At(r, "updateMemberRole", "write")
      /\ "NONE" \notin Roles /\ Null \notin MemberIds
  BY RolesAssumption, IdAssumption
     DEF UpdateMemberRole, At, OrgInv, FramesOK, FrameOK, AllRoles
<1>2. members'[o][u] = IF members[o][u].id = req[r].row
                       THEN [id |-> req[r].row, role |-> req[r].role] ELSE members[o][u]
  BY DEF UpdateMemberRole, SetRoleById
<1>3. CASE members[o][u].id = req[r].row
  BY <1>1, <1>2, <1>3 DEF IsMember, NoMember
<1> QED
  BY <1>2, <1>3

(* removeMember clears one row, the target's. *)
LEMMA RemovalRows ==
  ASSUME OrgInv, NEW r \in Reqs, RemoveMemberDelete(r), NEW o \in OrgIds, NEW u \in Users
  PROVE  \/ members'[o][u] = members[o][u]
         \/ /\ members'[o][u] = NoMember /\ At(r, "removeMember", "delete")
            /\ req[r].row = members[o][u].id
            /\ IsMember(u, o) => req[r].org = o /\ req[r].user = u
BY DEF RemoveMemberDelete, DeleteMemberById, OrgInv, RemovalTarget

(* So a row that a step changes is one of four kinds. *)
LEMMA ChangedRow ==
  ASSUME OrgInv, NEW r \in Reqs, MemberWriter(r), NEW o \in OrgIds, NEW u \in Users,
         members'[o][u] # members[o][u]
  PROVE  \/ o \notin ExistingOrg /\ ~IsMember(u, o) /\ IsMember(u, o)'
         \/ /\ ~IsMember(u, o) /\ IsMember(u, o)'
            /\ \E l \in LinkIds : /\ LinkExists(l) /\ links[l].org = o
                                  /\ links[l].role = members'[o][u].role
                                  /\ links'[l].state = "used"
         \/ /\ At(r, "updateMemberRole", "write") /\ req[r].row = members[o][u].id
            /\ members'[o][u] = [id |-> req[r].row, role |-> req[r].role]
            /\ IsMember(u, o) /\ IsMember(u, o)'
         \/ /\ members'[o][u] = NoMember /\ At(r, "removeMember", "delete")
            /\ req[r].row = members[o][u].id
            /\ IsMember(u, o) => req[r].org = o /\ req[r].user = u
<1>1. CASE CreateInsert(r)
  BY <1>1, CreateRows
<1>2. CASE JoinTransaction(r)
  BY <1>2, JoinRows
<1>3. CASE UpdateMemberRole(r)
  BY <1>3, RoleRows
<1>4. CASE RemoveMemberDelete(r)
  BY <1>4, RemovalRows
<1> QED
  BY <1>1, <1>2, <1>3, <1>4 DEF MemberWriter

(* The action properties hold of each of the four.                         *)
LEMMA WriterSteps ==
  ASSUME OrgInv, NEW r \in Reqs, MemberWriter(r)
  PROVE  RemovalHitsTarget /\ RoleChangeHitsRow /\ JoinerComesThroughLink
<1>1. ASSUME NEW o \in OrgIds, NEW u \in Users, IsMember(u, o), members'[o][u] = NoMember
      PROVE  /\ At(r, "removeMember", "delete")
             /\ req[r].org = o /\ req[r].user = u /\ req[r].row = members[o][u].id
  BY <1>1, ChangedRow DEF IsMember
<1>2. ASSUME NEW o \in OrgIds, NEW u \in Users,
             IsMember(u, o), IsMember(u, o)', members'[o][u] # members[o][u]
      PROVE  /\ At(r, "updateMemberRole", "write") /\ req[r].row = members[o][u].id
             /\ members'[o][u] = [id |-> req[r].row, role |-> req[r].role]
  BY <1>2, ChangedRow DEF IsMember
<1>3. ASSUME NEW o \in ExistingOrg, NEW u \in Users, ~IsMember(u, o), IsMember(u, o)'
      PROVE  \E l \in LinkIds : /\ LinkExists(l) /\ links[l].org = o
                                /\ links[l].role = members'[o][u].role
                                /\ links'[l].state = "used"
  <2>1. o \in OrgIds /\ members'[o][u] # members[o][u] /\ members'[o][u] # NoMember
    BY <1>3 DEF IsMember, ExistingOrg
  <2> QED
    BY <1>3, <2>1, ChangedRow
<1> QED
  BY <1>1, <1>2, <1>3 DEF RemovalHitsTarget, RoleChangeHitsRow, JoinerComesThroughLink

(* Hence of every step.                                                    *)
LEMMA MemberSteps ==
  OrgInv /\ [OrgNext]_orgVars =>
    [RemovalHitsTarget /\ RoleChangeHitsRow /\ JoinerComesThroughLink]_orgVars
<1> SUFFICES ASSUME OrgInv, OrgNext
             PROVE  RemovalHitsTarget /\ RoleChangeHitsRow /\ JoinerComesThroughLink
  OBVIOUS
<1>1. CASE UNCHANGED members
  BY <1>1 DEF RemovalHitsTarget, RoleChangeHitsRow, JoinerComesThroughLink, IsMember
<1>2. CASE \E r \in Reqs : MemberWriter(r)
  BY <1>2, WriterSteps
<1> QED
  BY <1>1, <1>2, OnlyWritersWrite

-----------------------------------------------------------------------------
(***************************************************************************)
(* The theorems.                                                           *)
(***************************************************************************)

(* Whatever requests clients issue and however their database calls        *)
(* interleave, the tables and the frames keep their types and the          *)
(* relations the handlers rely on.                                         *)
THEOREM Invariance == OrgSpec => []OrgInv
<1> QED
  BY InitInv, StepInv, PTL DEF OrgSpec

(* OrgTypeOK for every set of users, requests, organizations and links: what *)
(* the handlers keep across awaits stays a row id, a role, a link.         *)
THEOREM TypeCorrect == OrgSpec => []OrgTypeOK
<1>1. OrgInv => OrgTypeOK
  BY DEF OrgInv
<1> QED
  BY <1>1, Invariance, PTL

(* removeMember, for any number of concurrent requests: the row a request  *)
(* deletes is its target's, and the one it read.                           *)
THEOREM RemovalsHitTheirTarget == OrgSpec => RemovalHitsOnlyTarget
<1> QED
  BY Invariance, MemberSteps, PTL DEF OrgSpec, RemovalHitsOnlyTarget

(* updateMemberRole: only the named row changes, and only its role. *)
THEOREM RoleChangesHitTheirRow == OrgSpec => RoleChangeKeepsRow
<1> QED
  BY Invariance, MemberSteps, PTL DEF OrgSpec, RoleChangeKeepsRow

(* joinByToken is the only way into an existing organization here, and it  *)
(* never admits through a link that is not there.                          *)
THEOREM LinksAdmitJoiners == OrgSpec => JoinersComeThroughLinks
<1> QED
  BY Invariance, MemberSteps, PTL DEF OrgSpec, JoinersComeThroughLinks

-----------------------------------------------------------------------------
(***************************************************************************)
(* Requests about one organization take turns (Exclusive); a role change   *)
(* is about the organization of its URL and about the row's.               *)
(***************************************************************************)
Managed == {"updateMemberRole", "update", "remove", "removeMember",
            "createInviteLink", "revokeInviteLink"}

(* Which handlers make the calls that write, and which name a link. *)
Place(pc, f) ==
  /\ f.op \notin {"revokeInviteLink", "joinByToken"} => f.link = Null
  /\ pc = "write"  => f.op \in {"updateMemberRole", "update", "remove"}
  /\ pc = "insert" => f.op \in {"create", "createInviteLink"}
  /\ pc = "delete" => f.op \in {"removeMember", "revokeInviteLink"}

ScopeIn(f, L) == IF f.link # Null THEN L[f.link].org ELSE f.org

(* Where the membership is that a row id names.                              *)
RowOrgs(id, M) == {o \in OrgIds : \E v \in Users : M[o][v] # NoMember /\ M[o][v].id = id}

(* What a handler at call pc has checked, and is so in the tables M and L of *)
(* members and links: its caller is an administrator or leaves, the link it  *)
(* revokes is its organization's, an owner who leaves is not the only one,   *)
(* the link of a join is open.  Of the row a role change names it has        *)
(* checked nothing.                                                          *)
Verified(pc, f, M, L) ==
  /\ f.op \in Managed /\ pc \in {"write", "insert", "find", "count", "target", "delete"}
       /\ ScopeIn(f, L) = f.org =>
       M[f.org][f.by].role \in AdminRoles \/ (f.op = "removeMember" /\ f.by = f.user)
  /\ f.op = "revokeInviteLink" /\ pc = "delete" => ScopeIn(f, L) = f.org
  /\ f.op = "removeMember" /\ pc \in {"target", "delete"} /\ f.by = f.user
       /\ M[f.org][f.by].role = "OWNER" =>
       \E v, w \in Users : v # w /\ M[f.org][v].role = "OWNER" /\ M[f.org][w].role = "OWNER"
  /\ f.op = "joinByToken" /\ pc \in {"existing", "tx"} => L[f.link].state = "open"

AInv ==
  /\ \A r \in Reqs : Place(req[r].pc, req[r]) /\ Verified(req[r].pc, req[r], members, links)
  /\ \A q, r \in Reqs :
       q # r /\ InFlight(q) /\ InFlight(r) => Scope(req[q]) \cap Scope(req[r]) = {}

(* What a step of request r about scope S may touch: rows and links of the   *)
(* scope; a row it inserts has its id.                                       *)
Reach(r, S) ==
  /\ \A o \in ExistingOrg : o \notin S => \A u \in Users : members'[o][u] = members[o][u]
  /\ \A o \in OrgIds, u \in Users :
       members'[o][u] # NoMember =>
         \/ members[o][u] # NoMember /\ members'[o][u].id = members[o][u].id
         \/ members'[o][u].id = r /\ r \notin Inserted
  /\ \A l \in KnownLink :
       /\ links'[l].org = links[l].org
       /\ links'[l].state = links[l].state \/ links[l].org \in S

(* A step of request r. *)
Moves(r) ==
  /\ InFlight(r) /\ Reach(r, Scope(req[r]))
  /\ \A q \in Reqs : q # r => req'[q] = req[q]
  /\ \/ req'[r] = Done
     \/ /\ req'[r].link = req[r].link
        /\ req[r].link = Null => req'[r].org = req[r].org
        /\ RowOrgs(req'[r].row, members') \subseteq Scope(req[r])
  /\ Place(req'[r].pc, req'[r]) /\ Verified(req'[r].pc, req'[r], members', links')

(* A step that writes nothing reaches nothing. *)
LEMMA ReadsReach ==
  ASSUME UNCHANGED <<members, links>>, NEW r, NEW S
  PROVE  Reach(r, S)
BY DEF Reach

(* The organizations a frame is about, and its link. *)
LEMMA Named ==
  ASSUME OrgInv, AInv, NEW q \in Reqs
  PROVE  /\ req[q].link # Null => req[q].link \in KnownLink
         /\ req[q].op \in {"joinByToken", "revokeInviteLink"} =>
              req[q].link \in KnownLink /\ req[q].link # Null
         /\ req[q].op \in Managed => req[q].org \in ExistingOrg /\ req[q].by \in Users
         /\ req[q].op \in Managed \ {"revokeInviteLink"} => ScopeIn(req[q], links) = req[q].org
         /\ Scope(req[q]) = {ScopeIn(req[q], links)} \cup RowOrgs(req[q].row, members)
         /\ Scope(req[q])' = {ScopeIn(req'[q], links')} \cup RowOrgs(req'[q].row, members')
<1> DEFINE f == req[q]
<1>1. FrameOK(f) /\ Place(f.pc, f)
  BY DEF OrgInv, FramesOK, AInv
<1> QED
  BY <1>1, LinkAssumption DEF FrameOK, Place, Managed, KnownLink, Scope, ScopeIn, RowOrgs, IsMember

(* No step puts a row that a frame names into another organization.          *)
LEMMA RowsStay ==
  ASSUME OrgInv, NEW r \in Reqs, NEW S, Reach(r, S), NEW q \in Reqs
  PROVE  RowOrgs(req[q].row, members') \subseteq RowOrgs(req[q].row, members)
<1> SUFFICES ASSUME NEW o \in OrgIds, NEW v \in Users,
                    members'[o][v] # NoMember, members'[o][v].id = req[q].row
             PROVE  members[o][v] # NoMember /\ members[o][v].id = req[q].row
  BY DEF RowOrgs
<1>1. req[q].row = r => r \in Inserted
  BY DEF OrgInv, IdsTaken
<1> QED
  BY <1>1 DEF Reach

(* A frame that a step about another scope leaves where it is. *)
LEMMA OtherVerified ==
  ASSUME OrgInv, AInv, NEW r \in Reqs, NEW S, Reach(r, S),
         NEW q \in Reqs, InFlight(q), Scope(req[q]) \cap S = {}
  PROVE  /\ Verified(req[q].pc, req[q], members', links')
         /\ ScopeIn(req[q], links') = ScopeIn(req[q], links)
<1> DEFINE f == req[q]
           s == ScopeIn(f, links)
<1>1. Verified(f.pc, f, members, links) /\ Place(f.pc, f) /\ s \notin S
  BY Named DEF OrgInv, AInv
<1>2. ScopeIn(f, links') = s
  BY Named DEF Reach, ScopeIn
<1>3. f.op \in Managed /\ s = f.org =>
        f.org \in ExistingOrg /\ f.by \in Users /\ \A u \in Users : members'[f.org][u] = members[f.org][u]
  BY <1>1, Named DEF Reach
<1>4. f.op = "removeMember" => f.op \in Managed /\ s = f.org
  BY Named DEF Managed
<1>5. f.op = "joinByToken" /\ f.pc \in {"existing", "tx"} => links'[f.link].state = "open"
  BY <1>1, Named DEF Verified, Reach, ScopeIn
<1> HIDE DEF f
<1>7. Verified(f.pc, f, members', links')
  BY <1>1, <1>2, <1>3, <1>4, <1>5 DEF Verified
<1> QED
  BY <1>2, <1>7 DEF f

(* Every step of a request keeps what the others have checked. *)
LEMMA MovesKeeps ==
  ASSUME OrgInv, AInv, NEW r \in Reqs, Moves(r)
  PROVE  AInv'
<1> DEFINE S == Scope(req[r])
<1>1. InFlight(r) /\ Reach(r, S)
  BY DEF Moves
<1>2. ASSUME NEW q \in Reqs, q # r
      PROVE  /\ Place(req'[q].pc, req'[q]) /\ Verified(req'[q].pc, req'[q], members', links')
             /\ InFlight(q)' => InFlight(q) /\ Scope(req[q])' \subseteq Scope(req[q])
  <2>1. req'[q] = req[q] /\ Place(req[q].pc, req[q])
    BY <1>2 DEF Moves, AInv
  <2>2. CASE InFlight(q)
    <3>1. Scope(req[q]) \cap S = {}
      BY <1>1, <1>2, <2>2 DEF AInv
    <3>2. /\ Verified(req[q].pc, req[q], members', links')
          /\ ScopeIn(req[q], links') = ScopeIn(req[q], links)
      BY <1>1, <2>2, <3>1, OtherVerified
    <3>3. Scope(req[q])' \subseteq Scope(req[q])
      BY <1>1, <2>1, <3>2, Named, RowsStay
    <3> QED
      BY <2>1, <2>2, <3>2, <3>3
  <2>3. CASE ~InFlight(q)
    <3>1. Verified(req[q].pc, req[q], members', links')
      BY <2>3 DEF InFlight, Verified
    <3> QED
      BY <2>1, <2>3, <3>1 DEF InFlight
  <2> QED
    BY <2>1, <2>2, <2>3
<1>3. InFlight(r)' => Scope(req[r])' \subseteq S
  <2> SUFFICES ASSUME InFlight(r)' PROVE Scope(req[r])' \subseteq S
    OBVIOUS
  <2>1. req'[r] # Done
    BY DEF InFlight, Done, Blank
  <2>2. /\ req'[r].link = req[r].link /\ (req[r].link = Null => req'[r].org = req[r].org)
        /\ RowOrgs(req'[r].row, members') \subseteq S
    BY <2>1 DEF Moves
  <2>3. req[r].link # Null => links'[req[r].link].org = links[req[r].link].org
    BY <1>1, Named DEF Reach
  <2>4. ScopeIn(req'[r], links') = ScopeIn(req[r], links)
    BY <2>2, <2>3 DEF ScopeIn
  <2> QED
    BY <2>2, <2>4, Named
<1>4. \A p, q \in Reqs : p # q /\ InFlight(p)' /\ InFlight(q)' => Scope(req[p])' \cap Scope(req[q])' = {}
  <2> SUFFICES ASSUME NEW p \in Reqs, NEW q \in Reqs, p # q, InFlight(p)', InFlight(q)'
               PROVE  Scope(req[p])' \cap Scope(req[q])' = {}
    OBVIOUS
  <2>1. InFlight(p) /\ InFlight(q)
    BY <1>1, <1>2
  <2>2. Scope(req[p])' \subseteq Scope(req[p]) /\ Scope(req[q])' \subseteq Scope(req[q])
    BY <1>2, <1>3
  <2> QED
    BY <2>1, <2>2 DEF AInv
<1>5. \A q \in Reqs : Place(req'[q].pc, req'[q]) /\ Verified(req'[q].pc, req'[q], members', links')
  BY <1>2 DEF Moves
<1> QED
  BY <1>4, <1>5 DEF AInv

(* A handler that ends. *)
LEMMA EndMoves ==
  ASSUME OrgInv, NEW r \in Reqs, InFlight(r), Finish(r), Reach(r, Scope(req[r]))
  PROVE  Moves(r)
<1>1. req'[r] = Done /\ \A q \in Reqs : q # r => req'[q] = req[q]
  BY DEF Finish, OrgInv, OrgTypeOK
<1>2. Place(Done.pc, Done) /\ Verified(Done.pc, Done, members', links')
  BY DEF Place, Verified, Done, Blank, Managed
<1> QED
  BY <1>1, <1>2 DEF Moves

(* A handler that goes on with what it holds. *)
LEMMA GotoMoves ==
  ASSUME OrgInv, AInv, NEW r \in Reqs, InFlight(r), NEW pc \in PCs, Goto(r, pc), Reach(r, Scope(req[r])),
         Place(pc, req[r]), Verified(pc, req[r], members', links')
  PROVE  Moves(r)
<1> DEFINE g == req[r]
           h == [g EXCEPT !.pc = pc]
<1>1. req'[r] = h /\ g \in Frame /\ \A q \in Reqs : q # r => req'[q] = req[q]
  BY DEF Goto, OrgInv, OrgTypeOK
<1>2. /\ Place(pc, g) /\ Verified(pc, g, members', links')
      /\ RowOrgs(g.row, members') \subseteq Scope(g)
  BY Named, RowsStay
<1> HIDE DEF g
<1>3. /\ h.pc = pc /\ h.op = g.op /\ h.by = g.by /\ h.org = g.org /\ h.user = g.user
      /\ h.row = g.row /\ h.link = g.link
  BY <1>1 DEF Frame
<1> HIDE DEF h
<1>4. Place(h.pc, h) /\ Verified(h.pc, h, members', links')
  BY <1>2, <1>3 DEF Place, Verified, ScopeIn
<1> QED
  BY <1>1, <1>2, <1>3, <1>4 DEF Moves, g

(* A check that reads the tables. *)
LEMMA CheckMoves ==
  ASSUME OrgInv, AInv, NEW r \in Reqs, InFlight(r), NEW pc \in PCs, NEW ok, Check(r, ok, pc),
         UNCHANGED <<members, links>>,
         ok => Place(pc, req[r]) /\ Verified(pc, req[r], members, links)
  PROVE  Moves(r)
<1>1. Reach(r, Scope(req[r]))
  BY ReadsReach
<1>2. CASE ok
  BY <1>1, <1>2, GotoMoves DEF Check
<1>3. CASE ~ok
  BY <1>1, <1>3, EndMoves DEF Check
<1> QED
  BY <1>2, <1>3
(* The reads before the writes. *)
LEMMA CheckCallerMoves ==
  ASSUME OrgInv, AInv, NEW r \in Reqs, CheckCaller(r)
  PROVE  Moves(r)
<1> DEFINE f == req[r]
<1>1. /\ f.pc = "caller" /\ InFlight(r) /\ UNCHANGED <<members, links>>
      /\ Place(f.pc, f) /\ Verified(f.pc, f, members, links)
  BY DEF CheckCaller, InFlight, AInv
<1>2. \/ f.op = "update" /\ Check(r, IsAdminOrOwner(f.by, f.org), "write")
      \/ f.op = "updateMemberRole" /\ Check(r, IsAdminOrOwner(f.by, f.org), "write")
      \/ f.op = "remove" /\ Check(r, IsOwner(f.by, f.org), "write")
      \/ f.op = "createInviteLink" /\ Check(r, IsAdminOrOwner(f.by, f.org), "insert")
      \/ f.op = "revokeInviteLink" /\ Check(r, IsAdminOrOwner(f.by, f.org), "find")
  BY DEF CheckCaller
<1>3. ASSUME NEW pc \in {"write", "insert", "find"}, Place(pc, f), f.op # "removeMember",
             f.op # "joinByToken", NEW ok, Check(r, ok, pc), ok => IsAdminOrOwner(f.by, f.org)
      PROVE  Moves(r)
  <2>1. ok => Verified(pc, f, members, links)
    BY <1>1, <1>3 DEF Verified, IsAdminOrOwner
  <2>2. pc \in PCs
    BY DEF PCs
  <2> QED
    BY <1>1, <1>3, <2>1, <2>2, CheckMoves
<1>4. IsOwner(f.by, f.org) => IsAdminOrOwner(f.by, f.org)
  BY DEF IsOwner, IsAdminOrOwner, AdminRoles
<1>5. /\ f.op \in {"update", "updateMemberRole", "remove"} => Place("write", f)
      /\ f.op = "createInviteLink" => Place("insert", f)
      /\ f.op = "revokeInviteLink" => Place("find", f)
  BY <1>1 DEF Place
<1> QED
  BY <1>2, <1>3, <1>4, <1>5

LEMMA RemovalReadsMove ==
  ASSUME OrgInv, AInv, NEW r \in Reqs, RemoveMemberCaller(r) \/ RemoveMemberCount(r)
  PROVE  Moves(r)
<1> DEFINE f == req[r]
<1>1. /\ f.op = "removeMember" /\ f.pc \in {"caller", "count"} /\ InFlight(r) /\ UNCHANGED <<members, links>>
      /\ Place(f.pc, f) /\ Verified(f.pc, f, members, links) /\ Reach(r, Scope(f))
  BY ReadsReach DEF RemoveMemberCaller, RemoveMemberCount, At, InFlight, AInv
<1>2. CASE RemoveMemberCaller(r)
  <2>1. CASE Finish(r)
    BY <1>1, <2>1, EndMoves
  <2>2. CASE ~Finish(r)
    <3> DEFINE pc == IF f.by = f.user /\ IsOwner(f.by, f.org) THEN "count" ELSE "target"
    <3>1. Goto(r, pc) /\ (f.by = f.user \/ IsAdminOrOwner(f.by, f.org))
      BY <1>2, <2>2 DEF RemoveMemberCaller
    <3>2. pc \in PCs /\ Place(pc, f)
      BY <1>1 DEF PCs, Place
    <3>3. Verified(pc, f, members, links)
      BY <1>1, <3>1 DEF Verified, IsAdminOrOwner, IsOwner
    <3> QED
      BY <1>1, <3>1, <3>2, <3>3, GotoMoves
  <2> QED
    BY <2>1, <2>2
<1>3. CASE RemoveMemberCount(r)
  <2> DEFINE ok == \E v, w \in Owners(f.org) : v # w
  <2>1. f.pc = "count" /\ Check(r, ok, "target") /\ "target" \in PCs /\ Place("target", f)
    BY <1>1, <1>3 DEF RemoveMemberCount, At, PCs, Place
  <2>2. ok => Verified("target", f, members, links)
    BY <1>1, <2>1 DEF Verified, Owners, IsOwner
  <2> QED
    BY <1>1, <2>1, <2>2, CheckMoves
<1> QED
  BY <1>2, <1>3

LEMMA RemovalTargetMoves ==
  ASSUME OrgInv, AInv, NEW r \in Reqs, RemoveMemberTarget(r)
  PROVE  Moves(r)
<1> DEFINE f == req[r]
           k == [f EXCEPT !.pc = "delete"]
           h == [k EXCEPT !.row = members[f.org][f.user].id]
<1>1. /\ f.op = "removeMember" /\ f.pc = "target" /\ InFlight(r) /\ UNCHANGED <<members, links>>
      /\ Place(f.pc, f) /\ Verified(f.pc, f, members, links) /\ Reach(r, Scope(f)) /\ f \in Frame
  BY ReadsReach DEF RemoveMemberTarget, At, InFlight, AInv, OrgInv, OrgTypeOK
<1>2. CASE Finish(r)
  BY <1>1, <1>2, EndMoves
<1>3. CASE ~Finish(r)
  <2>1. req'[r] = h /\ \A q \in Reqs : q # r => req'[q] = req[q]
    BY <1>3 DEF RemoveMemberTarget, OrgInv, OrgTypeOK
  <2>2. /\ k.pc = "delete" /\ k.op = f.op /\ k.by = f.by /\ k.org = f.org /\ k.user = f.user
        /\ k.link = f.link
        /\ h.pc = k.pc /\ h.op = k.op /\ h.by = k.by /\ h.org = k.org /\ h.user = k.user
        /\ h.link = k.link
    <3> HIDE DEF f
    <3> QED
      BY <1>1 DEF Frame
  <2>4. RowOrgs(h.row, members') \subseteq Scope(f)
    <3>1. h.row = members[f.org][f.user].id /\ IsMember(f.user, f.org)
      <4>1. IsMember(f.user, f.org)
        BY <1>3 DEF RemoveMemberTarget
      <4> HIDE DEF f
      <4> QED
        BY <1>1, <4>1 DEF Frame
    <3>2. f.org \in Scope(f) /\ f.org \in OrgIds /\ f.user \in Users
      BY <1>1, Named DEF Managed, OrgInv, FramesOK, FrameOK, ExistingOrg
    <3>3. \A o \in OrgIds, v \in Users :
            members[o][v] # NoMember /\ members[o][v].id = members[f.org][f.user].id => o = f.org
      BY <3>2 DEF OrgInv, RowIdentity, IsMember
    <3> HIDE DEF f, h
    <3> QED
      BY <1>1, <3>1, <3>2, <3>3 DEF RowOrgs
  <2> HIDE DEF h, k, f
  <2>3. Place(h.pc, h) /\ Verified(h.pc, h, members', links')
    BY <1>1, <2>2 DEF Place, Verified, ScopeIn
  <2> QED
    BY <1>1, <2>1, <2>2, <2>3, <2>4 DEF Moves, f
<1> QED
  BY <1>2, <1>3

LEMMA LinkReadsMove ==
  ASSUME OrgInv, AInv, NEW r \in Reqs, RevokeInviteLinkFind(r) \/ JoinCheckMember(r)
  PROVE  Moves(r)
<1> DEFINE f == req[r]
<1>1. /\ InFlight(r) /\ UNCHANGED <<members, links>>
      /\ Place(f.pc, f) /\ Verified(f.pc, f, members, links)
  BY DEF RevokeInviteLinkFind, JoinCheckMember, At, InFlight, AInv
<1>2. CASE RevokeInviteLinkFind(r)
  <2> DEFINE ok == LinkExists(f.link) /\ links[f.link].org = f.org
  <2>1. f.op = "revokeInviteLink" /\ f.pc = "find" /\ Check(r, ok, "delete") /\ "delete" \in PCs
    BY <1>2 DEF RevokeInviteLinkFind, At, PCs
  <2>2. f.link # Null /\ Place("delete", f)
    BY <1>1, <2>1, Named DEF Place
  <2>3. ok => Verified("delete", f, members, links)
    BY <1>1, <2>1, <2>2 DEF Verified, ScopeIn, Managed
  <2> QED
    BY <1>1, <2>1, <2>2, <2>3, CheckMoves
<1>3. CASE JoinCheckMember(r)
  <2> DEFINE ok == ~IsMember(f.by, f.org)
  <2>1. f.op = "joinByToken" /\ f.pc = "existing" /\ Check(r, ok, "tx") /\ "tx" \in PCs
    BY <1>3 DEF JoinCheckMember, At, PCs
  <2>2. Place("tx", f) /\ Verified("tx", f, members, links)
    BY <1>1, <2>1 DEF Place, Verified, Managed
  <2> QED
    BY <1>1, <2>1, <2>2, CheckMoves
<1> QED
  BY <1>2, <1>3

LEMMA JoinReadMoves ==
  ASSUME OrgInv, AInv, NEW r \in Reqs, JoinReadLink(r)
  PROVE  Moves(r)
<1> DEFINE f == req[r]
           l == links[f.link]
           j == [f EXCEPT !.pc = "existing"]
           k == [j EXCEPT !.org = l.org]
           h == [k EXCEPT !.role = l.role]
<1>1. /\ f.op = "joinByToken" /\ f.pc = "link" /\ InFlight(r) /\ UNCHANGED <<members, links>>
      /\ Reach(r, Scope(f)) /\ f \in Frame /\ f.link # Null
  BY ReadsReach, Named DEF JoinReadLink, At, InFlight, AInv, OrgInv, OrgTypeOK
<1>2. CASE Finish(r)
  BY <1>1, <1>2, EndMoves
<1>3. CASE ~Finish(r)
  <2>1. req'[r] = h /\ l.state = "open" /\ \A q \in Reqs : q # r => req'[q] = req[q]
    BY <1>3 DEF JoinReadLink, OrgInv, OrgTypeOK
  <2>2. h.pc = "existing" /\ h.op = f.op /\ h.link = f.link /\ h.row = f.row
    <3> HIDE DEF f, l
    <3>1. j.pc = "existing" /\ j.op = f.op /\ j.link = f.link /\ j.row = f.row
      BY <1>1 DEF Frame
    <3>2. k.pc = j.pc /\ k.op = j.op /\ k.link = j.link /\ k.row = j.row
      BY <1>1 DEF Frame
    <3>3. h.pc = k.pc /\ h.op = k.op /\ h.link = k.link /\ h.row = k.row
      BY <1>1 DEF Frame
    <3> QED
      BY <3>1, <3>2, <3>3
  <2> HIDE DEF h
  <2>3. links'[h.link].state = "open"
    BY <1>1, <2>1, <2>2
  <2>4. Place(h.pc, h) /\ Verified(h.pc, h, members', links')
    BY <1>1, <2>2, <2>3 DEF Place, Verified, Managed
  <2>5. RowOrgs(h.row, members') \subseteq Scope(f)
    BY <1>1, <2>2, Named
  <2> QED
    BY <1>1, <2>1, <2>2, <2>4, <2>5 DEF Moves
<1> QED
  BY <1>2, <1>3

LEMMA CreateFindMoves ==
  ASSUME OrgInv, AInv, NEW r \in Reqs, CreateFindSlug(r)
  PROVE  Moves(r)
<1> DEFINE f == req[r]
<1>1. /\ f.op = "create" /\ f.pc = "slug" /\ InFlight(r) /\ UNCHANGED <<members, links>>
      /\ Place(f.pc, f) /\ Reach(r, Scope(f)) /\ f \in Frame
      /\ RowOrgs(f.row, members') \subseteq Scope(f)
  BY ReadsReach, Named DEF CreateFindSlug, At, InFlight, AInv, OrgInv, OrgTypeOK
<1>2. PICK t \in Stamps :
        req' = [req EXCEPT ![r].pc = "insert",
                  ![r].slug = IF SlugTaken(f.slug) THEN <<f.slug, t>> ELSE @]
  BY DEF CreateFindSlug
<1> DEFINE sl == IF SlugTaken(f.slug) THEN <<f.slug, t>> ELSE f.slug
           k  == [f EXCEPT !.pc = "insert"]
           h  == [k EXCEPT !.slug = sl]
<1>3. req'[r] = h /\ \A q \in Reqs : q # r => req'[q] = req[q]
  BY <1>1, <1>2 DEF OrgInv, OrgTypeOK, Frame
<1> HIDE DEF f, sl
<1>4. /\ k.pc = "insert" /\ k.op = f.op /\ k.link = f.link /\ k.org = f.org /\ k.row = f.row
      /\ h.pc = k.pc /\ h.op = k.op /\ h.link = k.link /\ h.org = k.org /\ h.row = k.row
  BY <1>1 DEF Frame
<1> HIDE DEF h, k
<1>5. Place(h.pc, h) /\ Verified(h.pc, h, members', links')
  BY <1>1, <1>4 DEF Place, Verified, Managed
<1> QED
  BY <1>1, <1>3, <1>4, <1>5 DEF Moves, f
-----------------------------------------------------------------------------
(* The writes, each within the request's organizations. *)
LEMMA QuietEnds ==
  ASSUME OrgInv, AInv, NEW r \in Reqs, Update(r) \/ Remove(r) \/ JoinNotify(r) \/ Abort(r)
  PROVE  Moves(r)
<1>1. InFlight(r) /\ Finish(r) /\ UNCHANGED <<members, links>>
  BY DEF Update, Remove, JoinNotify, Abort, At, InFlight
<1> QED
  BY <1>1, ReadsReach, EndMoves

LEMMA RoleMoves ==
  ASSUME OrgInv, AInv, NEW r \in Reqs, UpdateMemberRole(r)
  PROVE  Moves(r)
<1> DEFINE f == req[r]
           s == Scope(f)
<1>1. /\ f.op = "updateMemberRole" /\ f.pc = "write" /\ InFlight(r) /\ Finish(r) /\ links' = links
      /\ RowOrgs(f.row, members) \subseteq s
  BY Named DEF UpdateMemberRole, At, InFlight
<1>2. \A o \in OrgIds, u \in Users :
        \/ members'[o][u] = members[o][u]
        \/ f.row = members[o][u].id /\ members'[o][u].id = f.row /\ members[o][u] # NoMember
  <2> SUFFICES ASSUME NEW o \in OrgIds, NEW u \in Users, members'[o][u] # members[o][u]
               PROVE  f.row = members[o][u].id /\ members'[o][u].id = f.row /\ members[o][u] # NoMember
    OBVIOUS
  <2> QED
    <3>1. /\ req[r].row = members[o][u].id
          /\ members'[o][u] = [id |-> req[r].row, role |-> req[r].role] /\ IsMember(u, o)
      BY RoleRows
    <3> QED
      BY <3>1 DEF IsMember
<1>4. \A o \in ExistingOrg : o \notin s => \A u \in Users : members'[o][u] = members[o][u]
  BY <1>1, <1>2 DEF ExistingOrg, RowOrgs
<1>5. Reach(r, s)
  BY <1>1, <1>2, <1>4 DEF Reach
<1> QED
  BY <1>1, <1>5, EndMoves

LEMMA RemovalMoves ==
  ASSUME OrgInv, AInv, NEW r \in Reqs, RemoveMemberDelete(r)
  PROVE  Moves(r)
<1> DEFINE f == req[r]
           s == Scope(f)
<1>1. /\ f.op = "removeMember" /\ f.pc = "delete" /\ InFlight(r) /\ Finish(r) /\ links' = links
      /\ f.org \in s
  BY Named DEF RemoveMemberDelete, At, InFlight, Managed
<1>2. \A o \in OrgIds, u \in Users :
        members'[o][u] = members[o][u] \/ (members'[o][u] = NoMember /\ o = f.org)
  BY <1>1, RemovalRows DEF IsMember
<1>3. Reach(r, s)
  BY <1>1, <1>2 DEF Reach, ExistingOrg
<1> QED
  BY <1>1, <1>3, EndMoves

LEMMA CreateMoves ==
  ASSUME OrgInv, AInv, NEW r \in Reqs, CreateInsert(r)
  PROVE  Moves(r)
<1> DEFINE f == req[r]
           s == Scope(f)
<1>1. /\ f.op = "create" /\ f.pc = "insert" /\ InFlight(r) /\ Finish(r) /\ links' = links
      /\ r \notin Inserted /\ r \in OrgIds
  BY DEF CreateInsert, At, InFlight, Inserted, OrgIds
<1>2. \A o \in ExistingOrg, u \in Users : members'[o][u] = members[o][u]
  BY CreateRows DEF ExistingOrg
<1>3. \A o \in OrgIds, u \in Users : members'[o][u] = members[o][u] \/ members'[o][u].id = r
  BY DEF CreateInsert, InsertMember, OrgInv, OrgTypeOK, TablesOK
<1>4. Reach(r, s)
  BY <1>1, <1>2, <1>3 DEF Reach
<1> QED
  BY <1>1, <1>4, EndMoves

LEMMA LinkWritesMove ==
  ASSUME OrgInv, AInv, NEW r \in Reqs, CreateInviteLink(r) \/ RevokeInviteLinkDelete(r)
  PROVE  Moves(r)
<1> DEFINE f == req[r]
           s == Scope(f)
<1>1. /\ InFlight(r) /\ Finish(r) /\ members' = members /\ links \in [LinkIds -> LinkRow]
  BY DEF CreateInviteLink, RevokeInviteLinkDelete, At, InFlight, OrgInv, OrgTypeOK
<1>2. CASE CreateInviteLink(r)
  <2>1. r \notin KnownLink
    BY <1>2 DEF CreateInviteLink, At, OrgInv, IdsTaken, Inserted
  <2>2. \A l \in KnownLink : links'[l] = links[l]
    BY <1>1, <1>2, <2>1 DEF CreateInviteLink, KnownLink
  <2>3. Reach(r, s)
    BY <1>1, <2>2 DEF Reach
  <2> QED
    BY <1>1, <2>3, EndMoves
<1>3. CASE RevokeInviteLinkDelete(r)
  <2>1. /\ f.link # Null /\ f.link \in KnownLink /\ links[f.link].org \in s
        /\ links' = [links EXCEPT ![f.link].state = "gone"]
    BY <1>3, Named DEF RevokeInviteLinkDelete, At, ScopeIn
  <2>2. \A l \in KnownLink : /\ links'[l].org = links[l].org
                             /\ l # f.link => links'[l].state = links[l].state
    BY <1>1, <2>1 DEF KnownLink, LinkRow
  <2>3. Reach(r, s)
    BY <1>1, <2>1, <2>2 DEF Reach
  <2> QED
    BY <1>1, <2>3, EndMoves
<1> QED
  BY <1>2, <1>3

LEMMA JoinMoves ==
  ASSUME OrgInv, AInv, NEW r \in Reqs, JoinTransaction(r)
  PROVE  Moves(r)
<1> DEFINE f == req[r]
           s == Scope(f)
<1>1. /\ f.op = "joinByToken" /\ f.pc = "tx" /\ InFlight(r) /\ r \notin Inserted
      /\ f.link # Null /\ f.link \in KnownLink /\ links[f.link].org = f.org /\ f.org \in s
      /\ links \in [LinkIds -> LinkRow] /\ f.org \in OrgIds /\ Place(f.pc, f)
  BY Named DEF JoinTransaction, At, InFlight, Inserted, ScopeIn, OrgInv, OrgTypeOK, FramesOK, FrameOK,
     ForeignKeys, ExistingOrg, AInv
<1>2. CASE Finish(r) /\ UNCHANGED <<members, links>>
  BY <1>1, <1>2, ReadsReach, EndMoves
<1>3. CASE /\ InsertMember(r, f.by, f.org, f.role) /\ Goto(r, "notify")
           /\ links' = [links EXCEPT ![f.link].state = "used"]
  <2>1. \A o \in OrgIds, u \in Users :
          members'[o][u] = members[o][u] \/ (members'[o][u].id = r /\ o = f.org)
    BY <1>1, <1>3 DEF InsertMember, OrgInv, OrgTypeOK, TablesOK
  <2>2. \A l \in KnownLink : /\ links'[l].org = links[l].org
                             /\ l # f.link => links'[l].state = links[l].state
    BY <1>1, <1>3 DEF KnownLink, LinkRow
  <2>3. Reach(r, s)
    BY <1>1, <2>1, <2>2 DEF Reach, ExistingOrg
  <2>4. "notify" \in PCs /\ Place("notify", f) /\ Verified("notify", f, members', links')
    BY <1>1 DEF PCs, Place, Verified
  <2> QED
    BY <1>1, <1>3, <2>3, <2>4, GotoMoves
<1> QED
  BY <1>2, <1>3 DEF JoinTransaction

LEMMA HandlerMoves ==
  ASSUME OrgInv, AInv, NEW r \in Reqs, Handler(r) \/ Abort(r)
  PROVE  Moves(r)
BY CheckCallerMoves, RemovalReadsMove, RemovalTargetMoves, LinkReadsMove, JoinReadMoves, CreateFindMoves,
   QuietEnds, RoleMoves, RemovalMoves, CreateMoves, LinkWritesMove, JoinMoves DEF Handler

-----------------------------------------------------------------------------
(* A new request has checked nothing, so nothing of it can be out of date.   *)
Opening(f) == Place(f.pc, f) /\ Verified(f.pc, f, members, links)

LEMMA CallOpens ==
  ASSUME OrgInv, NEW r \in Reqs, Call(r)
  PROVE  \E f : Opening(f) /\ Issue(r, f)
<1>1. PICK u \in Users : OwnCall(r, u) \/ \E o \in ExistingOrg : CallAbout(r, u, o)
  BY DEF Call
<1>2. CASE OwnCall(r, u)
  <2>1. ASSUME NEW n \in Names
        PROVE  Opening([Blank EXCEPT !.pc = "slug", !.op = "create", !.by = u, !.slug = n])
    BY DEF Opening, Place, Verified, Blank, Managed
  <2>2. ASSUME NEW l \in KnownLink
        PROVE  Opening([Blank EXCEPT !.pc = "link", !.op = "joinByToken", !.by = u, !.link = l])
    BY DEF Opening, Place, Verified, Blank, Managed
  <2> QED
    BY <1>2, <2>1, <2>2, Zenon DEF OwnCall
<1>3. ASSUME NEW o \in ExistingOrg, CallAbout(r, u, o)
      PROVE  \E f : Opening(f) /\ Issue(r, f)
  <2>1. ASSUME NEW op \in AllOps
        PROVE  LET f == Ask(op, u, o) IN
               f \in Frame /\ f.pc = "caller" /\ f.op = op /\ f.org = o /\ f.link = Null
    BY BlankFrame DEF Ask, Frame, PCs, ExistingOrg, Blank
  <2>2. ASSUME NEW g, g.pc = "caller", g.org = o, g.op \in AllOps,
               g.op \notin {"revokeInviteLink", "joinByToken"} => g.link = Null
        PROVE  Opening(g)
    BY <2>2 DEF Opening, Place, Verified
  <2>3. ASSUME NEW row, NEW role
        PROVE  Opening([Ask("updateMemberRole", u, o) EXCEPT !.row = row, !.role = role])
    <3> DEFINE f == Ask("updateMemberRole", u, o)
               g == [f EXCEPT !.row = row, !.role = role]
    <3>2. f \in Frame /\ f.pc = "caller" /\ f.op = "updateMemberRole" /\ f.org = o /\ f.link = Null
      BY <2>1 DEF AllOps
    <3> HIDE DEF f
    <3>3. g.pc = "caller" /\ g.op = "updateMemberRole" /\ g.org = o /\ g.link = Null
      BY <3>2 DEF Frame
    <3> HIDE DEF g
    <3>4. Opening(g)
      BY <2>2, <3>3 DEF AllOps
    <3> QED
      BY <3>4 DEF f, g
  <2>4. ASSUME NEW op \in {"update", "removeMember", "createInviteLink"}, NEW user, NEW role, NEW flag
        PROVE  /\ Opening(Ask(op, u, o))
               /\ Opening([Ask(op, u, o) EXCEPT !.flag = flag])
               /\ Opening([Ask(op, u, o) EXCEPT !.user = user])
               /\ Opening([Ask(op, u, o) EXCEPT !.role = role, !.flag = flag])
    <3> DEFINE f == Ask(op, u, o)
    <3>1. f \in Frame /\ f.pc = "caller" /\ f.op = op /\ f.org = o /\ f.link = Null
      BY <2>1 DEF AllOps
    <3> HIDE DEF f
    <3>2. Opening(f)
      BY <2>2, <3>1 DEF AllOps
    <3>3. ASSUME NEW g, g.pc = f.pc, g.op = f.op, g.org = f.org, g.link = f.link
          PROVE  Opening(g)
      BY <2>2, <3>1, <3>3 DEF AllOps
    <3>4. Opening([f EXCEPT !.flag = flag])
      BY <3>1, <3>3 DEF Frame
    <3>5. Opening([f EXCEPT !.user = user])
      BY <3>1, <3>3 DEF Frame
    <3>6. Opening([f EXCEPT !.role = role, !.flag = flag])
      BY <3>1, <3>3 DEF Frame
    <3> QED
      BY <3>2, <3>4, <3>5, <3>6 DEF f
  <2>5. Opening(Ask("remove", u, o))
    BY <2>1, <2>2 DEF AllOps
  <2>6. ASSUME NEW l \in KnownLink PROVE Opening([Ask("revokeInviteLink", u, o) EXCEPT !.link = l])
    <3> DEFINE f == Ask("revokeInviteLink", u, o)
               g == [f EXCEPT !.link = l]
    <3>1. f \in Frame /\ f.pc = "caller" /\ f.op = "revokeInviteLink" /\ f.org = o
      BY <2>1 DEF AllOps
    <3> HIDE DEF f
    <3>2. g.pc = "caller" /\ g.op = "revokeInviteLink" /\ g.org = o
      BY <3>1 DEF Frame
    <3> HIDE DEF g
    <3>3. Opening(g)
      BY <2>2, <3>2 DEF AllOps
    <3> QED
      BY <3>3 DEF f, g
  <2> QED
    BY <1>3, <2>3, <2>4, <2>5, <2>6, Zenon DEF CallAbout
<1> QED
  BY <1>1, <1>2, <1>3

LEMMA CallKeepsA ==
  ASSUME Exclusive, OrgInv, AInv, NEW r \in Reqs, Call(r)
  PROVE  AInv'
<1>1. PICK f : Opening(f) /\ Issue(r, f)
  BY CallOpens
<1>2. /\ members' = members /\ links' = links /\ req[r].pc = "new"
      /\ req'[r] = f /\ \A q \in Reqs : q # r => req'[q] = req[q]
      /\ \A q \in Reqs : InFlight(q) => Scope(req[q]) \cap Scope(f) = {}
  BY <1>1 DEF Issue, MayIssue, OrgInv, OrgTypeOK
<1>3. \A q \in Reqs : Scope(req[q])' = IF q = r THEN Scope(f) ELSE Scope(req[q])
  BY <1>2 DEF Scope, IsMember
<1>4. \A q \in Reqs : q # r => (InFlight(q)' <=> InFlight(q))
  BY <1>2 DEF InFlight
<1>5. \A q \in Reqs : Place(req'[q].pc, req'[q]) /\ Verified(req'[q].pc, req'[q], members', links')
  BY <1>1, <1>2 DEF Opening, AInv
<1>6. \A p, q \in Reqs :
        p # q /\ InFlight(p)' /\ InFlight(q)' => Scope(req[p])' \cap Scope(req[q])' = {}
  BY <1>2, <1>3, <1>4 DEF AInv
<1> QED
  BY <1>5, <1>6 DEF AInv

(* The clock takes no link away. *)
LEMMA ExpiryKeepsA ==
  ASSUME OrgInv, AInv, NEW l \in LinkIds, LinkExpires(l)
  PROVE  AInv'
<1>1. /\ members' = members /\ req' = req
      /\ \A k \in LinkIds : links'[k].org = links[k].org /\ links'[k].state = links[k].state
  BY DEF LinkExpires, OrgInv, OrgTypeOK, LinkRow
<1>2. ASSUME NEW q \in Reqs
      PROVE  Verified(req[q].pc, req[q], members', links') /\ Scope(req[q])' = Scope(req[q])
  <2> DEFINE f == req[q]
  <2>1. /\ Verified(f.pc, f, members, links)
        /\ f.link # Null => f.link \in LinkIds
        /\ f.op \in {"joinByToken", "revokeInviteLink"} => f.link \in LinkIds
    BY Named DEF AInv, KnownLink
  <2>2. ScopeIn(f, links') = ScopeIn(f, links)
    BY <1>1, <2>1 DEF ScopeIn
  <2>3. f.op = "joinByToken" => links'[f.link].state = links[f.link].state
    BY <1>1, <2>1
  <2>4. Verified(f.pc, f, members', links')
    <3> HIDE DEF f
    <3> QED
      BY <1>1, <2>1, <2>2, <2>3 DEF Verified
  <2> QED
    BY <1>1, <2>2, <2>4, Named
<1> QED
  BY <1>1, <1>2 DEF AInv, InFlight

LEMMA InitA == OrgInit => AInv
<1> SUFFICES ASSUME OrgInit PROVE AInv
  OBVIOUS
<1>1. \A r \in Reqs : req[r] = Blank
  BY DEF OrgInit
<1> QED
  BY <1>1 DEF AInv, Place, Verified, Blank, Managed, InFlight

LEMMA NextKeepsA ==
  ASSUME Exclusive, OrgInv, AInv, [OrgNext]_orgVars
  PROVE  AInv'
<1>1. CASE UNCHANGED orgVars
  BY <1>1 DEF orgVars, AInv, InFlight, Scope, IsMember
<1>2. ASSUME NEW r \in Reqs, Call(r) PROVE AInv'
  BY <1>2, CallKeepsA
<1>3. ASSUME NEW r \in Reqs, Handler(r) \/ Abort(r) PROVE AInv'
  BY <1>3, HandlerMoves, MovesKeeps
<1>4. ASSUME NEW l \in LinkIds, LinkExpires(l) PROVE AInv'
  BY <1>4, ExpiryKeepsA
<1> QED
  BY <1>1, <1>2, <1>3, <1>4 DEF OrgNext

(* While requests about one organization take turns, what a handler has    *)
(* checked is still so when it writes.                                     *)
THEOREM ChecksHold ==
  ASSUME Exclusive
  PROVE  OrgSpec => [](OrgInv /\ AInv)
<1>1. OrgInv /\ AInv /\ [OrgNext]_orgVars => AInv'
  BY NextKeepsA
<1> QED
  BY <1>1, InitInv, InitA, StepInv, PTL DEF OrgSpec

(* A request that ends has made a step of its own. *)
LEMMA OwnStep ==
  ASSUME [OrgNext]_orgVars, OrgInv, NEW r \in Reqs, InFlight(r), ~InFlight(r)'
  PROVE  Handler(r) \/ Abort(r)
<1>1. req'[r] # req[r] /\ req[r].pc # "new"
  BY DEF InFlight
<1>2. ASSUME NEW q \in Reqs, q # r, Handler(q) \/ Abort(q) PROVE req'[r] = req[r]
  BY <1>2 DEF Handler, Abort, CreateFindSlug, CreateInsert, CheckCaller, UpdateMemberRole, Update, Remove,
     RemoveMemberCaller, RemoveMemberCount, RemoveMemberTarget, RemoveMemberDelete, CreateInviteLink,
     RevokeInviteLinkFind, RevokeInviteLinkDelete, JoinReadLink, JoinCheckMember, JoinTransaction,
     JoinNotify, Check, Goto, Finish, OrgInv, OrgTypeOK
<1>3. ASSUME NEW q \in Reqs, Call(q) PROVE req'[r] = req[r]
  <2>1. PICK f : Issue(q, f)
    BY <1>3, CallIssuesNewFrame
  <2> QED
    BY <1>1, <2>1 DEF Issue, OrgInv, OrgTypeOK
<1>4. ASSUME NEW l \in LinkIds, LinkExpires(l) PROVE req'[r] = req[r]
  BY <1>4 DEF LinkExpires
<1> QED
  BY <1>1, <1>2, <1>3, <1>4 DEF OrgNext, orgVars

(* A link that has been used admits nobody else: joinByToken's transaction *)
(* never meets one.                                                        *)
THEOREM UsedLinksAdmitNobody ==
  ASSUME Exclusive
  PROVE  OrgSpec => UsedLinkAdmitsNobody
<1>1. OrgInv /\ AInv /\ [OrgNext]_orgVars =>
        [\A r \in Reqs :
           At(r, "joinByToken", "tx") /\ links[req[r].link].state = "used" =>
             UNCHANGED members]_orgVars
  BY DEF AInv, Verified, At
<1> QED
  BY <1>1, ChecksHold, PTL DEF OrgSpec, UsedLinkAdmitsNobody

(* An owner who leaves was not the only one, so the organization keeps one. *)
LEMMA LeavingStep ==
  ASSUME OrgInv, AInv, [OrgNext]_orgVars, NEW r \in Reqs, NEW o \in OrgIds,
         At(r, "removeMember", "delete"), ~InFlight(r)', req[r].org = o, req[r].by = req[r].user,
         Owners(o) # {}
  PROVE  Owners(o)' # {}
<1> DEFINE f == req[r]
<1>1. Handler(r) \/ Abort(r)
  BY OwnStep DEF At, InFlight
<1>2. \/ UNCHANGED members
      \/ RemoveMemberDelete(r)
  BY <1>1 DEF At, Handler, Abort, CreateFindSlug, CreateInsert, CheckCaller, UpdateMemberRole, Update, Remove,
     RemoveMemberCaller, RemoveMemberCount, RemoveMemberTarget, CreateInviteLink,
     RevokeInviteLinkFind, RevokeInviteLinkDelete, JoinReadLink, JoinCheckMember, JoinTransaction,
     JoinNotify
<1>3. CASE UNCHANGED members
  BY <1>3 DEF Owners, IsOwner
<1>4. CASE RemoveMemberDelete(r)
  <2>1. \A u \in Users : members'[o][u] = members[o][u] \/ ~IsMember(u, o) \/ u = f.user
    BY <1>4, RemovalRows
  <2>2. \A u \in Users : IsOwner(u, o) => IsMember(u, o)
    BY DEF IsOwner, IsMember, NoMember
  <2>3. IsOwner(f.user, o) => \E v, w \in Owners(o) : v # w
    BY DEF AInv, Verified, At, IsOwner, Owners
  <2>4. PICK v \in Users : IsOwner(v, o) /\ v # f.user
    BY <2>3 DEF Owners
  <2> QED
    BY <2>1, <2>2, <2>4 DEF Owners, IsOwner
<1> QED
  BY <1>2, <1>3, <1>4

THEOREM LeaversKeepAnOwner ==
  ASSUME Exclusive
  PROVE  OrgSpec => LeavingKeepsAnOwner
<1>1. OrgInv /\ AInv /\ [OrgNext]_orgVars =>
        [\A r \in Reqs, o \in OrgIds :
           /\ At(r, "removeMember", "delete") /\ ~InFlight(r)'
           /\ req[r].org = o /\ req[r].by = req[r].user /\ Owners(o) # {}
           => Owners(o)' # {}]_orgVars
  BY LeavingStep
<1> QED
  BY <1>1, ChecksHold, PTL DEF OrgSpec, LeavingKeepsAnOwner

(* Whoever writes is then an administrator of the organization the request   *)
(* names, or leaves.                                                         *)
LEMMA WriterStep ==
  ASSUME OrgInv, AInv, NEW r \in Reqs,
         req[r].pc \in {"write", "insert", "delete"}, req[r].op # "create"
  PROVE  /\ \/ IsAdminOrOwner(req[r].by, req[r].org)
            \/ req[r].op = "removeMember" /\ req[r].by = req[r].user
         /\ req[r].op \in Managed /\ ScopeIn(req[r], links) = req[r].org
<1> DEFINE f == req[r]
<1>1. Place(f.pc, f) /\ Verified(f.pc, f, members, links)
  BY DEF AInv
<1>2. f.op \in Managed /\ ScopeIn(f, links) = f.org
  BY <1>1, Named DEF Place, Verified, Managed
<1> QED
  BY <1>1, <1>2 DEF Verified, IsAdminOrOwner

(* And unless it is a role change, that is the organization it changes.      *)
LEMMA WritesChangeOwnOrg ==
  ASSUME OrgInv, AInv, [OrgNext]_orgVars, NEW r \in Reqs, NEW o \in OrgIds,
         req[r].pc \in {"write", "insert", "delete"}, req[r].op \notin {"create", "updateMemberRole"},
         ~InFlight(r)', Changes(o)
  PROVE  o = req[r].org
<1> DEFINE f == req[r]
<1>1. Handler(r) \/ Abort(r)
  BY OwnStep DEF InFlight
<1>2. \/ UNCHANGED <<orgs, members, links>>
      \/ Update(r) \/ Remove(r) \/ RemoveMemberDelete(r) \/ CreateInviteLink(r) \/ RevokeInviteLinkDelete(r)
  BY <1>1 DEF At, Handler, Abort, CreateFindSlug, CreateInsert, CheckCaller, UpdateMemberRole,
     RemoveMemberCaller, RemoveMemberCount, RemoveMemberTarget, RevokeInviteLinkFind,
     JoinReadLink, JoinCheckMember, JoinTransaction, JoinNotify
<1>3. CASE Update(r) \/ Remove(r)
  BY <1>3 DEF Update, Remove, Changes, OrgInv, OrgTypeOK, TablesOK
<1>4. CASE RemoveMemberDelete(r)
  <2>1. members'[o] # members[o]
    BY <1>4 DEF RemoveMemberDelete, Changes
  <2>2. members'[o] = [u \in Users |-> members'[o][u]] /\ members[o] = [u \in Users |-> members[o][u]]
    BY <1>4 DEF RemoveMemberDelete, DeleteMemberById, OrgInv, OrgTypeOK, TablesOK
  <2>3. PICK u \in Users : members'[o][u] # members[o][u]
    BY <2>1, <2>2
  <2> QED
    BY <1>4, <2>3, RemovalRows DEF IsMember
<1>5. CASE CreateInviteLink(r)
  <2>1. /\ links' = [links EXCEPT ![r] =
                      [state |-> "open", org |-> f.org, role |-> f.role, expired |-> f.flag]]
        /\ r \in LinkIds /\ r \notin KnownLink /\ links \in [LinkIds -> LinkRow]
        /\ UNCHANGED <<orgs, members>>
    BY <1>5 DEF CreateInviteLink, At, LinkIds, OrgInv, OrgTypeOK, IdsTaken, Inserted
  <2>2. links'[r].org = f.org
    BY <2>1
  <2> QED
    BY <2>1, <2>2 DEF Changes
<1>6. CASE RevokeInviteLinkDelete(r)
  <2>1. /\ links' = [links EXCEPT ![f.link].state = "gone"] /\ links[f.link].org = f.org
        /\ links \in [LinkIds -> LinkRow] /\ f.link \in LinkIds
        /\ UNCHANGED <<orgs, members>>
    BY <1>6, WriterStep, Named DEF RevokeInviteLinkDelete, At, KnownLink, ScopeIn, OrgInv, OrgTypeOK
  <2>2. links'[f.link].org = f.org
    BY <2>1 DEF LinkRow
  <2> QED
    BY <2>1, <2>2 DEF Changes
<1> QED
  BY <1>2, <1>3, <1>4, <1>5, <1>6 DEF Changes

(* While requests about one organization take turns, whoever changes it is   *)
(* an administrator of it at that time; of a role change, of the             *)
(* organization its URL names.                                               *)
THEOREM WritersAreAdmins ==
  ASSUME Exclusive
  PROVE  OrgSpec => WriterIsAdmin
<1>1. OrgInv /\ AInv /\ [OrgNext]_orgVars =>
        [\A r \in Reqs, o \in OrgIds :
           /\ req[r].pc \in {"write", "insert", "delete"} /\ req[r].op # "create"
           /\ ~InFlight(r)' /\ Changes(o)
           => \/ req[r].op = "updateMemberRole" /\ IsAdminOrOwner(req[r].by, req[r].org)
              \/ req[r].op # "updateMemberRole" /\ IsAdminOrOwner(req[r].by, o)
              \/ req[r].op = "removeMember" /\ req[r].by = req[r].user]_orgVars
  BY WriterStep, WritesChangeOwnOrg
<1> QED
  BY <1>1, ChecksHold, PTL DEF OrgSpec, WriterIsAdmin
=============================================================================
