-------------------------- MODULE InvitationsProofs ------------------------
(***************************************************************************)
(* Invitations for any number of users, organizations, invitations and     *)
(* overlapping requests: only addressees join, in the organization and     *)
(* with the role they were invited to, and only what is past its date is   *)
(* ever EXPIRED.  And while requests about one address take turns, the      *)
(* service is an InvitationLifecycle.                                      *)
(***************************************************************************)
EXTENDS InvitationRefinement, TLAPS

Known(i, T) == i \in InvIds /\ T[i].status # "none"

Answers == {"accept", "reject"}
Views   == {"getByToken", "getById"}

(* What a frame says at call pc, of a table T of invitations.  The members  *)
(* of a transaction still agree with the row they were read from, because a *)
(* row keeps its organization, address and role.                            *)
Kept(pc, f, T) ==
  pc \notin {"new", "done"} =>
    /\ f.by \in Users
    /\ \/ /\ f.op = "send" /\ pc \in {"caller", "org", "duplicate", "user", "member", "insert"}
          /\ f.org \in OrgIds /\ f.email \in Users /\ f.role \in Roles
       \/ f.op = "mine" /\ pc = "expireMine"
       \/ /\ f.op = "revoke" /\ pc \in {"caller", "find", "write"}
          /\ Known(f.inv, T)
       \/ /\ f.op \in Views /\ pc \in {"read", "expire"}
          /\ Known(f.inv, T)
          /\ pc = "expire" => T[f.inv].past = TRUE
       \/ /\ f.op \in Answers /\ pc \in {"read", "expire", "existing", "tx", "write", "notify"}
          /\ Known(f.inv, T)
          /\ pc = "expire" => T[f.inv].past = TRUE
          /\ pc \in {"existing", "tx"} =>
               T[f.inv].email = f.by /\ T[f.inv].org = f.org /\ T[f.inv].role = f.role

(* A row is complete once it is inserted. *)
RowOK(row) ==
  /\ row \in InvRow
  /\ row.status # "none" => row.email \in Users /\ row.org \in OrgIds /\ row.role \in Roles /\ row.by \in Users
  /\ row.target \in {Null, row.email}
  /\ row.status = "EXPIRED" => row.past = TRUE

(* What no step takes back. *)
Grows(T, U) ==
  \A i \in InvIds : T[i].status # "none" =>
    /\ U[i].status # "none"
    /\ U[i].org = T[i].org /\ U[i].email = T[i].email /\ U[i].role = T[i].role
    /\ T[i].past = TRUE => U[i].past = TRUE

(* The id of a request names an invitation only when its insert is over. *)
Spent(r, pc, T) == Known(r, T) => pc = "done"

IInv ==
  /\ InvTypeOK
  /\ \A r \in Reqs : Kept(ireq[r].pc, ireq[r], invitations) /\ Spent(r, ireq[r].pc, invitations)
  /\ \A i \in InvIds : RowOK(invitations[i])

(* Frames before and after their request. *)
LEMMA EndFrames ==
  /\ IBlank \in IFrame /\ IBlank.pc = "new" /\ IBlank.op = "none"
  /\ IDone \in IFrame /\ IDone.pc = "done"
BY DEF IBlank, IDone, IFrame, IPCs

(* A frame whose request goes on to another call. *)
LEMMA MovedFrame ==
  ASSUME NEW g \in IFrame, NEW pc \in IPCs
  PROVE  /\ [g EXCEPT !.pc = pc] \in IFrame /\ [g EXCEPT !.pc = pc].pc = pc
         /\ \A T : Kept(pc, g, T) => Kept(pc, [g EXCEPT !.pc = pc], T)
<1> DEFINE h == [g EXCEPT !.pc = pc]
<1>1. h \in IFrame
  BY DEF IFrame
<1>2. h.pc = pc /\ h.by = g.by /\ h.op = g.op /\ h.org = g.org /\ h.email = g.email
        /\ h.role = g.role /\ h.inv = g.inv
  BY DEF IFrame
<1> HIDE DEF h
<1>3. \A T : Kept(pc, g, T) => Kept(pc, h, T)
  BY <1>2 DEF Kept
<1> QED
  BY <1>1, <1>2, <1>3 DEF h

(* What is kept of a table is kept of a later one. *)
LEMMA KeptGrows ==
  ASSUME NEW pc, NEW f, NEW T, NEW U, Kept(pc, f, T), Grows(T, U)
  PROVE  Kept(pc, f, U)
BY DEF Kept, Grows, Known

(* An unchanged table. *)
LEMMA GrowsSelf == \A T : Grows(T, T)
BY DEF Grows

-----------------------------------------------------------------------------
(* A step of request r that puts f in its frame. *)
LEMMA RequestStep ==
  ASSUME IInv, NEW r \in Reqs, NEW f \in IFrame, ireq' = [ireq EXCEPT ![r] = f],
         TablesOK', accounts' \subseteq Users, ifired' \subseteq INotice,
         invitations' \in [InvIds -> InvRow], \A i \in InvIds : RowOK(invitations'[i]),
         Grows(invitations, invitations'),
         \A i \in InvIds : i # r /\ Known(i, invitations') => Known(i, invitations),
         Kept(f.pc, f, invitations'), Spent(r, f.pc, invitations')
  PROVE  IInv'
<1>1. ireq' \in [Reqs -> IFrame] /\ ireq'[r] = f /\ \A q \in Reqs : q # r => ireq'[q] = ireq[q]
  BY DEF IInv, InvTypeOK
<1>2. InvTypeOK'
  BY <1>1 DEF IInv, InvTypeOK
<1>3. ASSUME NEW q \in Reqs
      PROVE  Kept(ireq'[q].pc, ireq'[q], invitations') /\ Spent(q, ireq'[q].pc, invitations')
  <2>1. CASE q = r
    BY <1>1, <2>1
  <2>2. CASE q # r
    <3>1. Kept(ireq[q].pc, ireq[q], invitations) /\ Spent(q, ireq[q].pc, invitations)
      BY DEF IInv
    <3>2. Kept(ireq[q].pc, ireq[q], invitations')
      BY <3>1, KeptGrows
    <3>3. Spent(q, ireq[q].pc, invitations')
      BY <3>1, <2>2 DEF Spent, InvIds, Known
    <3> QED
      BY <1>1, <2>2, <3>2, <3>3
  <2> QED
    BY <2>1, <2>2
<1> QED
  BY <1>2, <1>3 DEF IInv

(* A step that changes no invitation. *)
LEMMA ReadStep ==
  ASSUME IInv, NEW r \in Reqs, ireq[r].pc # "done",
         NEW f \in IFrame, ireq' = [ireq EXCEPT ![r] = f],
         UNCHANGED <<orgs, members, invitations>>, accounts' \subseteq Users, ifired' \subseteq INotice,
         Kept(f.pc, f, invitations)
  PROVE  IInv'
<1>1. invitations' = invitations /\ Grows(invitations, invitations') /\ TablesOK'
  BY GrowsSelf DEF IInv, InvTypeOK, TablesOK
<1>2. ~Known(r, invitations)
  BY DEF IInv, Spent
<1>3. invitations' \in [InvIds -> InvRow] /\ \A i \in InvIds : RowOK(invitations'[i])
  BY <1>1 DEF IInv, InvTypeOK
<1>4. Kept(f.pc, f, invitations') /\ Spent(r, f.pc, invitations')
        /\ \A i \in InvIds : Known(i, invitations') => Known(i, invitations)
  BY <1>1, <1>2 DEF Spent
<1> QED
  BY <1>1, <1>3, <1>4, RequestStep

(* A check: the handler goes on to pc or ends. *)
LEMMA CheckStep ==
  ASSUME IInv, NEW r \in Reqs, ireq[r].pc # "done", NEW pc \in IPCs,
         (IGoto(r, pc) /\ Kept(pc, ireq[r], invitations)) \/ IFinish(r),
         UNCHANGED <<orgs, members, accounts, invitations, ifired>>
  PROVE  IInv'
<1>0. accounts' \subseteq Users /\ ifired' \subseteq INotice /\ ireq[r] \in IFrame
  BY DEF IInv, InvTypeOK
<1>1. CASE IFinish(r)
  <2>1. Kept(IDone.pc, IDone, invitations)
    BY EndFrames DEF Kept
  <2> QED
    BY <1>0, <1>1, <2>1, EndFrames, ReadStep DEF IFinish
<1>2. CASE IGoto(r, pc) /\ Kept(pc, ireq[r], invitations)
  <2> DEFINE f == [ireq[r] EXCEPT !.pc = pc]
  <2>1. f \in IFrame /\ f.pc = pc /\ Kept(pc, f, invitations)
    BY <1>0, <1>2, MovedFrame
  <2>2. ireq' = [ireq EXCEPT ![r] = f]
    BY <1>2 DEF IGoto, IInv, InvTypeOK
  <2> HIDE DEF f
  <2> QED
    BY <1>0, <2>1, <2>2, ReadStep
<1> QED
  BY <1>1, <1>2

-----------------------------------------------------------------------------
(* Before the first request: seed invitations are pending and in time. *)
LEMMA InitIInv == InvInit => IInv
<1> SUFFICES ASSUME InvInit PROVE IInv
  OBVIOUS
<1>1. ireq \in [Reqs -> IFrame] /\ \A r \in Reqs : ireq[r] = IBlank
  BY EndFrames DEF InvInit
<1>2. orgs \in [OrgIds -> OrgRow]
  BY DEF InvInit, TablesInit, OrgRow, NoOrg, Slugs, OrgIds
<1>3. members \in [OrgIds -> [Users -> MemberRow \cup {NoMember}]]
  BY DEF InvInit, TablesInit, SeedMembers, MemberRow, MemberIds
<1>4. PICK seed \in [SeedInvs -> [status : {"PENDING"}, org : SeedOrgs, email : Users,
                      role : Roles, target : accounts \cup {Null}, by : Users, past : {FALSE}]] :
        /\ \A i \in SeedInvs : seed[i].target \in {Null, seed[i].email}
        /\ invitations = [i \in InvIds |-> IF i \in SeedInvs THEN seed[i] ELSE NoInv]
  BY DEF InvInit
<1>5. RowOK(NoInv) /\ NoInv.status = "none"
  BY DEF RowOK, NoInv, InvRow
<1>6. \A i \in SeedInvs : RowOK(seed[i])
  BY <1>4 DEF RowOK, InvRow, OrgIds, Statuses, InvInit
<1>7. /\ invitations \in [InvIds -> InvRow]
      /\ \A i \in InvIds : RowOK(invitations[i])
      /\ \A r \in Reqs : ~Known(r, invitations)
  BY <1>4, <1>5, <1>6, InvAssumption DEF RowOK, Known, InvIds
<1>8. accounts \subseteq Users /\ ifired \subseteq INotice
  BY DEF InvInit
<1>9. \A r \in Reqs : Kept(ireq[r].pc, ireq[r], invitations) /\ Spent(r, ireq[r].pc, invitations)
  BY <1>1, <1>7, EndFrames DEF Kept, Spent
<1> QED
  BY <1>1, <1>2, <1>3, <1>7, <1>8, <1>9 DEF IInv, InvTypeOK, TablesOK

(* A client's request: it names what exists. *)
LEMMA CallStep ==
  ASSUME IInv, NEW r \in Reqs, InvCall(r)
  PROVE  IInv'
<1>1. SUFFICES ASSUME NEW f \in IFrame, InvIssue(r, f), Kept(f.pc, f, invitations), f.by \in Users
               PROVE  IInv'
  <2>1. PICK u \in Users :
      \/ \E o \in ExistingOrg, e \in Users, role \in Roles, past \in BOOLEAN :
           InvIssue(r, [IBlank EXCEPT !.pc = "caller", !.op = "send", !.by = u, !.org = o,
                          !.email = e, !.role = role, !.past = past])
      \/ InvIssue(r, [IBlank EXCEPT !.pc = "expireMine", !.op = "mine", !.by = u, !.email = u])
      \/ \E i \in KnownInv, op \in {"getByToken", "getById", "accept", "reject"} :
             InvIssue(r, [IBlank EXCEPT !.pc = "read", !.op = op, !.by = u, !.inv = i])
      \/ \E i \in KnownInv, o \in ExistingOrg :
             InvIssue(r, [IBlank EXCEPT !.pc = "caller", !.op = "revoke", !.by = u,
                            !.org = o, !.inv = i])
    BY DEF InvCall
  <2>2. ASSUME NEW o \in ExistingOrg, NEW e \in Users, NEW role \in Roles, NEW past \in BOOLEAN,
               NEW f, f = [IBlank EXCEPT !.pc = "caller", !.op = "send", !.by = u, !.org = o,
                             !.email = e, !.role = role, !.past = past]
        PROVE  f \in IFrame /\ Kept(f.pc, f, invitations) /\ f.by \in Users
    <3>1. f = [pc |-> "caller", op |-> "send", by |-> u, org |-> o, inv |-> Null,
               email |-> e, role |-> role, known |-> FALSE, past |-> past]
      BY <2>2 DEF IBlank
    <3> QED
      BY <3>1 DEF IFrame, IPCs, AllInvOps, Kept, ExistingOrg
  <2>3. ASSUME NEW f, f = [IBlank EXCEPT !.pc = "expireMine", !.op = "mine", !.by = u, !.email = u]
        PROVE  f \in IFrame /\ Kept(f.pc, f, invitations) /\ f.by \in Users
    <3>1. f = [pc |-> "expireMine", op |-> "mine", by |-> u, org |-> Null, inv |-> Null,
               email |-> u, role |-> "NONE", known |-> FALSE, past |-> FALSE]
      BY <2>3 DEF IBlank
    <3> QED
      BY <3>1 DEF IFrame, IPCs, AllInvOps, Kept
  <2>4. ASSUME NEW i \in KnownInv, NEW op \in {"getByToken", "getById", "accept", "reject"},
               NEW f, f = [IBlank EXCEPT !.pc = "read", !.op = op, !.by = u, !.inv = i]
        PROVE  f \in IFrame /\ Kept(f.pc, f, invitations) /\ f.by \in Users
    <3>1. f = [pc |-> "read", op |-> op, by |-> u, org |-> Null, inv |-> i,
               email |-> Null, role |-> "NONE", known |-> FALSE, past |-> FALSE]
      BY <2>4 DEF IBlank
    <3> QED
      BY <3>1 DEF IFrame, IPCs, AllInvOps, Kept, Known, KnownInv, Views, Answers
  <2>5. ASSUME NEW i \in KnownInv, NEW o \in ExistingOrg,
               NEW f, f = [IBlank EXCEPT !.pc = "caller", !.op = "revoke", !.by = u, !.org = o, !.inv = i]
        PROVE  f \in IFrame /\ Kept(f.pc, f, invitations) /\ f.by \in Users
    <3>1. f = [pc |-> "caller", op |-> "revoke", by |-> u, org |-> o, inv |-> i,
               email |-> Null, role |-> "NONE", known |-> FALSE, past |-> FALSE]
      BY <2>5 DEF IBlank
    <3> QED
      BY <3>1 DEF IFrame, IPCs, AllInvOps, Kept, Known, KnownInv, ExistingOrg
  <2> QED
    BY <1>1, <2>1, <2>2, <2>3, <2>4, <2>5
<1>2. /\ ireq[r].pc = "new" /\ ireq' = [ireq EXCEPT ![r] = f]
      /\ UNCHANGED <<orgs, members, invitations>>
      /\ accounts' \subseteq Users /\ ifired' \subseteq INotice
  BY <1>1 DEF InvIssue, IInv, InvTypeOK
<1> QED
  BY <1>1, <1>2, ReadStep

-----------------------------------------------------------------------------
(* The requests that only read. *)
LEMMA SendReads ==
  ASSUME IInv, NEW r \in Reqs,
         InvCheckCaller(r) \/ SendCheckOrg(r) \/ SendCheckDuplicate(r) \/ SendCheckMember(r)
  PROVE  IInv'
<1> DEFINE g == ireq[r]
<1>1. g \in IFrame /\ Kept(g.pc, g, invitations) /\ UNCHANGED <<orgs, members, accounts, invitations, ifired>>
  BY DEF IInv, InvTypeOK, InvCheckCaller, SendCheckOrg, SendCheckDuplicate, SendCheckMember
<1>2. CASE InvCheckCaller(r)
  <2> DEFINE pc == IF g.op = "send" THEN "org" ELSE "find"
  <2>1. g.pc = "caller" /\ (IGoto(r, pc) \/ IFinish(r))
    BY <1>2 DEF InvCheckCaller, ICheck
  <2>2. pc \in IPCs /\ Kept(pc, g, invitations)
    BY <1>1, <2>1 DEF IPCs, Kept, Views, Answers
  <2> QED
    BY <1>1, <2>1, <2>2, CheckStep
<1>3. CASE SendCheckOrg(r)
  <2>1. g.pc = "org" /\ g.op = "send" /\ (IGoto(r, "duplicate") \/ IFinish(r))
    BY <1>3 DEF SendCheckOrg, ICheck, IAt
  <2>2. "duplicate" \in IPCs /\ Kept("duplicate", g, invitations)
    BY <1>1, <2>1 DEF IPCs, Kept, Views, Answers
  <2> QED
    BY <1>1, <2>1, <2>2, CheckStep
<1>4. CASE SendCheckDuplicate(r)
  <2>1. g.pc = "duplicate" /\ g.op = "send" /\ (IGoto(r, "user") \/ IFinish(r))
    BY <1>4 DEF SendCheckDuplicate, ICheck, IAt
  <2>2. "user" \in IPCs /\ Kept("user", g, invitations)
    BY <1>1, <2>1 DEF IPCs, Kept, Views, Answers
  <2> QED
    BY <1>1, <2>1, <2>2, CheckStep
<1>5. CASE SendCheckMember(r)
  <2>1. g.pc = "member" /\ g.op = "send" /\ (IGoto(r, "insert") \/ IFinish(r))
    BY <1>5 DEF SendCheckMember, ICheck, IAt
  <2>2. "insert" \in IPCs /\ Kept("insert", g, invitations)
    BY <1>1, <2>1 DEF IPCs, Kept, Views, Answers
  <2> QED
    BY <1>1, <2>1, <2>2, CheckStep
<1> QED
  BY <1>2, <1>3, <1>4, <1>5

(* sendInvitation notes whether the address has an account. *)
LEMMA FindsUser ==
  ASSUME IInv, NEW r \in Reqs, SendFindUser(r)
  PROVE  IInv'
<1> DEFINE g     == ireq[r]
           found == g.email \in accounts
           pc    == IF found THEN "member" ELSE "insert"
           f     == [g EXCEPT !.known = found, !.pc = pc]
<1>1. /\ g \in IFrame /\ Kept(g.pc, g, invitations) /\ g.pc = "user" /\ g.op = "send"
      /\ UNCHANGED <<orgs, members, accounts, invitations, ifired>>
      /\ accounts' \subseteq Users /\ ifired' \subseteq INotice
  BY DEF IInv, InvTypeOK, SendFindUser, IAt
<1>2. ireq' = [ireq EXCEPT ![r] = f]
  BY DEF SendFindUser, IInv, InvTypeOK
<1>3. found \in BOOLEAN /\ pc \in {"member", "insert"}
  OBVIOUS
<1> HIDE DEF found, pc
<1>4. Kept(pc, g, invitations)
  BY <1>1, <1>3 DEF Kept, Views, Answers
<1> HIDE DEF g
<1>5. /\ f \in IFrame /\ f.pc = pc /\ f.by = g.by /\ f.op = g.op /\ f.org = g.org /\ f.email = g.email
      /\ f.role = g.role /\ f.inv = g.inv
  BY <1>1, <1>3 DEF IFrame, IPCs
<1> HIDE DEF f
<1>6. Kept(f.pc, f, invitations)
  BY <1>4, <1>5 DEF Kept
<1> QED
  BY <1>1, <1>2, <1>5, <1>6, ReadStep DEF g

(* A view that finds a stale invitation, a member who cannot accept, a       *)
(* revocation that finds its row.                                           *)
LEMMA AnswerReads ==
  ASSUME IInv, NEW r \in Reqs, ViewRead(r) \/ AcceptCheckMember(r) \/ RevokeFind(r)
  PROVE  IInv'
<1> DEFINE g == ireq[r]
<1>1. g \in IFrame /\ Kept(g.pc, g, invitations) /\ UNCHANGED <<orgs, members, accounts, invitations, ifired>>
  BY DEF IInv, InvTypeOK, ViewRead, AcceptCheckMember, RevokeFind
<1>2. CASE ViewRead(r)
  <2>1. /\ g.pc = "read" /\ g.op \in Views
        /\ (IGoto(r, "expire") /\ invitations[g.inv].past) \/ IFinish(r)
    BY <1>2 DEF ViewRead, ICheck, Views
  <2>2. "expire" \in IPCs /\ Known(g.inv, invitations)
    BY <1>1, <2>1 DEF IPCs, Kept, Views, Answers
  <2>3. invitations[g.inv] \in InvRow
    BY <2>2 DEF Known, IInv, InvTypeOK
  <2>4. invitations[g.inv].past => Kept("expire", g, invitations)
    BY <1>1, <2>1, <2>2, <2>3 DEF Kept, Views, InvRow
  <2> QED
    BY <1>1, <2>1, <2>2, <2>4, CheckStep
<1>3. CASE AcceptCheckMember(r)
  <2>1. g.pc = "existing" /\ g.op = "accept" /\ (IGoto(r, "tx") \/ IFinish(r))
    BY <1>3 DEF AcceptCheckMember, ICheck, IAt
  <2>2. "tx" \in IPCs /\ Kept("tx", g, invitations)
    BY <1>1, <2>1 DEF IPCs, Kept, Views, Answers
  <2> QED
    BY <1>1, <2>1, <2>2, CheckStep
<1>4. CASE RevokeFind(r)
  <2>1. g.pc = "find" /\ g.op = "revoke" /\ (IGoto(r, "write") \/ IFinish(r))
    BY <1>4 DEF RevokeFind, ICheck, IAt
  <2>2. "write" \in IPCs /\ Kept("write", g, invitations)
    BY <1>1, <2>1 DEF IPCs, Kept, Views, Answers
  <2> QED
    BY <1>1, <2>1, <2>2, CheckStep
<1> QED
  BY <1>2, <1>3, <1>4

(* resolveAndValidate: what the frame of an answer keeps is the row's. *)
LEMMA Resolves ==
  ASSUME IInv, NEW r \in Reqs, ResolveAndValidate(r)
  PROVE  IInv'
<1> DEFINE g   == ireq[r]
           row == invitations[g.inv]
<1>1. /\ g \in IFrame /\ Kept(g.pc, g, invitations) /\ g.pc = "read" /\ g.op \in Answers
      /\ UNCHANGED <<orgs, members, accounts, invitations, ifired>>
      /\ accounts' \subseteq Users /\ ifired' \subseteq INotice
  BY DEF IInv, InvTypeOK, ResolveAndValidate, Answers
<1>2. Known(g.inv, invitations) /\ g.by \in Users
  BY <1>1 DEF Kept, Views, Answers
<1>3. row \in InvRow /\ RowOK(row) /\ row.status # "none"
  BY <1>2 DEF Known, IInv, InvTypeOK
<1>4. CASE IFinish(r)
  BY <1>1, <1>4, CheckStep DEF IPCs
<1>5. CASE row.past /\ IGoto(r, "expire")
  <2>1. "expire" \in IPCs /\ Kept("expire", g, invitations)
    BY <1>1, <1>2, <1>3, <1>5 DEF IPCs, Kept, Answers, InvRow
  <2> QED
    BY <1>1, <1>5, <2>1, CheckStep
<1>6. CASE row.email = g.by /\ ireq' = [ireq EXCEPT ![r].org = row.org, ![r].role = row.role,
                ![r].pc = IF g.op = "accept" THEN "existing" ELSE "write"]
  <2> DEFINE pc == IF g.op = "accept" THEN "existing" ELSE "write"
             h  == [g EXCEPT !.org = row.org, !.role = row.role]
             f  == [h EXCEPT !.pc = pc]
  <2>1. ireq' = [ireq EXCEPT ![r] = f]
    BY <1>6 DEF IInv, InvTypeOK
  <2>2. pc \in {"existing", "write"} /\ row.org \in OrgIds /\ row.role \in Roles
    BY <1>3 DEF RowOK
  <2> HIDE DEF pc
  <2>3. h \in IFrame /\ h.by = g.by /\ h.op = g.op /\ h.inv = g.inv /\ h.org = row.org /\ h.role = row.role
    BY <1>1, <2>2 DEF IFrame
  <2> HIDE DEF h
  <2>4. Kept(pc, h, invitations)
    <3>1. h.by \in Users /\ h.op \in Answers /\ Known(h.inv, invitations)
            /\ invitations[h.inv].email = h.by /\ invitations[h.inv].org = h.org
            /\ invitations[h.inv].role = h.role
      BY <1>1, <1>2, <1>6, <2>3
    <3> QED
      BY <2>2, <3>1 DEF Kept
  <2>5. pc \in IPCs
    BY <2>2 DEF IPCs
  <2>6. f \in IFrame /\ f.pc = pc /\ Kept(pc, f, invitations)
    BY <2>3, <2>4, <2>5, MovedFrame
  <2> HIDE DEF f
  <2> QED
    BY <1>1, <2>1, <2>6, ReadStep
<1> QED
  BY <1>4, <1>5, <1>6 DEF ResolveAndValidate

-----------------------------------------------------------------------------
(* A table of invitations that another may become. *)
Later(T, U) ==
  /\ U \in [InvIds -> InvRow] /\ \A i \in InvIds : RowOK(U[i])
  /\ Grows(T, U)

NoneInserted(T, U) == \A i \in InvIds : Known(i, U) => Known(i, T)

(* A row that replaces a known one and keeps what it must. *)
LEMMA RowWrite ==
  ASSUME IInv, NEW i, Known(i, invitations), NEW row, RowOK(row), row.status # "none",
         row.org = invitations[i].org, row.email = invitations[i].email,
         row.role = invitations[i].role, row.past = invitations[i].past,
         invitations' = [invitations EXCEPT ![i] = row]
  PROVE  Later(invitations, invitations') /\ NoneInserted(invitations, invitations')
<1>1. i \in InvIds /\ invitations \in [InvIds -> InvRow] /\ row \in InvRow
  BY DEF IInv, InvTypeOK, Known, RowOK
<1>2. invitations' \in [InvIds -> InvRow] /\ invitations'[i] = row
        /\ \A j \in InvIds : j # i => invitations'[j] = invitations[j]
  BY <1>1
<1>3. \A j \in InvIds : RowOK(invitations'[j])
  BY <1>2 DEF IInv
<1>4. Grows(invitations, invitations')
  BY <1>2 DEF Grows
<1>5. NoneInserted(invitations, invitations')
  BY <1>1, <1>2 DEF NoneInserted, Known
<1> QED
  BY <1>2, <1>3, <1>4, <1>5 DEF Later

(* update({ where: { id }, data: { status } }). *)
LEMMA StatusWrite ==
  ASSUME IInv, NEW i, Known(i, invitations), NEW s \in Statuses, SetStatus(i, s),
         s = "EXPIRED" => invitations[i].past = TRUE
  PROVE  Later(invitations, invitations') /\ NoneInserted(invitations, invitations')
<1> DEFINE old == invitations[i]
           row == [old EXCEPT !.status = s]
<1>1. old \in InvRow /\ RowOK(old) /\ old.status # "none"
  BY DEF IInv, InvTypeOK, Known
<1>2. invitations' = [invitations EXCEPT ![i] = row]
  BY DEF SetStatus, IInv, InvTypeOK
<1>3. old.past = TRUE \/ s # "EXPIRED"
  OBVIOUS
<1> HIDE DEF old
<1>4. /\ row \in InvRow /\ row.status = s /\ row.org = old.org /\ row.email = old.email
      /\ row.role = old.role /\ row.past = old.past /\ row.target = old.target /\ row.by = old.by
  BY <1>1 DEF InvRow
<1> HIDE DEF row
<1>5. RowOK(row) /\ row.status # "none"
  BY <1>1, <1>3, <1>4 DEF RowOK, Statuses
<1> QED
  BY <1>2, <1>4, <1>5, RowWrite DEF old

(* The handler of r writes known rows and ends, or goes on to its notice. *)
LEMMA WriteStep ==
  ASSUME IInv, NEW r \in Reqs, ireq[r].pc \notin {"new", "done"}, TablesOK',
         UNCHANGED <<accounts, ifired>>,
         Later(invitations, invitations'), NoneInserted(invitations, invitations'),
         IFinish(r) \/ (IGoto(r, "notify") /\ ireq[r].op \in Answers)
  PROVE  IInv'
<1> DEFINE g == ireq[r]
<1>1. /\ accounts' \subseteq Users /\ ifired' \subseteq INotice
      /\ g \in IFrame /\ Kept(g.pc, g, invitations) /\ ~Known(r, invitations')
  BY DEF IInv, InvTypeOK, Spent, NoneInserted, InvIds
<1>2. CASE IFinish(r)
  <2>1. Kept(IDone.pc, IDone, invitations') /\ Spent(r, IDone.pc, invitations')
    BY EndFrames DEF Kept, Spent
  <2> QED
    BY <1>1, <1>2, <2>1, EndFrames, RequestStep DEF IFinish, Later, NoneInserted
<1>3. CASE IGoto(r, "notify") /\ g.op \in Answers
  <2> DEFINE f == [g EXCEPT !.pc = "notify"]
  <2>1. ireq' = [ireq EXCEPT ![r] = f]
    BY <1>3 DEF IGoto, IInv, InvTypeOK
  <2>2. "notify" \in IPCs /\ Kept("notify", g, invitations')
    <3>1. Kept(g.pc, g, invitations')
      BY <1>1, KeptGrows DEF Later
    <3>2. g.by \in Users /\ Known(g.inv, invitations')
      BY <1>3, <3>1 DEF Kept, Answers, Views
    <3> QED
      BY <1>3, <3>2 DEF Kept, IPCs
  <2>3. f \in IFrame /\ f.pc = "notify" /\ Kept("notify", f, invitations')
    BY <1>1, <2>2, MovedFrame
  <2> HIDE DEF f
  <2>4. Kept(f.pc, f, invitations') /\ Spent(r, f.pc, invitations')
    BY <1>1, <2>3 DEF Spent
  <2> QED
    BY <1>1, <2>1, <2>3, <2>4, RequestStep DEF Later, NoneInserted
<1> QED
  BY <1>2, <1>3

(* The three updates by id: to EXPIRED, REJECTED and REVOKED. *)
LEMMA StatusSteps ==
  ASSUME IInv, NEW r \in Reqs, ExpireOne(r) \/ RejectWrite(r) \/ RevokeWrite(r)
  PROVE  IInv'
<1> DEFINE g == ireq[r]
<1>1. Kept(g.pc, g, invitations) /\ UNCHANGED <<orgs, members, accounts, ifired>>
  BY DEF IInv, ExpireOne, RejectWrite, RevokeWrite
<1>2. TablesOK'
  BY <1>1 DEF IInv, InvTypeOK, TablesOK
<1>3. CASE ExpireOne(r)
  <2>1. g.pc = "expire" /\ SetStatus(g.inv, "EXPIRED") /\ IFinish(r)
    BY <1>3 DEF ExpireOne
  <2>2. Known(g.inv, invitations) /\ invitations[g.inv].past = TRUE
    BY <1>1, <2>1 DEF Kept
  <2>3. Later(invitations, invitations') /\ NoneInserted(invitations, invitations')
    BY <2>1, <2>2, StatusWrite DEF Statuses
  <2> QED
    BY <1>1, <1>2, <2>1, <2>3, WriteStep
<1>4. CASE RejectWrite(r)
  <2>1. g.pc = "write" /\ g.op = "reject" /\ SetStatus(g.inv, "REJECTED") /\ IGoto(r, "notify")
    BY <1>4 DEF RejectWrite, IAt
  <2>2. Known(g.inv, invitations)
    BY <1>1, <2>1 DEF Kept
  <2>3. Later(invitations, invitations') /\ NoneInserted(invitations, invitations')
    BY <2>1, <2>2, StatusWrite DEF Statuses
  <2> QED
    BY <1>1, <1>2, <2>1, <2>3, WriteStep DEF Answers
<1>5. CASE RevokeWrite(r)
  <2>1. g.pc = "write" /\ g.op = "revoke" /\ SetStatus(g.inv, "REVOKED") /\ IFinish(r)
    BY <1>5 DEF RevokeWrite, IAt
  <2>2. Known(g.inv, invitations)
    BY <1>1, <2>1 DEF Kept
  <2>3. Later(invitations, invitations') /\ NoneInserted(invitations, invitations')
    BY <2>1, <2>2, StatusWrite DEF Statuses
  <2> QED
    BY <1>1, <1>2, <2>1, <2>3, WriteStep
<1> QED
  BY <1>3, <1>4, <1>5

(* getMyInvitations' updateMany. *)
LEMMA ExpiresMine ==
  ASSUME IInv, NEW r \in Reqs, ExpireMine(r)
  PROVE  IInv'
<1>1. /\ ireq[r].pc = "expireMine" /\ IFinish(r) /\ UNCHANGED <<orgs, members, accounts, ifired>>
      /\ invitations' = [i \in InvIds |->
           IF Pending(i) /\ invitations[i].past /\ invitations[i].email = ireq[r].by
           THEN [invitations[i] EXCEPT !.status = "EXPIRED"] ELSE invitations[i]]
  BY DEF ExpireMine, IAt
<1>2. TablesOK'
  BY <1>1 DEF IInv, InvTypeOK, TablesOK
<1>3. ASSUME NEW i \in InvIds
      PROVE  /\ invitations'[i] \in InvRow /\ RowOK(invitations'[i])
             /\ (invitations'[i].status = "none") = (invitations[i].status = "none")
             /\ invitations'[i].org = invitations[i].org /\ invitations'[i].email = invitations[i].email
             /\ invitations'[i].role = invitations[i].role /\ invitations'[i].past = invitations[i].past
  <2> DEFINE old == invitations[i]
             row == [old EXCEPT !.status = "EXPIRED"]
  <2>1. old \in InvRow /\ RowOK(old)
    BY DEF IInv, InvTypeOK
  <2>2. CASE Pending(i) /\ old.past /\ old.email = ireq[r].by
    <3>1. invitations'[i] = row /\ old.status = "PENDING" /\ old.past = TRUE
      BY <1>1, <2>1, <2>2 DEF Pending, InvRow
    <3> HIDE DEF old
    <3>2. /\ row \in InvRow /\ row.status = "EXPIRED" /\ row.org = old.org /\ row.email = old.email
          /\ row.role = old.role /\ row.past = old.past /\ row.target = old.target /\ row.by = old.by
      BY <2>1 DEF InvRow, Statuses
    <3> HIDE DEF row
    <3>3. RowOK(row)
      BY <2>1, <3>1, <3>2 DEF RowOK
    <3> QED
      BY <3>1, <3>2, <3>3 DEF old
  <2>3. CASE ~(Pending(i) /\ old.past /\ old.email = ireq[r].by)
    <3>1. invitations'[i] = old
      BY <1>1, <2>3
    <3> QED
      BY <2>1, <3>1
  <2> QED
    BY <2>2, <2>3
<1>4. DOMAIN invitations' = InvIds /\ invitations' = [i \in InvIds |-> invitations'[i]]
  BY <1>1
<1>5. invitations' \in [InvIds -> InvRow]
  BY <1>3, <1>4
<1>6. Later(invitations, invitations') /\ NoneInserted(invitations, invitations')
  BY <1>3, <1>5 DEF Later, Grows, NoneInserted, Known
<1> QED
  BY <1>1, <1>2, <1>6, WriteStep

(* sendInvitation inserts the row its request gives the id to. *)
LEMMA SendInserts ==
  ASSUME IInv, NEW r \in Reqs, SendInsert(r)
  PROVE  IInv'
<1> DEFINE g   == ireq[r]
           row == [status |-> "PENDING", org |-> g.org, email |-> g.email, role |-> g.role,
                   target |-> IF g.known THEN g.email ELSE Null, by |-> g.by, past |-> g.past]
<1>1. /\ g.op = "send" /\ g.pc = "insert" /\ ireq' = [ireq EXCEPT ![r] = IDone]
      /\ invitations' = [invitations EXCEPT ![r] = row]
      /\ UNCHANGED <<orgs, members, accounts>>
      /\ ifired' = ifired \cup {[type |-> t, to |-> g.email, req |-> r] :
                      t \in {"EMAIL"} \cup IF g.known THEN {"ORGANIZATION_INVITE"} ELSE {}}
  BY DEF SendInsert, IFinish, IAt
<1>2. g \in IFrame /\ g.by \in Users /\ g.org \in OrgIds /\ g.email \in Users /\ g.role \in Roles
  BY <1>1 DEF IInv, InvTypeOK, Kept, Views, Answers
<1>3. accounts' \subseteq Users /\ TablesOK' /\ ifired' \subseteq INotice
  BY <1>1, <1>2 DEF IInv, InvTypeOK, TablesOK, INotice
<1>4. r \in InvIds /\ invitations \in [InvIds -> InvRow] /\ ~Known(r, invitations)
  BY <1>1 DEF IInv, InvTypeOK, Spent, InvIds
<1>5. row \in InvRow /\ row.status = "PENDING" /\ RowOK(row)
  BY <1>2 DEF InvRow, IFrame, RowOK, Statuses
<1> HIDE DEF row
<1>6. /\ invitations' \in [InvIds -> InvRow] /\ invitations'[r] = row
      /\ \A i \in InvIds : i # r => invitations'[i] = invitations[i]
  BY <1>1, <1>4, <1>5
<1>7. \A i \in InvIds : RowOK(invitations'[i])
  BY <1>5, <1>6 DEF IInv
<1>8. Grows(invitations, invitations')
  BY <1>4, <1>6 DEF Grows, Known
<1>9. \A i \in InvIds : i # r /\ Known(i, invitations') => Known(i, invitations)
  BY <1>6 DEF Known
<1>10. Kept(IDone.pc, IDone, invitations') /\ Spent(r, IDone.pc, invitations')
  BY EndFrames DEF Kept, Spent
<1> QED
  BY <1>1, <1>3, <1>6, <1>7, <1>8, <1>9, <1>10, EndFrames, RequestStep

(* What acceptInvitation's transaction writes. *)
LEMMA AcceptWrites ==
  ASSUME IInv, NEW r \in Reqs, AcceptTransaction(r), ~IFinish(r)
  PROVE  LET g == ireq[r]  row == [invitations[g.inv] EXCEPT !.status = "ACCEPTED", !.target = g.by] IN
         /\ g.op = "accept" /\ g.pc = "tx" /\ IGoto(r, "notify") /\ UNCHANGED <<orgs, accounts, ifired>>
         /\ Known(g.inv, invitations) /\ g.by \in Users /\ g.org \in OrgIds /\ g.role \in Roles
         /\ invitations[g.inv].email = g.by /\ invitations[g.inv].org = g.org
         /\ invitations[g.inv].role = g.role
         /\ ~IsMember(g.by, g.org) /\ InsertMember(r, g.by, g.org, g.role)
         /\ invitations' = [invitations EXCEPT ![g.inv] = row]
<1> DEFINE g   == ireq[r]
           row == [invitations[g.inv] EXCEPT !.status = "ACCEPTED", !.target = g.by]
<1>1. /\ g.op = "accept" /\ g.pc = "tx" /\ IGoto(r, "notify") /\ UNCHANGED <<orgs, accounts, ifired>>
      /\ ~IsMember(g.by, g.org) /\ InsertMember(r, g.by, g.org, g.role)
      /\ invitations' = [invitations EXCEPT ![g.inv].status = "ACCEPTED", ![g.inv].target = g.by]
  BY DEF AcceptTransaction, IAt
<1>2. Kept(g.pc, g, invitations)
  BY DEF IInv
<1>3. /\ Known(g.inv, invitations) /\ g.by \in Users
      /\ invitations[g.inv].email = g.by /\ invitations[g.inv].org = g.org
      /\ invitations[g.inv].role = g.role
  BY <1>1, <1>2 DEF Kept, Views
<1>4. invitations' = [invitations EXCEPT ![g.inv] = row]
  BY <1>1, <1>3 DEF IInv, InvTypeOK, Known
<1>5. g.org \in OrgIds /\ g.role \in Roles
  BY <1>3 DEF Known, IInv, RowOK
<1> QED
  BY <1>1, <1>3, <1>4, <1>5

(* acceptInvitation's $transaction, or its roll-back. *)
LEMMA Accepts ==
  ASSUME IInv, NEW r \in Reqs, AcceptTransaction(r)
  PROVE  IInv'
<1> DEFINE g   == ireq[r]
           old == invitations[g.inv]
           row == [old EXCEPT !.status = "ACCEPTED", !.target = g.by]
<1>1. CASE IFinish(r)
  <2>1. UNCHANGED <<orgs, members, accounts, invitations, ifired>> /\ g.pc = "tx"
    <3>1. "notify" # "done" /\ ireq[r] \in IFrame /\ IDone.pc = "done"
      BY EndFrames DEF IInv, InvTypeOK
    <3>2. ~IGoto(r, "notify")
      BY <1>1, <3>1 DEF IGoto, IFinish, IInv, InvTypeOK, IFrame
    <3> QED
      BY <3>2 DEF AcceptTransaction, IAt
  <2> QED
    BY <1>1, <2>1, CheckStep DEF IPCs
<1>2. CASE ~IFinish(r)
  <2>1. /\ g.op = "accept" /\ g.pc = "tx" /\ IGoto(r, "notify") /\ UNCHANGED <<orgs, accounts, ifired>>
        /\ Known(g.inv, invitations) /\ g.by \in Users /\ g.org \in OrgIds /\ g.role \in Roles
        /\ old.email = g.by /\ InsertMember(r, g.by, g.org, g.role)
        /\ invitations' = [invitations EXCEPT ![g.inv] = row]
    BY <1>2, AcceptWrites
  <2>2. TablesOK'
    <3>1. [id |-> r, role |-> g.role] \in MemberRow
      BY <2>1 DEF MemberRow, MemberIds
    <3> QED
      BY <2>1, <3>1 DEF InsertMember, IInv, InvTypeOK, TablesOK
  <2>3. Later(invitations, invitations') /\ NoneInserted(invitations, invitations')
    <3>1. old \in InvRow /\ RowOK(old) /\ old.status # "none"
      BY <2>1 DEF IInv, InvTypeOK, Known
    <3>2. /\ row \in InvRow /\ row.status = "ACCEPTED" /\ row.org = old.org /\ row.email = old.email
          /\ row.role = old.role /\ row.past = old.past /\ row.target = g.by /\ row.by = old.by
      BY <2>1, <3>1 DEF InvRow, Statuses
    <3> HIDE DEF row
    <3>3. RowOK(row) /\ row.status # "none"
      BY <2>1, <3>1, <3>2 DEF RowOK
    <3> QED
      BY <2>1, <3>2, <3>3, RowWrite
  <2> QED
    BY <2>1, <2>2, <2>3, WriteStep DEF Answers
<1> QED
  BY <1>1, <1>2

(* The notice to the inviter, whom the row names. *)
LEMMA Notifies ==
  ASSUME IInv, NEW r \in Reqs, NotifyInviter(r)
  PROVE  IInv'
<1> DEFINE g == ireq[r]
<1>1. /\ g.pc = "notify" /\ ireq' = [ireq EXCEPT ![r] = IDone]
      /\ UNCHANGED <<orgs, members, accounts, invitations>>
      /\ ifired' = ifired \cup {[to |-> invitations[g.inv].by, req |-> r, type |->
                      IF g.op = "accept" THEN "INVITE_ACCEPTED" ELSE "INVITE_REJECTED"]}
  BY DEF NotifyInviter, IFinish
<1>2. Kept(g.pc, g, invitations)
  BY DEF IInv
<1>3. Known(g.inv, invitations)
  BY <1>1, <1>2 DEF Kept
<1>4. invitations[g.inv].by \in Users
  BY <1>3 DEF Known, IInv, RowOK
<1>5. accounts' \subseteq Users /\ ifired' \subseteq INotice
  BY <1>1, <1>4 DEF IInv, InvTypeOK, INotice
<1>6. Kept(IDone.pc, IDone, invitations)
  BY EndFrames DEF Kept
<1> QED
  BY <1>1, <1>5, <1>6, EndFrames, ReadStep

(* A failing call, or the end of the process. *)
LEMMA Aborts ==
  ASSUME IInv, NEW r \in Reqs, InvAbort(r)
  PROVE  IInv'
<1>1. ireq[r].pc # "done" /\ IFinish(r) /\ UNCHANGED <<orgs, members, accounts, invitations, ifired>>
  BY DEF InvAbort, IInFlight
<1> QED
  BY <1>1, CheckStep DEF IPCs

(* An invitation's date passes. *)
LEMMA Passes ==
  ASSUME IInv, NEW i \in InvIds, InvPasses(i)
  PROVE  IInv'
<1> DEFINE old == invitations[i]
           row == [old EXCEPT !.past = TRUE]
<1>1. old \in InvRow /\ RowOK(old) /\ invitations' = [invitations EXCEPT ![i] = row]
        /\ UNCHANGED <<orgs, members, accounts, ireq, ifired>>
  BY DEF IInv, InvTypeOK, InvPasses
<1> HIDE DEF old
<1>2. /\ row \in InvRow /\ row.status = old.status /\ row.org = old.org /\ row.email = old.email
      /\ row.role = old.role /\ row.past = TRUE /\ row.target = old.target /\ row.by = old.by
  BY <1>1 DEF InvRow
<1>3. RowOK(row)
  BY <1>1, <1>2 DEF RowOK
<1> HIDE DEF row
<1>4. /\ invitations' \in [InvIds -> InvRow] /\ invitations'[i] = row
      /\ \A j \in InvIds : j # i => invitations'[j] = invitations[j]
  BY <1>1, <1>2 DEF IInv, InvTypeOK
<1>5. \A j \in InvIds : RowOK(invitations'[j])
  BY <1>3, <1>4 DEF IInv
<1>6. Grows(invitations, invitations') /\ NoneInserted(invitations, invitations')
  BY <1>2, <1>4 DEF Grows, NoneInserted, Known, old
<1>7. InvTypeOK'
  BY <1>1, <1>4 DEF IInv, InvTypeOK, TablesOK
<1>8. ASSUME NEW q \in Reqs
      PROVE  Kept(ireq'[q].pc, ireq'[q], invitations') /\ Spent(q, ireq'[q].pc, invitations')
  <2>1. Kept(ireq[q].pc, ireq[q], invitations) /\ Spent(q, ireq[q].pc, invitations)
    BY DEF IInv
  <2>2. Kept(ireq[q].pc, ireq[q], invitations')
    BY <1>6, <2>1, KeptGrows
  <2>3. Spent(q, ireq[q].pc, invitations')
    BY <1>6, <2>1 DEF Spent, NoneInserted, InvIds
  <2> QED
    BY <1>1, <2>2, <2>3
<1> QED
  BY <1>5, <1>7, <1>8 DEF IInv

-----------------------------------------------------------------------------
(* Every step of the service keeps the invariant. *)
LEMMA NextKeeps == IInv /\ [InvNext]_invVars => IInv'
<1> SUFFICES ASSUME IInv, [InvNext]_invVars PROVE IInv'
  OBVIOUS
<1>1. CASE UNCHANGED invVars
  BY <1>1 DEF invVars, IInv, InvTypeOK, TablesOK
<1>2. ASSUME NEW r \in Reqs, InvCall(r) PROVE IInv'
  BY <1>2, CallStep
<1>3. ASSUME NEW r \in Reqs, InvHandler(r) PROVE IInv'
  BY <1>3, SendReads, FindsUser, SendInserts, ExpiresMine, AnswerReads, StatusSteps, Resolves, Accepts,
     Notifies DEF InvHandler
<1>4. ASSUME NEW r \in Reqs, InvAbort(r) PROVE IInv'
  BY <1>4, Aborts
<1>5. ASSUME NEW i \in InvIds, InvPasses(i) PROVE IInv'
  BY <1>5, Passes
<1> QED
  BY <1>1, <1>2, <1>3, <1>4, <1>5 DEF InvNext

(* However requests overlap, what a frame has read of an invitation is still *)
(* true of its row.                                                         *)
THEOREM Invariance == InvSpec => []IInv
  BY InitIInv, NextKeeps, PTL DEF InvSpec

(* Types, and a target is never another user than the addressee. *)
THEOREM TargetsAreAddressees == InvSpec => []InvInv
<1>1. IInv => InvInv
  BY DEF IInv, InvInv, TargetIsAddressee, RowOK
<1> QED
  BY <1>1, Invariance, PTL

(* Four handlers write EXPIRED without a look at the row; it was past. *)
THEOREM OnlyThePastExpires == InvSpec => []ExpiredMeansPast
<1>1. IInv => ExpiredMeansPast
  BY DEF IInv, ExpiredMeansPast, RowOK
<1> QED
  BY <1>1, Invariance, PTL

(* Of all steps, only an accepting transaction touches the memberships or    *)
(* makes an invitation ACCEPTED.                                            *)
LEMMA OnlyAccepting ==
  ASSUME IInv, [InvNext]_invVars
  PROVE  \/ \E r \in Reqs : AcceptTransaction(r) /\ ~IFinish(r)
         \/ /\ members' = members
            /\ \A i \in InvIds : invitations'[i].status = "ACCEPTED" => invitations[i].status = "ACCEPTED"
<1> DEFINE Quiet ==
             /\ members' = members
             /\ \A i \in InvIds : invitations'[i].status = "ACCEPTED" => invitations[i].status = "ACCEPTED"
<1>0. invitations \in [InvIds -> InvRow]
  BY DEF IInv, InvTypeOK
<1>1. CASE UNCHANGED <<members, invitations>>
  BY <1>1
<1>2. ASSUME NEW s \in {"EXPIRED", "REJECTED", "REVOKED"}, NEW i, SetStatus(i, s), members' = members
      PROVE  Quiet
  BY <1>0, <1>2 DEF SetStatus, InvRow
<1>3. ASSUME NEW r \in Reqs, InvHandler(r), ~UNCHANGED <<members, invitations>>
      PROVE  (AcceptTransaction(r) /\ ~IFinish(r)) \/ Quiet
  <2>1. CASE ExpireOne(r) \/ RejectWrite(r) \/ RevokeWrite(r)
    BY <1>2, <2>1 DEF ExpireOne, RejectWrite, RevokeWrite
  <2>2. CASE ExpireMine(r)
    BY <1>0, <2>2 DEF ExpireMine, InvRow
  <2>3. CASE SendInsert(r)
    BY <1>0, <2>3 DEF SendInsert, InvRow
  <2>4. CASE AcceptTransaction(r)
    <3>1. IGoto(r, "notify")
      BY <1>3, <2>4 DEF AcceptTransaction
    <3>2. ~IFinish(r)
      BY <3>1, EndFrames DEF IGoto, IFinish, IInv, InvTypeOK, IFrame
    <3> QED
      BY <2>4, <3>2
  <2> QED
    BY <1>3, <2>1, <2>2, <2>3, <2>4 DEF InvHandler, InvCheckCaller, SendCheckOrg, SendCheckDuplicate,
       SendFindUser, SendCheckMember, ViewRead, ResolveAndValidate, AcceptCheckMember, NotifyInviter,
       RevokeFind
<1>4. ASSUME NEW i \in InvIds, InvPasses(i) PROVE Quiet
  BY <1>0, <1>4 DEF InvPasses, InvRow
<1>5. ASSUME NEW r \in Reqs, InvCall(r) \/ InvAbort(r) PROVE UNCHANGED <<members, invitations>>
  <2>1. InvCall(r) => \E f : InvIssue(r, f)
    BY Zenon DEF InvCall
  <2> QED
    BY <1>5, <2>1 DEF InvIssue, InvAbort
<1> QED
  BY <1>1, <1>3, <1>4, <1>5 DEF InvNext, invVars

(* acceptInvitation's step: whom it makes a member, where and as what. *)
LEMMA AcceptedStep ==
  ASSUME IInv, [InvNext]_invVars, NEW i \in InvIds,
         invitations[i].status # "ACCEPTED", invitations'[i].status = "ACCEPTED"
  PROVE  LET row == invitations[i] IN
           /\ row.email \in Users /\ ~IsMember(row.email, row.org)
           /\ members'[row.org][row.email].role = row.role
           /\ invitations'[i].target = row.email
<1>1. PICK r \in Reqs : AcceptTransaction(r) /\ ~IFinish(r)
  BY OnlyAccepting
<1> DEFINE g   == ireq[r]
           old == invitations[g.inv]
           row == [old EXCEPT !.status = "ACCEPTED", !.target = g.by]
<1>2. /\ Known(g.inv, invitations) /\ g.by \in Users /\ g.org \in OrgIds
      /\ old.email = g.by /\ old.org = g.org /\ old.role = g.role
      /\ ~IsMember(g.by, g.org) /\ InsertMember(r, g.by, g.org, g.role)
      /\ invitations' = [invitations EXCEPT ![g.inv] = row]
  BY <1>1, AcceptWrites
<1>3. g.inv = i /\ invitations'[i] = row
  BY <1>2 DEF IInv, InvTypeOK, Known
<1>4. row.target = g.by
  BY <1>2 DEF IInv, InvTypeOK, Known, InvRow
<1>5. members'[g.org][g.by].role = g.role
  BY <1>2 DEF InsertMember, IInv, InvTypeOK, TablesOK
<1> QED
  BY <1>2, <1>3, <1>4, <1>5

(* Whoever becomes a member does so by an acceptance. *)
LEMMA JoinedStep ==
  ASSUME IInv, [InvNext]_invVars, NEW o \in ExistingOrg, NEW u \in Users,
         ~IsMember(u, o), IsMember(u, o)'
  PROVE  \E i \in KnownInv : /\ invitations[i].org = o /\ invitations[i].email = u
                             /\ invitations[i].role = members'[o][u].role
                             /\ invitations'[i].status = "ACCEPTED"
<1>1. PICK r \in Reqs : AcceptTransaction(r) /\ ~IFinish(r)
  BY OnlyAccepting DEF IsMember
<1> DEFINE g   == ireq[r]
           old == invitations[g.inv]
           row == [old EXCEPT !.status = "ACCEPTED", !.target = g.by]
<1>2. /\ Known(g.inv, invitations) /\ g.by \in Users /\ g.org \in OrgIds
      /\ old.email = g.by /\ old.org = g.org /\ old.role = g.role
      /\ InsertMember(r, g.by, g.org, g.role)
      /\ invitations' = [invitations EXCEPT ![g.inv] = row]
  BY <1>1, AcceptWrites
<1>3. o \in OrgIds /\ members \in [OrgIds -> [Users -> MemberRow \cup {NoMember}]]
  BY DEF ExistingOrg, IInv, InvTypeOK, TablesOK
<1>4. members'[o][u] # members[o][u]
  BY DEF IsMember
<1>5. g.org = o /\ g.by = u /\ members'[o][u].role = g.role
  BY <1>2, <1>3, <1>4 DEF InsertMember
<1>6. g.inv \in KnownInv
  BY <1>2 DEF Known, KnownInv
<1>7. invitations'[g.inv] = row /\ row.status = "ACCEPTED"
  BY <1>2 DEF IInv, InvTypeOK, Known, InvRow
<1> QED
  BY <1>2, <1>5, <1>6, <1>7

(* acceptInvitation, for any number of overlapping requests: an acceptance   *)
(* makes its addressee a member, there and as what they were invited.       *)
THEOREM AddresseesJoin == InvSpec => AcceptanceJoinsAddressee
<1>1. IInv /\ [InvNext]_invVars =>
        [\A i \in InvIds :
           invitations[i].status # "ACCEPTED" /\ invitations'[i].status = "ACCEPTED" =>
             LET row == invitations[i] IN
               /\ row.email \in Users /\ ~IsMember(row.email, row.org)
               /\ members'[row.org][row.email].role = row.role
               /\ invitations'[i].target = row.email]_invVars
  BY AcceptedStep
<1> QED
  BY <1>1, Invariance, PTL DEF InvSpec, AcceptanceJoinsAddressee

(* And nobody becomes a member here but by such an acceptance. *)
THEOREM OnlyInvitedJoin == InvSpec => MembersWereInvited
<1>1. IInv /\ [InvNext]_invVars =>
        [\A o \in ExistingOrg, u \in Users :
           ~IsMember(u, o) /\ IsMember(u, o)' =>
             \E i \in KnownInv : /\ invitations[i].org = o /\ invitations[i].email = u
                                 /\ invitations[i].role = members'[o][u].role
                                 /\ invitations'[i].status = "ACCEPTED"]_invVars
  BY JoinedStep
<1> QED
  BY <1>1, Invariance, PTL DEF InvSpec, MembersWereInvited

-----------------------------------------------------------------------------
(* Requests about one address take turns.                                   *)

(* What send and mine are about is an address, the others an invitation. *)
Shape(f) == f.op \in {"send", "mine"} => f.inv = Null /\ (f.op = "mine" => f.email = f.by)

(* What the checks of a handler have found, and is still so: its invitation *)
(* is pending, or the address has no pending one in the organization.       *)
Fresh(pc, f, T) ==
  /\ f.op # "send" /\ pc \in {"expire", "existing", "tx", "write"} => T[f.inv].status = "PENDING"
  /\ f.op = "send" /\ pc \in {"user", "member", "insert"} =>
       \A i \in InvIds : ~(T[i].status = "PENDING" /\ T[i].org = f.org /\ T[i].email = f.email)

XInv ==
  /\ \A r \in Reqs : Shape(ireq[r]) /\ Fresh(ireq[r].pc, ireq[r], invitations)
  /\ \A q, r \in Reqs : q # r /\ IInFlight(q) /\ IInFlight(r) => Address(ireq[q]) # Address(ireq[r])
  /\ OnePendingPerAddress

-----------------------------------------------------------------------------
(* A step of request r that leaves the other requests' frames alone, and    *)
(* goes on about the same address if it goes on.                            *)
StepOf(r) ==
  /\ IInFlight(r)
  /\ \A q \in Reqs : q # r => ireq'[q] = ireq[q]
  /\ \/ ireq'[r] = IDone
     \/ /\ ireq'[r].op = ireq[r].op /\ ireq'[r].inv = ireq[r].inv
        /\ ireq'[r].email = ireq[r].email /\ ireq'[r].by = ireq[r].by
  /\ Fresh(ireq'[r].pc, ireq'[r], invitations')

(* What a step of request r does to the invitations and the memberships. *)
Rests == UNCHANGED <<members, invitations>>

Sends(r) ==
  LET f == ireq[r] IN
  /\ f.org \in OrgIds /\ f.email \in Users /\ f.role \in Roles /\ f.inv = Null
  /\ invitations[r].status = "none"
  /\ \A i \in InvIds : ~(Pending(i) /\ invitations[i].org = f.org /\ invitations[i].email = f.email)
  /\ \E row \in InvRow :
       /\ row.status = "PENDING" /\ row.org = f.org /\ row.email = f.email /\ row.role = f.role
       /\ invitations' = [invitations EXCEPT ![r] = row]
  /\ members' = members

AcceptsFor(r, i) ==
  LET old == invitations[i] IN
  /\ i \in InvIds /\ Pending(i) /\ old.email = Address(ireq[r])
  /\ old.email \in Users /\ old.org \in OrgIds /\ old.role \in Roles
  /\ ~IsMember(old.email, old.org) /\ InsertMember(r, old.email, old.org, old.role)
  /\ \E row \in InvRow :
       /\ row.status = "ACCEPTED" /\ row.org = old.org /\ row.email = old.email /\ row.role = old.role
       /\ invitations' = [invitations EXCEPT ![i] = row]

Closes(r, S, status) ==
  /\ S \subseteq InvIds /\ \A i \in S : Pending(i) /\ invitations[i].email = Address(ireq[r])
  /\ status \in {"REJECTED", "REVOKED", "EXPIRED"}
  /\ invitations' = [i \in InvIds |->
       IF i \in S THEN [invitations[i] EXCEPT !.status = status] ELSE invitations[i]]
  /\ members' = members

Effect(r) ==
  \/ Rests
  \/ Sends(r)
  \/ \E i \in InvIds : AcceptsFor(r, i)
  \/ \E S \in SUBSET InvIds, status \in {"REJECTED", "REVOKED", "EXPIRED"} : Closes(r, S, status)

(* A handler that ends. *)
LEMMA EndOf ==
  ASSUME IInv, NEW r \in Reqs, IInFlight(r), IFinish(r)
  PROVE  StepOf(r)
<1>1. ireq'[r] = IDone /\ \A q \in Reqs : q # r => ireq'[q] = ireq[q]
  BY DEF IFinish, IInv, InvTypeOK
<1>2. Fresh(ireq'[r].pc, ireq'[r], invitations')
  BY <1>1 DEF Fresh, IDone, IBlank
<1> QED
  BY <1>1, <1>2 DEF StepOf

(* A handler that goes on to the call pc. *)
LEMMA GoneTo ==
  ASSUME IInv, NEW r \in Reqs, IInFlight(r), NEW pc \in IPCs, IGoto(r, pc),
         Fresh(pc, ireq[r], invitations')
  PROVE  StepOf(r)
<1> DEFINE g == ireq[r]
           h == [g EXCEPT !.pc = pc]
<1>1. ireq'[r] = h /\ g \in IFrame /\ \A q \in Reqs : q # r => ireq'[q] = ireq[q]
  BY DEF IGoto, IInv, InvTypeOK
<1>2. Fresh(pc, g, invitations')
  OBVIOUS
<1> HIDE DEF g
<1>3. h.pc = pc /\ h.op = g.op /\ h.inv = g.inv /\ h.email = g.email /\ h.by = g.by /\ h.org = g.org
  BY <1>1 DEF IFrame
<1> HIDE DEF h
<1>4. Fresh(h.pc, h, invitations')
  BY <1>2, <1>3 DEF Fresh
<1> QED
  BY <1>1, <1>3, <1>4 DEF StepOf, g

(* A check. *)
LEMMA CheckOf ==
  ASSUME IInv, NEW r \in Reqs, IInFlight(r), NEW pc \in IPCs, NEW ok, ICheck(r, ok, pc),
         ok => Fresh(pc, ireq[r], invitations')
  PROVE  StepOf(r)
<1>1. CASE ok
  BY <1>1, GoneTo DEF ICheck
<1>2. CASE ~ok
  BY <1>2, EndOf DEF ICheck
<1> QED
  BY <1>1, <1>2

(* The reads of sendInvitation and revokeInvitation, the views, and a member *)
(* who cannot accept.                                                       *)
LEMMA ChecksOf ==
  ASSUME IInv, XInv, NEW r \in Reqs,
         InvCheckCaller(r) \/ SendCheckOrg(r) \/ SendCheckDuplicate(r) \/ SendCheckMember(r)
         \/ ViewRead(r) \/ AcceptCheckMember(r) \/ RevokeFind(r)
  PROVE  StepOf(r) /\ Rests
<1> DEFINE g == ireq[r]
<1>1. invitations' = invitations /\ members' = members /\ Fresh(g.pc, g, invitations)
  BY DEF XInv, InvCheckCaller, SendCheckOrg, SendCheckDuplicate, SendCheckMember, ViewRead,
     AcceptCheckMember, RevokeFind
<1>2. CASE InvCheckCaller(r)
  <2> DEFINE pc == IF g.op = "send" THEN "org" ELSE "find"
  <2>1. IInFlight(r) /\ pc \in IPCs /\ ICheck(r, IsAdminOrOwner(g.by, g.org), pc)
    BY <1>2 DEF InvCheckCaller, IInFlight, IPCs
  <2>2. Fresh(pc, g, invitations')
    BY DEF Fresh
  <2> QED
    BY <1>1, <2>1, <2>2, CheckOf DEF Rests
<1>3. CASE SendCheckOrg(r)
  <2>1. IInFlight(r) /\ "duplicate" \in IPCs /\ ICheck(r, orgs[g.org].isActive, "duplicate")
    BY <1>3 DEF SendCheckOrg, IAt, IInFlight, IPCs
  <2>2. Fresh("duplicate", g, invitations')
    BY DEF Fresh
  <2> QED
    BY <1>1, <2>1, <2>2, CheckOf DEF Rests
<1>4. CASE SendCheckDuplicate(r)
  <2>1. IInFlight(r) /\ g.op = "send" /\ "user" \in IPCs
          /\ ICheck(r, PendingFor(g.org, g.email) = {}, "user")
    BY <1>4 DEF SendCheckDuplicate, IAt, IInFlight, IPCs
  <2>2. PendingFor(g.org, g.email) = {} => Fresh("user", g, invitations')
    BY <1>1, <2>1 DEF Fresh, PendingFor, Pending
  <2> QED
    BY <1>1, <2>1, <2>2, CheckOf DEF Rests
<1>5. CASE SendCheckMember(r)
  <2>1. IInFlight(r) /\ g.op = "send" /\ g.pc = "member" /\ "insert" \in IPCs
          /\ ICheck(r, ~IsMember(g.email, g.org), "insert")
    BY <1>5 DEF SendCheckMember, IAt, IInFlight, IPCs
  <2>2. Fresh("insert", g, invitations')
    BY <1>1, <2>1 DEF Fresh
  <2> QED
    BY <1>1, <2>1, <2>2, CheckOf DEF Rests
<1>6. CASE ViewRead(r)
  <2>1. IInFlight(r) /\ g.op # "send" /\ "expire" \in IPCs
          /\ ICheck(r, MayView(g) /\ Pending(g.inv) /\ invitations[g.inv].past, "expire")
    BY <1>6 DEF ViewRead, IInFlight, IPCs
  <2>2. Pending(g.inv) => Fresh("expire", g, invitations')
    BY <1>1, <2>1 DEF Fresh, Pending
  <2> QED
    BY <1>1, <2>1, <2>2, CheckOf DEF Rests
<1>7. CASE AcceptCheckMember(r)
  <2>1. IInFlight(r) /\ g.op = "accept" /\ g.pc = "existing" /\ "tx" \in IPCs
          /\ ICheck(r, ~IsMember(g.by, g.org), "tx")
    BY <1>7 DEF AcceptCheckMember, IAt, IInFlight, IPCs
  <2>2. Fresh("tx", g, invitations')
    BY <1>1, <2>1 DEF Fresh
  <2> QED
    BY <1>1, <2>1, <2>2, CheckOf DEF Rests
<1>8. CASE RevokeFind(r)
  <2>1. IInFlight(r) /\ g.op = "revoke" /\ "write" \in IPCs
          /\ ICheck(r, invitations[g.inv].org = g.org /\ Pending(g.inv), "write")
    BY <1>8 DEF RevokeFind, IAt, IInFlight, IPCs
  <2>2. Pending(g.inv) => Fresh("write", g, invitations')
    BY <1>1, <2>1 DEF Fresh, Pending
  <2> QED
    BY <1>1, <2>1, <2>2, CheckOf DEF Rests
<1> QED
  BY <1>2, <1>3, <1>4, <1>5, <1>6, <1>7, <1>8

(* sendInvitation's look for the account of the address. *)
LEMMA FindsUserOf ==
  ASSUME IInv, XInv, NEW r \in Reqs, SendFindUser(r)
  PROVE  StepOf(r) /\ Rests
<1> DEFINE g     == ireq[r]
           found == g.email \in accounts
           pc    == IF found THEN "member" ELSE "insert"
           k     == [g EXCEPT !.known = found]
           h     == [k EXCEPT !.pc = pc]
<1>1. /\ IInFlight(r) /\ invitations' = invitations /\ members' = members
      /\ g.op = "send" /\ g.pc = "user" /\ g \in IFrame
  BY DEF SendFindUser, IAt, IInFlight, IInv, InvTypeOK
<1>2. ireq'[r] = h /\ \A q \in Reqs : q # r => ireq'[q] = ireq[q]
  BY DEF SendFindUser, IInv, InvTypeOK
<1>3. Fresh("user", g, invitations) /\ pc \in {"member", "insert"}
  BY <1>1 DEF XInv
<1> HIDE DEF g, found, pc
<1>4. /\ k.op = g.op /\ k.inv = g.inv /\ k.email = g.email /\ k.by = g.by /\ k.org = g.org
      /\ h.pc = pc /\ h.op = k.op /\ h.inv = k.inv /\ h.email = k.email /\ h.by = k.by /\ h.org = k.org
  BY <1>1 DEF IFrame
<1> HIDE DEF k, h
<1>5. Fresh(h.pc, h, invitations')
  BY <1>1, <1>3, <1>4 DEF Fresh
<1> QED
  BY <1>1, <1>2, <1>4, <1>5 DEF StepOf, Rests, g

(* resolveAndValidate: a pending invitation, stale or to be answered. *)
LEMMA ResolvesOf ==
  ASSUME IInv, XInv, NEW r \in Reqs, ResolveAndValidate(r)
  PROVE  StepOf(r) /\ Rests
<1> DEFINE g   == ireq[r]
           row == invitations[g.inv]
<1>1. /\ IInFlight(r) /\ invitations' = invitations /\ members' = members
      /\ g.op \in Answers /\ g \in IFrame
  BY DEF ResolveAndValidate, IInFlight, Answers, IInv, InvTypeOK
<1>2. CASE IFinish(r)
  BY <1>1, <1>2, EndOf DEF Rests
<1>3. CASE row.status = "PENDING" /\ IGoto(r, "expire")
  <2>1. "expire" \in IPCs /\ Fresh("expire", g, invitations')
    BY <1>1, <1>3 DEF IPCs, Fresh, Answers
  <2> QED
    BY <1>1, <1>3, <2>1, GoneTo DEF Rests
<1>4. CASE /\ row.status = "PENDING"
           /\ ireq' = [ireq EXCEPT ![r].org = row.org, ![r].role = row.role,
                ![r].pc = IF g.op = "accept" THEN "existing" ELSE "write"]
  <2> DEFINE pc == IF g.op = "accept" THEN "existing" ELSE "write"
             j  == [g EXCEPT !.org = row.org]
             k  == [j EXCEPT !.role = row.role]
             h  == [k EXCEPT !.pc = pc]
  <2>1. ireq'[r] = h /\ \A q \in Reqs : q # r => ireq'[q] = ireq[q]
    BY <1>4 DEF IInv, InvTypeOK
  <2>2. pc \in {"existing", "write"} /\ invitations[g.inv].status = "PENDING"
    BY <1>4
  <2> HIDE DEF g, pc, row
  <2>3. /\ j.op = g.op /\ j.inv = g.inv /\ j.email = g.email /\ j.by = g.by
        /\ k.op = j.op /\ k.inv = j.inv /\ k.email = j.email /\ k.by = j.by
        /\ h.pc = pc /\ h.op = k.op /\ h.inv = k.inv /\ h.email = k.email /\ h.by = k.by
    BY <1>1 DEF IFrame
  <2> HIDE DEF h, j, k
  <2>4. Fresh(h.pc, h, invitations')
    BY <1>1, <2>2, <2>3 DEF Fresh, Answers
  <2> QED
    BY <1>1, <2>1, <2>3, <2>4 DEF StepOf, Rests, g
<1> QED
  BY <1>2, <1>3, <1>4 DEF ResolveAndValidate

(* The notice to the inviter, and a call that fails. *)
LEMMA EndsOf ==
  ASSUME IInv, NEW r \in Reqs, NotifyInviter(r) \/ InvAbort(r)
  PROVE  StepOf(r) /\ Rests
<1>1. IInFlight(r) /\ IFinish(r) /\ Rests
  BY DEF NotifyInviter, InvAbort, IInFlight, Rests
<1> QED
  BY <1>1, EndOf

-----------------------------------------------------------------------------
(* One invitation closed by its id. *)
LEMMA ClosesOne ==
  ASSUME IInv, NEW r \in Reqs, NEW status \in {"REJECTED", "REVOKED", "EXPIRED"},
         Known(ireq[r].inv, invitations), Pending(ireq[r].inv), SetStatus(ireq[r].inv, status),
         members' = members
  PROVE  Closes(r, {ireq[r].inv}, status)
<1> DEFINE i == ireq[r].inv
<1>1. i \in InvIds /\ i # Null
  BY InvAssumption DEF Known
<1>2. invitations' = [j \in InvIds |->
        IF j \in {i} THEN [invitations[j] EXCEPT !.status = status] ELSE invitations[j]]
  BY <1>1 DEF SetStatus, IInv, InvTypeOK
<1> QED
  BY <1>1, <1>2 DEF Closes, Address

(* An expiry, a rejection, a revocation. *)
LEMMA ClosingOf ==
  ASSUME IInv, XInv, NEW r \in Reqs, ExpireOne(r) \/ RejectWrite(r) \/ RevokeWrite(r)
  PROVE  StepOf(r) /\ Effect(r)
<1> DEFINE g == ireq[r]
<1>1. /\ Kept(g.pc, g, invitations) /\ Fresh(g.pc, g, invitations) /\ members' = members
      /\ IInFlight(r)
  BY DEF IInv, XInv, ExpireOne, RejectWrite, RevokeWrite, IAt, IInFlight
<1>2. ASSUME NEW status \in {"REJECTED", "REVOKED", "EXPIRED"}, SetStatus(g.inv, status),
             g.op # "send", g.op # "mine", g.pc \in {"expire", "write"}
      PROVE  Effect(r)
  <2>1. Known(g.inv, invitations) /\ Pending(g.inv)
    BY <1>1, <1>2 DEF Kept, Fresh, Pending
  <2>2. Closes(r, {g.inv}, status)
    BY <1>1, <1>2, <2>1, ClosesOne
  <2> QED
    BY <2>1, <2>2 DEF Effect, Known
<1>3. CASE ExpireOne(r)
  <2>1. g.pc = "expire" /\ SetStatus(g.inv, "EXPIRED") /\ IFinish(r)
    BY <1>3 DEF ExpireOne
  <2>2. g.op # "send" /\ g.op # "mine"
    BY <1>1, <2>1 DEF Kept, Views, Answers
  <2> QED
    BY <1>1, <1>2, <2>1, <2>2, EndOf
<1>4. CASE RejectWrite(r)
  <2>1. g.pc = "write" /\ g.op = "reject" /\ SetStatus(g.inv, "REJECTED") /\ IGoto(r, "notify")
    BY <1>4 DEF RejectWrite, IAt
  <2>2. "notify" \in IPCs /\ Fresh("notify", g, invitations')
    BY DEF IPCs, Fresh
  <2> QED
    BY <1>1, <1>2, <2>1, <2>2, GoneTo
<1>5. CASE RevokeWrite(r)
  <2>1. g.pc = "write" /\ g.op = "revoke" /\ SetStatus(g.inv, "REVOKED") /\ IFinish(r)
    BY <1>5 DEF RevokeWrite, IAt
  <2> QED
    BY <1>1, <1>2, <2>1, EndOf
<1> QED
  BY <1>3, <1>4, <1>5

(* getMyInvitations expires some of the caller's. *)
LEMMA ExpiresMineOf ==
  ASSUME IInv, XInv, NEW r \in Reqs, ExpireMine(r)
  PROVE  StepOf(r) /\ Effect(r)
<1> DEFINE g == ireq[r]
           S == {i \in InvIds : Pending(i) /\ invitations[i].past /\ invitations[i].email = g.by}
<1>1. /\ IInFlight(r) /\ IFinish(r) /\ members' = members /\ g.op = "mine"
      /\ invitations' = [i \in InvIds |->
           IF Pending(i) /\ invitations[i].past /\ invitations[i].email = g.by
           THEN [invitations[i] EXCEPT !.status = "EXPIRED"] ELSE invitations[i]]
  BY DEF ExpireMine, IAt, IInFlight
<1>2. g.inv = Null /\ g.email = g.by
  BY <1>1 DEF XInv, Shape
<1>3. invitations' = [i \in InvIds |->
        IF i \in S THEN [invitations[i] EXCEPT !.status = "EXPIRED"] ELSE invitations[i]]
  BY <1>1
<1>4. S \in SUBSET InvIds /\ \A i \in S : Pending(i) /\ invitations[i].email = Address(g)
  BY <1>2 DEF Address
<1> HIDE DEF S
<1>5. Closes(r, S, "EXPIRED")
  BY <1>1, <1>3, <1>4 DEF Closes
<1> QED
  BY <1>1, <1>4, <1>5, EndOf DEF Effect

(* sendInvitation's insert. *)
LEMMA SendsOf ==
  ASSUME IInv, XInv, NEW r \in Reqs, SendInsert(r)
  PROVE  StepOf(r) /\ Effect(r)
<1> DEFINE g   == ireq[r]
           row == [status |-> "PENDING", org |-> g.org, email |-> g.email, role |-> g.role,
                   target |-> IF g.known THEN g.email ELSE Null, by |-> g.by, past |-> g.past]
<1>1. /\ g.op = "send" /\ g.pc = "insert" /\ IFinish(r) /\ IInFlight(r) /\ members' = members
      /\ invitations' = [invitations EXCEPT ![r] = row] /\ g \in IFrame
  BY DEF SendInsert, IAt, IInFlight, IInv, InvTypeOK
<1>2. g.by \in Users /\ g.org \in OrgIds /\ g.email \in Users /\ g.role \in Roles /\ g.inv = Null
  BY <1>1 DEF IInv, XInv, Shape, Kept, Views, Answers
<1>3. \A i \in InvIds : ~(Pending(i) /\ invitations[i].org = g.org /\ invitations[i].email = g.email)
  BY <1>1 DEF XInv, Fresh, Pending
<1>4. invitations[r].status = "none"
  BY <1>1 DEF IInv, Spent, Known, InvIds
<1>5. /\ row \in InvRow /\ row.status = "PENDING" /\ row.org = g.org /\ row.email = g.email
      /\ row.role = g.role
  BY <1>1, <1>2 DEF InvRow, IFrame, Statuses
<1> HIDE DEF row
<1>6. Sends(r)
  BY <1>1, <1>2, <1>3, <1>4, <1>5 DEF Sends
<1> QED
  BY <1>1, <1>6, EndOf DEF Effect

(* acceptInvitation's transaction. *)
LEMMA AcceptsOf ==
  ASSUME IInv, XInv, NEW r \in Reqs, AcceptTransaction(r)
  PROVE  StepOf(r) /\ Effect(r)
<1> DEFINE g   == ireq[r]
           old == invitations[g.inv]
           row == [old EXCEPT !.status = "ACCEPTED", !.target = g.by]
<1>1. IInFlight(r) /\ g.op = "accept" /\ g.pc = "tx" /\ Fresh("tx", g, invitations)
  BY DEF AcceptTransaction, IAt, IInFlight, XInv
<1>2. CASE IFinish(r)
  <2>1. Rests
    <3>1. "notify" # "done" /\ ireq[r] \in IFrame /\ IDone.pc = "done"
      BY EndFrames DEF IInv, InvTypeOK
    <3>2. ~IGoto(r, "notify")
      BY <1>2, <3>1 DEF IGoto, IFinish, IInv, InvTypeOK, IFrame
    <3> QED
      BY <3>2 DEF AcceptTransaction, Rests
  <2> QED
    BY <1>1, <1>2, <2>1, EndOf DEF Effect
<1>3. CASE ~IFinish(r)
  <2>1. /\ IGoto(r, "notify") /\ Known(g.inv, invitations)
        /\ g.by \in Users /\ g.org \in OrgIds /\ g.role \in Roles
        /\ old.email = g.by /\ old.org = g.org /\ old.role = g.role
        /\ ~IsMember(g.by, g.org) /\ InsertMember(r, g.by, g.org, g.role)
        /\ invitations' = [invitations EXCEPT ![g.inv] = row]
    BY <1>3, AcceptWrites
  <2>2. Pending(g.inv) /\ g.inv \in InvIds /\ old.email = Address(g)
    BY <1>1, <2>1, InvAssumption DEF Fresh, Pending, Known, Address
  <2>3. old \in InvRow
    BY <2>2 DEF IInv, InvTypeOK
  <2>4. /\ row \in InvRow /\ row.status = "ACCEPTED" /\ row.org = old.org /\ row.email = old.email
        /\ row.role = old.role
    <3> HIDE DEF g, old
    <3> QED
      BY <2>1, <2>3 DEF InvRow, Statuses
  <2> HIDE DEF row
  <2>5. AcceptsFor(r, g.inv)
    BY <2>1, <2>2, <2>4 DEF AcceptsFor
  <2>6. "notify" \in IPCs /\ Fresh("notify", g, invitations')
    BY DEF IPCs, Fresh
  <2> QED
    BY <1>1, <2>1, <2>2, <2>5, <2>6, GoneTo DEF Effect
<1> QED
  BY <1>2, <1>3

(* Every step of a handler. *)
LEMMA StepShape ==
  ASSUME IInv, XInv, NEW r \in Reqs, InvHandler(r) \/ InvAbort(r)
  PROVE  StepOf(r) /\ Effect(r)
<1>1. Rests => Effect(r)
  BY DEF Effect
<1> QED
  BY <1>1, ChecksOf, FindsUserOf, ResolvesOf, EndsOf, ClosingOf, ExpiresMineOf, SendsOf, AcceptsOf
     DEF InvHandler

-----------------------------------------------------------------------------
(* A step about address a touches no row of another address, and a row it   *)
(* touches keeps its address and organization.                              *)
Touches(a, T, U) ==
  \A i \in InvIds :
    \/ U[i] = T[i]
    \/ /\ U[i].email = a
       /\ T[i].status # "none" => T[i].email = a /\ U[i].org = T[i].org

LEMMA TouchesOf ==
  ASSUME IInv, XInv, NEW r \in Reqs, Effect(r)
  PROVE  Touches(Address(ireq[r]), invitations, invitations')
<1> DEFINE a == Address(ireq[r])
<1>0. invitations \in [InvIds -> InvRow] /\ r \in InvIds
  BY DEF IInv, InvTypeOK, InvIds
<1>1. CASE Rests
  BY <1>1 DEF Rests, Touches
<1>2. CASE Sends(r)
  BY <1>0, <1>2 DEF Sends, Touches, Address
<1>3. ASSUME NEW i \in InvIds, AcceptsFor(r, i) PROVE Touches(a, invitations, invitations')
  BY <1>0, <1>3 DEF AcceptsFor, Touches
<1>4. ASSUME NEW S \in SUBSET InvIds, NEW status \in {"REJECTED", "REVOKED", "EXPIRED"},
             Closes(r, S, status)
      PROVE  Touches(a, invitations, invitations')
  BY <1>0, <1>4 DEF Closes, Touches, InvRow
<1> QED
  BY <1>1, <1>2, <1>3, <1>4 DEF Effect

(* The address of a request in flight stays what it was. *)
LEMMA AddressStays ==
  ASSUME IInv, XInv, NEW q \in Reqs, IInFlight(q), NEW a, Touches(a, invitations, invitations')
  PROVE  LET i == ireq[q].inv IN
         /\ i # Null => Known(i, invitations) /\ invitations'[i].email = invitations[i].email
         /\ ireq[q].op \notin {"send", "mine"} => i # Null
<1> DEFINE g == ireq[q]
<1>1. Kept(g.pc, g, invitations) /\ Shape(g) /\ g.pc \notin {"new", "done"}
  BY DEF IInv, XInv, IInFlight
<1>2. g.op \in {"send", "mine"} \/ Known(g.inv, invitations)
  BY <1>1 DEF Kept
<1>3. g.op \in {"send", "mine"} => g.inv = Null
  BY <1>1 DEF Shape
<1>4. Known(g.inv, invitations) => invitations'[g.inv].email = invitations[g.inv].email
  BY DEF Known, Touches
<1> QED
  BY <1>2, <1>3, <1>4, InvAssumption DEF Known

(* What another request has found about its own address is still so. *)
LEMMA FreshStays ==
  ASSUME IInv, XInv, NEW q \in Reqs, IInFlight(q), NEW a, a # Address(ireq[q]),
         Touches(a, invitations, invitations')
  PROVE  Fresh(ireq[q].pc, ireq[q], invitations')
<1> DEFINE g == ireq[q]
<1>1. Fresh(g.pc, g, invitations) /\ Shape(g) /\ Kept(g.pc, g, invitations) /\ g.pc \notin {"new", "done"}
  BY DEF IInv, XInv, IInFlight
<1>2. CASE g.op = "send"
  <2>1. a # g.email
    BY <1>1, <1>2 DEF Shape, Address
  <2> QED
    BY <1>1, <1>2, <2>1 DEF Fresh, Touches
<1>3. CASE g.op # "send"
  <2> SUFFICES ASSUME g.pc \in {"expire", "existing", "tx", "write"}
               PROVE  invitations'[g.inv].status = "PENDING"
    BY <1>3 DEF Fresh
  <2>1. Known(g.inv, invitations) /\ invitations[g.inv].status = "PENDING"
    BY <1>1, <1>3 DEF Kept, Fresh
  <2>2. a # invitations[g.inv].email
    BY <2>1, InvAssumption DEF Address, Known
  <2> QED
    BY <2>1, <2>2 DEF Touches, Known
<1> QED
  BY <1>2, <1>3

(* One pending invitation per address, after whatever a request does. *)
LEMMA OneStays ==
  ASSUME IInv, XInv, NEW r \in Reqs, Effect(r)
  PROVE  OnePendingPerAddress'
<1> DEFINE T == invitations
<1>0. invitations \in [InvIds -> InvRow] /\ r \in InvIds
  BY DEF IInv, InvTypeOK, InvIds
<1>1. SUFFICES ASSUME NEW i \in InvIds, NEW j \in InvIds,
                      invitations'[i].status = "PENDING", invitations'[j].status = "PENDING",
                      invitations'[i].org = invitations'[j].org,
                      invitations'[i].email = invitations'[j].email,
                      invitations'[i].org \in OrgIds, invitations'[i].email \in Users
               PROVE  i = j
  BY DEF OnePendingPerAddress, PendingFor, Pending
<1>2. T[i] = invitations'[i] /\ T[j] = invitations'[j] => i = j
  BY <1>1 DEF XInv, OnePendingPerAddress, PendingFor, Pending
<1>3. CASE Rests
  BY <1>2, <1>3 DEF Rests
<1>4. CASE Sends(r)
  BY <1>0, <1>1, <1>2, <1>4 DEF Sends, Pending
<1>5. ASSUME NEW k \in InvIds, AcceptsFor(r, k) PROVE i = j
  BY <1>0, <1>1, <1>2, <1>5 DEF AcceptsFor
<1>6. ASSUME NEW S \in SUBSET InvIds, NEW status \in {"REJECTED", "REVOKED", "EXPIRED"},
             Closes(r, S, status)
      PROVE  i = j
  BY <1>0, <1>1, <1>2, <1>6 DEF Closes, InvRow
<1> QED
  BY <1>3, <1>4, <1>5, <1>6 DEF Effect

(* A handler's step. *)
LEMMA HandlerKeepsX ==
  ASSUME IInv, XInv, NEW r \in Reqs, StepOf(r), Effect(r)
  PROVE  XInv'
<1> DEFINE a == Address(ireq[r])
<1>1. Touches(a, invitations, invitations')
  BY TouchesOf
<1>2. IInFlight(r) /\ \A q \in Reqs : q # r => ireq'[q] = ireq[q]
  BY DEF StepOf
<1>3. ASSUME NEW q \in Reqs PROVE Shape(ireq'[q]) /\ Fresh(ireq'[q].pc, ireq'[q], invitations')
  <2>1. CASE q = r
    <3>1. Shape(ireq[r])
      BY DEF XInv
    <3>2. Shape(ireq'[r])
      BY <3>1 DEF StepOf, Shape, IDone, IBlank
    <3> QED
      BY <2>1, <3>2 DEF StepOf
  <2>2. CASE q # r /\ IInFlight(q)
    BY <1>1, <1>2, <2>2, FreshStays DEF XInv
  <2>3. CASE q # r /\ ~IInFlight(q)
    BY <1>2, <2>3 DEF XInv, IInFlight, Fresh
  <2> QED
    BY <2>1, <2>2, <2>3
<1>4. ASSUME NEW q \in Reqs, IInFlight(q)' PROVE IInFlight(q) /\ Address(ireq[q])' = Address(ireq[q])
  <2>1. CASE q = r
    <3>1. ireq'[r] # IDone
      BY <1>4, <2>1, EndFrames DEF IInFlight
    <3>2. ireq'[r].inv = ireq[r].inv /\ ireq'[r].email = ireq[r].email
      BY <3>1 DEF StepOf
    <3>3. ireq[r].inv # Null => invitations'[ireq[r].inv].email = invitations[ireq[r].inv].email
      BY <1>1, <1>2, AddressStays
    <3> QED
      BY <1>2, <2>1, <3>2, <3>3 DEF Address
  <2>2. CASE q # r
    <3>1. ireq'[q] = ireq[q] /\ IInFlight(q)
      BY <1>2, <1>4, <2>2 DEF IInFlight
    <3>2. ireq[q].inv # Null => invitations'[ireq[q].inv].email = invitations[ireq[q].inv].email
      BY <1>1, <3>1, AddressStays
    <3> QED
      BY <3>1, <3>2 DEF Address
  <2> QED
    BY <2>1, <2>2
<1>5. \A p, q \in Reqs : p # q /\ IInFlight(p)' /\ IInFlight(q)' => Address(ireq[p])' # Address(ireq[q])'
  BY <1>4 DEF XInv
<1> QED
  BY <1>3, <1>5, OneStays DEF XInv

(* A client that waits with a request about an address in use. *)
LEMMA CallKeepsX ==
  ASSUME InvExclusive, IInv, XInv, NEW r \in Reqs, InvCall(r)
  PROVE  XInv' /\ Rests
<1>1. PICK f : InvIssue(r, f) /\ Shape(f) /\ Fresh(f.pc, f, invitations)
  <2>1. PICK u \in Users :
      \/ \E o \in ExistingOrg, e \in Users, role \in Roles, past \in BOOLEAN :
           InvIssue(r, [IBlank EXCEPT !.pc = "caller", !.op = "send", !.by = u, !.org = o,
                          !.email = e, !.role = role, !.past = past])
      \/ InvIssue(r, [IBlank EXCEPT !.pc = "expireMine", !.op = "mine", !.by = u, !.email = u])
      \/ \E i \in KnownInv, op \in {"getByToken", "getById", "accept", "reject"} :
             InvIssue(r, [IBlank EXCEPT !.pc = "read", !.op = op, !.by = u, !.inv = i])
      \/ \E i \in KnownInv, o \in ExistingOrg :
             InvIssue(r, [IBlank EXCEPT !.pc = "caller", !.op = "revoke", !.by = u,
                            !.org = o, !.inv = i])
    BY DEF InvCall
  <2>2. ASSUME NEW o \in ExistingOrg, NEW e \in Users, NEW role \in Roles, NEW past \in BOOLEAN,
               NEW f, f = [IBlank EXCEPT !.pc = "caller", !.op = "send", !.by = u, !.org = o,
                             !.email = e, !.role = role, !.past = past]
        PROVE  Shape(f) /\ Fresh(f.pc, f, invitations)
    <3>1. f = [pc |-> "caller", op |-> "send", by |-> u, org |-> o, inv |-> Null,
               email |-> e, role |-> role, known |-> FALSE, past |-> past]
      BY <2>2 DEF IBlank
    <3> QED
      BY <3>1 DEF Shape, Fresh
  <2>3. ASSUME NEW f, f = [IBlank EXCEPT !.pc = "expireMine", !.op = "mine", !.by = u, !.email = u]
        PROVE  Shape(f) /\ Fresh(f.pc, f, invitations)
    <3>1. f = [pc |-> "expireMine", op |-> "mine", by |-> u, org |-> Null, inv |-> Null,
               email |-> u, role |-> "NONE", known |-> FALSE, past |-> FALSE]
      BY <2>3 DEF IBlank
    <3> QED
      BY <3>1 DEF Shape, Fresh
  <2>4. ASSUME NEW i \in KnownInv, NEW op \in {"getByToken", "getById", "accept", "reject"},
               NEW f, f = [IBlank EXCEPT !.pc = "read", !.op = op, !.by = u, !.inv = i]
        PROVE  Shape(f) /\ Fresh(f.pc, f, invitations)
    <3>1. f = [pc |-> "read", op |-> op, by |-> u, org |-> Null, inv |-> i,
               email |-> Null, role |-> "NONE", known |-> FALSE, past |-> FALSE]
      BY <2>4 DEF IBlank
    <3> QED
      BY <3>1 DEF Shape, Fresh
  <2>5. ASSUME NEW i \in KnownInv, NEW o \in ExistingOrg,
               NEW f, f = [IBlank EXCEPT !.pc = "caller", !.op = "revoke", !.by = u, !.org = o, !.inv = i]
        PROVE  Shape(f) /\ Fresh(f.pc, f, invitations)
    <3>1. f = [pc |-> "caller", op |-> "revoke", by |-> u, org |-> o, inv |-> i,
               email |-> Null, role |-> "NONE", known |-> FALSE, past |-> FALSE]
      BY <2>5 DEF IBlank
    <3> QED
      BY <3>1 DEF Shape, Fresh
  <2> QED
    BY <2>1, <2>2, <2>3, <2>4, <2>5
<1>2. /\ ireq[r].pc = "new" /\ invitations' = invitations /\ members' = members
      /\ ireq'[r] = f /\ \A q \in Reqs : q # r => ireq'[q] = ireq[q]
      /\ \A q \in Reqs : IInFlight(q) => Address(ireq[q]) # Address(f)
  BY <1>1 DEF InvIssue, InvMayIssue, IInv, InvTypeOK
<1>3. \A q \in Reqs : Address(ireq[q])' = IF q = r THEN Address(f) ELSE Address(ireq[q])
  BY <1>2 DEF Address
<1>4. \A q \in Reqs : q # r => (IInFlight(q)' <=> IInFlight(q))
  BY <1>2 DEF IInFlight
<1>5. \A q \in Reqs : Shape(ireq'[q]) /\ Fresh(ireq'[q].pc, ireq'[q], invitations')
  BY <1>1, <1>2 DEF XInv
<1>6. \A p, q \in Reqs : p # q /\ IInFlight(p)' /\ IInFlight(q)' => Address(ireq[p])' # Address(ireq[q])'
  BY <1>2, <1>3, <1>4 DEF XInv
<1>7. OnePendingPerAddress'
  BY <1>2 DEF XInv, OnePendingPerAddress, PendingFor, Pending
<1> QED
  BY <1>2, <1>5, <1>6, <1>7 DEF XInv, Rests

(* A date passes: status, organization and address of no row change. *)
LEMMA PassesKeepsX ==
  ASSUME IInv, XInv, NEW i \in InvIds, InvPasses(i)
  PROVE  /\ XInv'
         /\ \A j \in InvIds : /\ invitations'[j].status = invitations[j].status
                              /\ invitations'[j].org = invitations[j].org
                              /\ invitations'[j].email = invitations[j].email
                              /\ invitations'[j].role = invitations[j].role
<1>1. /\ \A j \in InvIds : /\ invitations'[j].status = invitations[j].status
                           /\ invitations'[j].org = invitations[j].org
                           /\ invitations'[j].email = invitations[j].email
                           /\ invitations'[j].role = invitations[j].role
      /\ ireq' = ireq
  BY DEF InvPasses, IInv, InvTypeOK, InvRow
<1>2. ASSUME NEW q \in Reqs
      PROVE  /\ Shape(ireq'[q]) /\ Fresh(ireq'[q].pc, ireq'[q], invitations')
             /\ IInFlight(q) => Address(ireq[q])' = Address(ireq[q])
  <2> DEFINE g == ireq[q]
  <2>1. Shape(g) /\ Fresh(g.pc, g, invitations) /\ Kept(g.pc, g, invitations)
    BY DEF IInv, XInv
  <2>2. g.inv # Null /\ IInFlight(q) => g.inv \in InvIds
    BY <2>1 DEF Kept, Known, Shape, IInFlight
  <2>3. g.op # "send" /\ g.pc \in {"expire", "existing", "tx", "write"} => g.inv \in InvIds
    BY <2>1 DEF Kept, Known
  <2>4. Fresh(g.pc, g, invitations')
    BY <1>1, <2>1, <2>3 DEF Fresh
  <2>5. IInFlight(q) => Address(ireq[q])' = Address(ireq[q])
    BY <1>1, <2>2 DEF Address
  <2> QED
    BY <1>1, <2>1, <2>4, <2>5
<1>3. \A p, q \in Reqs : p # q /\ IInFlight(p)' /\ IInFlight(q)' => Address(ireq[p])' # Address(ireq[q])'
  BY <1>1, <1>2 DEF XInv, IInFlight
<1>4. OnePendingPerAddress'
  BY <1>1 DEF XInv, OnePendingPerAddress, PendingFor, Pending
<1> QED
  BY <1>1, <1>2, <1>3, <1>4 DEF XInv

(* Before the first request no address has two seed invitations. *)
LEMMA InitXInv ==
  ASSUME InvInit
  PROVE  XInv
<1>1. PICK seed \in [SeedInvs -> [status : {"PENDING"}, org : SeedOrgs, email : Users,
                      role : Roles, target : accounts \cup {Null}, by : Users, past : {FALSE}]] :
        /\ \A i, j \in SeedInvs :
             seed[i].org = seed[j].org /\ seed[i].email = seed[j].email => i = j
        /\ invitations = [i \in InvIds |-> IF i \in SeedInvs THEN seed[i] ELSE NoInv]
  BY DEF InvInit
<1>2. OnePendingPerAddress
  BY <1>1 DEF OnePendingPerAddress, PendingFor, Pending, NoInv
<1>3. \A r \in Reqs : ireq[r] = IBlank
  BY DEF InvInit
<1> QED
  BY <1>2, <1>3 DEF XInv, Shape, Fresh, IInFlight, IBlank

LEMMA NextKeepsX ==
  ASSUME InvExclusive, IInv, XInv, [InvNext]_invVars
  PROVE  XInv'
<1>1. CASE UNCHANGED invVars
  BY <1>1 DEF invVars, XInv, OnePendingPerAddress, PendingFor, Pending, IInFlight, Address
<1>2. ASSUME NEW r \in Reqs, InvCall(r) PROVE XInv'
  BY <1>2, CallKeepsX
<1>3. ASSUME NEW r \in Reqs, InvHandler(r) \/ InvAbort(r) PROVE XInv'
  BY <1>3, StepShape, HandlerKeepsX
<1>4. ASSUME NEW i \in InvIds, InvPasses(i) PROVE XInv'
  BY <1>4, PassesKeepsX
<1> QED
  BY <1>1, <1>2, <1>3, <1>4 DEF InvNext

(* While requests about one address take turns, what a handler has checked *)
(* is still true when it writes.                                           *)
THEOREM ChecksHold ==
  ASSUME InvExclusive
  PROVE  InvSpec => [](IInv /\ XInv)
<1>1. InvInit => XInv
  BY InitXInv
<1>2. IInv /\ XInv /\ [InvNext]_invVars => XInv'
  BY NextKeepsX
<1> QED
  BY <1>1, <1>2, InitIInv, NextKeeps, PTL DEF InvSpec

(* sendInvitation's duplicate check. *)
THEOREM OneInvitationPerAddress ==
  ASSUME InvExclusive
  PROVE  InvSpec => []OnePendingPerAddress
<1>1. XInv => OnePendingPerAddress
  BY DEF XInv
<1> QED
  BY <1>1, ChecksHold, PTL

-----------------------------------------------------------------------------
(* Every step rests, lets a date pass, or is one of the three effects.      *)
LEMMA StepEffect ==
  ASSUME InvExclusive, IInv, XInv, [InvNext]_invVars
  PROVE  \/ Rests
         \/ \E i \in InvIds : InvPasses(i)
         \/ \E r \in Reqs : Effect(r)
<1>1. UNCHANGED invVars => Rests
  BY DEF invVars, Rests
<1> QED
  BY <1>1, CallKeepsX, StepShape DEF InvNext

(* An answered, revoked or expired invitation is touched by no step. *)
LEMMA ClosedStays ==
  ASSUME InvExclusive, IInv, XInv, [InvNext]_invVars,
         NEW i \in InvIds, Terminal(invitations[i].status)
  PROVE  invitations'[i].status = invitations[i].status
<1>0. invitations[i].status \notin {"none", "PENDING"} /\ invitations \in [InvIds -> InvRow]
  BY DEF Terminal, Statuses, IInv, InvTypeOK
<1>1. CASE Rests
  BY <1>1 DEF Rests
<1>2. ASSUME NEW j \in InvIds, InvPasses(j) PROVE invitations'[i].status = invitations[i].status
  BY <1>2, PassesKeepsX
<1>3. ASSUME NEW r \in Reqs, Sends(r) PROVE invitations'[i].status = invitations[i].status
  BY <1>0, <1>3 DEF Sends
<1>4. ASSUME NEW r \in Reqs, NEW j \in InvIds, AcceptsFor(r, j)
      PROVE  invitations'[i].status = invitations[i].status
  BY <1>0, <1>4 DEF AcceptsFor, Pending
<1>5. ASSUME NEW r \in Reqs, NEW S \in SUBSET InvIds, NEW status \in {"REJECTED", "REVOKED", "EXPIRED"},
             Closes(r, S, status)
      PROVE  invitations'[i].status = invitations[i].status
  BY <1>0, <1>5 DEF Closes, Pending
<1> QED
  BY <1>1, <1>2, <1>3, <1>4, <1>5, StepEffect DEF Effect

(* No answer, revocation or expiry is overwritten by a later one. *)
THEOREM AnswersAreFinal ==
  ASSUME InvExclusive
  PROVE  InvSpec => TerminalIsFinal
<1>1. IInv /\ XInv /\ [InvNext]_invVars =>
        [\A i \in InvIds :
           Terminal(invitations[i].status) =>
             invitations'[i].status = invitations[i].status]_invVars
  BY ClosedStays
<1> QED
  BY <1>1, ChecksHold, PTL DEF InvSpec, TerminalIsFinal

-----------------------------------------------------------------------------
(* The service implements the lifecycle.                                    *)

(* What the lifecycle sees of a row. *)
Letters(T) ==
  [i \in InvIds |->
    IF T[i].status = "none" THEN [status |-> "none"]
    ELSE [status |-> T[i].status, org |-> T[i].org, to |-> T[i].email, role |-> T[i].role]]

RoleTable(M) == [o \in OrgIds |-> [u \in Users |-> M[o][u].role]]

LEMMA Bars ==
  /\ letterBar = Letters(invitations) /\ letterBar' = Letters(invitations')
  /\ roleBar = RoleTable(members) /\ roleBar' = RoleTable(members')
BY DEF letterBar, roleBar, Letters, RoleTable

(* An inserted row is a letter, and an open one if it is pending. *)
LEMMA LetterOf ==
  ASSUME IInv, NEW i \in InvIds
  PROVE  /\ letterBar[i].status = invitations[i].status
         /\ invitations[i].status = "none" => letterBar[i] = Lifecycle!Unsent
         /\ invitations[i].status # "none" =>
              /\ letterBar[i].org = invitations[i].org
              /\ letterBar[i].to = invitations[i].email
              /\ letterBar[i].role = invitations[i].role
         /\ Lifecycle!IsOpen(i) <=> Pending(i)
BY DEF letterBar, Lifecycle!Unsent, Lifecycle!IsOpen, Pending

LEMMA RestsMaps ==
  ASSUME Rests
  PROVE  UNCHANGED Lifecycle!lifecycleVars
BY Bars DEF Rests, Lifecycle!lifecycleVars

LEMMA PassesMaps ==
  ASSUME IInv, XInv, NEW i \in InvIds, InvPasses(i)
  PROVE  UNCHANGED Lifecycle!lifecycleVars
<1>1. Letters(invitations') = Letters(invitations)
  BY PassesKeepsX DEF Letters
<1>2. members' = members
  BY DEF InvPasses
<1> QED
  BY <1>1, <1>2, Bars DEF Lifecycle!lifecycleVars

LEMMA SendsMaps ==
  ASSUME IInv, NEW r \in Reqs, Sends(r)
  PROVE  Lifecycle!LifecycleNext
<1> DEFINE f == ireq[r]
<1>1. PICK row \in InvRow :
         /\ row.status = "PENDING" /\ row.org = f.org /\ row.email = f.email /\ row.role = f.role
         /\ invitations' = [invitations EXCEPT ![r] = row]
  BY DEF Sends
<1>2. r \in InvIds /\ letterBar[r] = Lifecycle!Unsent
  BY LetterOf DEF Sends, InvIds
<1>3. \A j \in InvIds : Lifecycle!IsOpen(j) => letterBar[j].org # f.org \/ letterBar[j].to # f.email
  BY LetterOf DEF Sends, Pending
<1>4. letterBar' = [letterBar EXCEPT ![r] =
        [status |-> "PENDING", org |-> f.org, to |-> f.email, role |-> f.role]]
  BY <1>1, <1>2, Bars DEF Letters, IInv, InvTypeOK
<1>5. roleBar' = roleBar
  BY Bars DEF Sends
<1>6. Lifecycle!Send(r, f.org, f.email, f.role)
  BY <1>3, <1>4, <1>5 DEF Lifecycle!Send
<1> QED
  BY <1>2, <1>6 DEF Lifecycle!LifecycleNext, Sends

LEMMA AcceptsMaps ==
  ASSUME IInv, NEW r \in Reqs, NEW i \in InvIds, AcceptsFor(r, i)
  PROVE  Lifecycle!LifecycleNext
<1> DEFINE old == invitations[i]
<1>1. PICK row \in InvRow :
        /\ row.status = "ACCEPTED" /\ row.org = old.org /\ row.email = old.email /\ row.role = old.role
        /\ invitations' = [invitations EXCEPT ![i] = row]
  BY DEF AcceptsFor
<1>2. /\ Lifecycle!IsOpen(i) /\ letterBar[i].org = old.org /\ letterBar[i].to = old.email
      /\ letterBar[i].role = old.role
  BY LetterOf DEF AcceptsFor, Pending
<1>3. letterBar' = [letterBar EXCEPT ![i].status = "ACCEPTED"]
  <2>1. letterBar[i] = [status |-> "PENDING", org |-> old.org, to |-> old.email, role |-> old.role]
    BY DEF AcceptsFor, Pending, letterBar
  <2>2. [letterBar[i] EXCEPT !.status = "ACCEPTED"]
          = [status |-> "ACCEPTED", org |-> old.org, to |-> old.email, role |-> old.role]
    BY <2>1
  <2>3. letterBar' = [letterBar EXCEPT ![i] =
          [status |-> "ACCEPTED", org |-> old.org, to |-> old.email, role |-> old.role]]
    BY <1>1, Bars DEF Letters, IInv, InvTypeOK
  <2> QED
    BY <2>2, <2>3 DEF letterBar
<1>4. roleBar[old.org][old.email] = "NONE" /\ roleBar' = [roleBar EXCEPT ![old.org][old.email] = old.role]
  <2>1. /\ old.org \in OrgIds /\ old.email \in Users /\ ~IsMember(old.email, old.org)
        /\ members' = [members EXCEPT ![old.org][old.email] = [id |-> r, role |-> old.role]]
        /\ members \in [OrgIds -> [Users -> MemberRow \cup {NoMember}]]
    BY DEF AcceptsFor, InsertMember, IInv, InvTypeOK, TablesOK
  <2> HIDE DEF old
  <2>2. members[old.org][old.email].role = "NONE"
    BY <2>1 DEF IsMember, NoMember
  <2>3. roleBar' = [roleBar EXCEPT ![old.org][old.email] = old.role]
    BY <2>1, Bars DEF RoleTable
  <2> QED
    BY <2>1, <2>2, <2>3 DEF roleBar
<1>5. Lifecycle!Accept(i)
  BY <1>2, <1>3, <1>4 DEF Lifecycle!Accept
<1> QED
  BY <1>2, <1>5 DEF Lifecycle!LifecycleNext, Lifecycle!Open

LEMMA ClosesMaps ==
  ASSUME IInv, NEW r \in Reqs, NEW S \in SUBSET InvIds,
         NEW status \in {"REJECTED", "REVOKED", "EXPIRED"}, Closes(r, S, status)
  PROVE  Lifecycle!LifecycleNext
<1>1. S \in SUBSET Lifecycle!Open /\ status \in Lifecycle!Closed
  BY LetterOf DEF Closes, Lifecycle!Open, Lifecycle!Closed
<1>2. letterBar' = [i \in InvIds |->
        IF i \in S THEN [letterBar[i] EXCEPT !.status = status] ELSE letterBar[i]]
  <2>1. ASSUME NEW i \in S
        PROVE  Letters(invitations')[i] = [letterBar[i] EXCEPT !.status = status]
    <3> DEFINE old == invitations[i]
               new == [old EXCEPT !.status = status]
    <3>1. i \in InvIds /\ old \in InvRow /\ old.status = "PENDING" /\ invitations'[i] = new
      BY <2>1 DEF Closes, Pending, IInv, InvTypeOK
    <3>2. letterBar[i] = [status |-> "PENDING", org |-> old.org, to |-> old.email, role |-> old.role]
      BY <3>1 DEF letterBar
    <3> HIDE DEF old
    <3>3. new.status = status /\ new.org = old.org /\ new.email = old.email /\ new.role = old.role
      BY <3>1 DEF InvRow
    <3> HIDE DEF new
    <3>4. Letters(invitations')[i]
            = [status |-> status, org |-> old.org, to |-> old.email, role |-> old.role]
      BY <3>1, <3>3 DEF Letters
    <3> QED
      BY <3>2, <3>4
  <2>2. ASSUME NEW i \in InvIds, i \notin S PROVE Letters(invitations')[i] = letterBar[i]
    BY <2>2, Bars DEF Closes, Letters
  <2>3. Letters(invitations') = [i \in InvIds |-> Letters(invitations')[i]]
    BY DEF Letters
  <2> QED
    BY <2>1, <2>2, <2>3, Bars
<1>3. roleBar' = roleBar
  BY Bars DEF Closes
<1>4. Lifecycle!Close(S, status)
  BY <1>2, <1>3 DEF Lifecycle!Close
<1> QED
  BY <1>1, <1>4 DEF Lifecycle!LifecycleNext

(* The initial tables are initial letters and roles. *)
LEMMA InitMaps ==
  ASSUME InvInit
  PROVE  Lifecycle!LifecycleInit
<1>1. IInv /\ XInv
  BY InitIInv, InitXInv
<1>2. \A i \in InvIds : invitations[i].status \in {"none", "PENDING"}
  <2>1. PICK seed \in [SeedInvs -> [status : {"PENDING"}, org : SeedOrgs, email : Users,
                      role : Roles, target : accounts \cup {Null}, by : Users, past : {FALSE}]] :
        invitations = [i \in InvIds |-> IF i \in SeedInvs THEN seed[i] ELSE NoInv]
    BY DEF InvInit
  <2> QED
    BY <2>1 DEF NoInv
<1>3. letterBar \in [InvIds -> {x \in Lifecycle!Letter : x.status = "PENDING"} \cup {Lifecycle!Unsent}]
  <2> SUFFICES ASSUME NEW i \in InvIds
               PROVE  letterBar[i] \in {x \in Lifecycle!Letter : x.status = "PENDING"} \cup {Lifecycle!Unsent}
    BY DEF letterBar
  <2>1. CASE invitations[i].status = "none"
    BY <2>1, <1>1, LetterOf
  <2>2. CASE invitations[i].status # "none"
    BY <2>2, <1>1, <1>2 DEF letterBar, IInv, RowOK, Lifecycle!Letter
  <2> QED
    BY <2>1, <2>2
<1>4. \A i, j \in InvIds : Lifecycle!IsOpen(i) /\ Lifecycle!IsOpen(j) /\ i # j =>
        <<letterBar[i].org, letterBar[i].to>> # <<letterBar[j].org, letterBar[j].to>>
  <2> SUFFICES ASSUME NEW i \in InvIds, NEW j \in InvIds, Pending(i), Pending(j),
                      invitations[i].org = invitations[j].org,
                      invitations[i].email = invitations[j].email
               PROVE  i = j
    BY <1>1, LetterOf DEF Pending
  <2>1. invitations[i].org \in OrgIds /\ invitations[i].email \in Users
    BY <1>1 DEF IInv, RowOK, Pending
  <2> QED
    BY <1>1, <2>1 DEF XInv, OnePendingPerAddress, PendingFor
<1>5. roleBar \in [OrgIds -> [Users -> Roles \cup {"NONE"}]]
  BY <1>1 DEF roleBar, IInv, InvTypeOK, TablesOK, MemberRow, NoMember
<1> QED
  BY <1>3, <1>4, <1>5 DEF Lifecycle!LifecycleInit

(* While requests about one address take turns, sending, accepting and     *)
(* closing are each one step, and nothing else changes what the invited    *)
(* person and the organization see.                                        *)
THEOREM RefinesLifecycle ==
  ASSUME InvExclusive
  PROVE  InvSpec => ImplementsLifecycle
<1>1. IInv /\ XInv /\ [InvNext]_invVars => [Lifecycle!LifecycleNext]_(Lifecycle!lifecycleVars)
  BY StepEffect, RestsMaps, PassesMaps, SendsMaps, AcceptsMaps, ClosesMaps DEF Effect
<1> QED
  BY <1>1, ChecksHold, InitMaps, PTL DEF InvSpec, ImplementsLifecycle, Lifecycle!LifecycleSpec
=============================================================================
