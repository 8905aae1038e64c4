---------------------------- MODULE Invitations ----------------------------
(***************************************************************************)
(* InvitationsService: nominal invitations of an e-mail address to an      *)
(* organization, and what the invited user and the organization's          *)
(* administrators do with them.                                            *)
(*                                                                         *)
(* As in Organizations, a step is one awaited Prisma call together with    *)
(* the code up to the next await, and ireq[r] is the frame of request r.   *)
(* Reads of columns nothing ever updates (a user's e-mail and name, an     *)
(* organization's name) are not steps of their own.                        *)
(*                                                                         *)
(* users.email is unique and no code updates it, so an address is          *)
(* identified with the user who has it, or will have it once registered.   *)
(***************************************************************************)
EXTENDS Memberships

CONSTANTS
  SeedInvs,     \* invitations that exist, pending, in the initial state
  InvOps,       \* the operations clients call
  InvExclusive  \* TRUE: clients never overlap two requests about one address

InvIds == SeedInvs \cup Reqs

AllInvOps == {"send", "mine", "getByToken", "getById", "accept", "reject", "revoke"}

ASSUME InvAssumption == SeedInvs \cap Reqs = {} /\ Null \notin InvIds
ASSUME InvOpsAssumption == InvOps \subseteq AllInvOps
ASSUME InvExclusiveAssumption == InvExclusive \in BOOLEAN

VARIABLES
  accounts,     \* users that have a row in the users table
  invitations,  \* invitations[i]: the invitations row; status "none" until inserted
  ireq,         \* ireq[r]: the frame of request r
  ifired        \* notifications fired and e-mails handed to EmailService

invVars == <<orgs, members, accounts, invitations, ireq, ifired>>

Statuses == {"PENDING", "ACCEPTED", "REJECTED", "EXPIRED", "REVOKED"}

NoInv  == [status |-> "none", org |-> Null, email |-> Null, role |-> "NONE",
           target |-> Null, by |-> Null, past |-> FALSE]
InvRow == [status : Statuses \cup {"none"}, org : OrgIds \cup {Null},
           email : Users \cup {Null}, role : Roles \cup {"NONE"},
           target : Users \cup {Null}, by : Users \cup {Null},
           past : BOOLEAN]          \* expiresAt < now

IBlank == [pc |-> "new", op |-> "none", by |-> Null, org |-> Null, inv |-> Null,
           email |-> Null, role |-> "NONE", known |-> FALSE, past |-> FALSE]
IDone  == [IBlank EXCEPT !.pc = "done"]

IPCs == {"new", "caller", "org", "duplicate", "user", "member", "insert", "expireMine",
         "read", "expire", "existing", "tx", "find", "write", "notify", "done"}

IFrame == [pc : IPCs, op : AllInvOps \cup {"none"}, by : Users \cup {Null},
           org : OrgIds \cup {Null}, inv : InvIds \cup {Null},
           email : Users \cup {Null}, role : Roles \cup {"NONE"},
           known : BOOLEAN,         \* send: the users row of the address was found
           past : BOOLEAN]          \* send: the requested expiresAt has passed

INotice == [type : {"EMAIL", "ORGANIZATION_INVITE", "INVITE_ACCEPTED", "INVITE_REJECTED"},
            to : Users, req : Reqs]

InvTypeOK ==
  /\ TablesOK
  /\ accounts \subseteq Users
  /\ invitations \in [InvIds -> InvRow]
  /\ ireq \in [Reqs -> IFrame]
  /\ ifired \subseteq INotice

Pending(i) == invitations[i].status = "PENDING"

(* At most one pending invitation per organization and address, sent by an *)
(* administrator; target is filled when the address had an account.        *)
InvInit ==
  /\ TablesInit
  /\ accounts \in SUBSET Users
  /\ \A u \in Users, o \in OrgIds : IsMember(u, o) => u \in accounts
  /\ \E seed \in [SeedInvs -> [status : {"PENDING"}, org : SeedOrgs, email : Users,
                    role : Roles, target : accounts \cup {Null}, by : Users, past : {FALSE}]] :
       /\ \A i \in SeedInvs : /\ seed[i].target \in {Null, seed[i].email}
                              /\ IsAdminOrOwner(seed[i].by, seed[i].org)
       /\ \A i, j \in SeedInvs :
            seed[i].org = seed[j].org /\ seed[i].email = seed[j].email => i = j
       /\ invitations = [i \in InvIds |-> IF i \in SeedInvs THEN seed[i] ELSE NoInv]
  /\ ireq = [r \in Reqs |-> IBlank]
  /\ ifired = {}

-----------------------------------------------------------------------------
IAt(r, op, pc)   == ireq[r].op = op /\ ireq[r].pc = pc
IInFlight(r)     == ireq[r].pc \notin {"new", "done"}
IGoto(r, pc)     == ireq' = [ireq EXCEPT ![r].pc = pc]
IFinish(r)       == ireq' = [ireq EXCEPT ![r] = IDone]
ICheck(r, ok, pc) == IF ok THEN IGoto(r, pc) ELSE IFinish(r)

SetStatus(i, s) == invitations' = [invitations EXCEPT ![i].status = s]

(* The address a request is about. *)
Address(f) == IF f.inv # Null THEN invitations[f.inv].email ELSE f.email

InvMayIssue(f) ==
  InvExclusive => \A q \in Reqs : IInFlight(q) => Address(ireq[q]) # Address(f)

(* The JWT guard upserts the caller's users row before the handler runs. *)
InvIssue(r, f) ==
  /\ ireq[r].pc = "new"
  /\ f.op \in InvOps
  /\ InvMayIssue(f)
  /\ accounts' = accounts \cup {f.by}
  /\ ireq' = [ireq EXCEPT ![r] = f]
  /\ UNCHANGED <<orgs, members, invitations, ifired>>

KnownInv == {i \in InvIds : invitations[i].status # "none"}

(* The calls of invitations.controller.ts. *)
InvCall(r) ==
  \E u \in Users :
    \/ \E o \in ExistingOrg, e \in Users, role \in Roles, past \in BOOLEAN :
         InvIssue(r, [IBlank EXCEPT !.pc = "caller", !.op = "send", !.by = u, !.org = o,
                        !.email = e, !.role = role, !.past = past])
    \/ InvIssue(r, [IBlank EXCEPT !.pc = "expireMine", !.op = "mine", !.by = u, !.email = u])
    \/ \E i \in KnownInv :
         \/ \E op \in {"getByToken", "getById", "accept", "reject"} :
              InvIssue(r, [IBlank EXCEPT !.pc = "read", !.op = op, !.by = u, !.inv = i])
         \/ \E o \in ExistingOrg :
              InvIssue(r, [IBlank EXCEPT !.pc = "caller", !.op = "revoke", !.by = u,
                             !.org = o, !.inv = i])

-----------------------------------------------------------------------------
(* requireAdminOrOwner: the first call of sendInvitation and revokeInvitation. *)
InvCheckCaller(r) ==
  LET f == ireq[r] IN
  /\ f.pc = "caller"
  /\ ICheck(r, IsAdminOrOwner(f.by, f.org), IF f.op = "send" THEN "org" ELSE "find")
  /\ UNCHANGED <<orgs, members, accounts, invitations, ifired>>

(***************************************************************************)
(* sendInvitation: five reads, then the insert, then the e-mail and, when  *)
(* the address had an account, a notification.                             *)
(***************************************************************************)
SendCheckOrg(r) ==
  /\ IAt(r, "send", "org")
  /\ ICheck(r, orgs[ireq[r].org].isActive, "duplicate")
  /\ UNCHANGED <<orgs, members, accounts, invitations, ifired>>

PendingFor(o, e) ==
  {i \in InvIds : Pending(i) /\ invitations[i].org = o /\ invitations[i].email = e}

(* What if the duplicate were not looked for? *)
SendCheckNothing(r) ==
  /\ IAt(r, "send", "duplicate")
  /\ IGoto(r, "user")
  /\ UNCHANGED <<orgs, members, accounts, invitations, ifired>>

SendCheckDuplicate(r) ==
  /\ IAt(r, "send", "duplicate")
  /\ ICheck(r, PendingFor(ireq[r].org, ireq[r].email) = {}, "user")
  /\ UNCHANGED <<orgs, members, accounts, invitations, ifired>>

SendFindUser(r) ==
  LET found == ireq[r].email \in accounts IN
  /\ IAt(r, "send", "user")
  /\ ireq' = [ireq EXCEPT ![r].known = found, ![r].pc = IF found THEN "member" ELSE "insert"]
  /\ UNCHANGED <<orgs, members, accounts, invitations, ifired>>

SendCheckMember(r) ==
  /\ IAt(r, "send", "member")
  /\ ICheck(r, ~IsMember(ireq[r].email, ireq[r].org), "insert")
  /\ UNCHANGED <<orgs, members, accounts, invitations, ifired>>

SendInsert(r) ==
  LET f == ireq[r] IN
  /\ IAt(r, "send", "insert")
  /\ invitations' = [invitations EXCEPT ![r] =
       [status |-> "PENDING", org |-> f.org, email |-> f.email, role |-> f.role,
        target |-> IF f.known THEN f.email ELSE Null, by |-> f.by, past |-> f.past]]
  /\ ifired' = ifired \cup {[type |-> t, to |-> f.email, req |-> r] :
                 t \in {"EMAIL"} \cup IF f.known THEN {"ORGANIZATION_INVITE"} ELSE {}}
  /\ IFinish(r)
  /\ UNCHANGED <<orgs, members, accounts>>

(***************************************************************************)
(* getMyInvitations: one conditional updateMany expires the caller's stale *)
(* invitations; the list it then returns is only read.                     *)
(***************************************************************************)
(* What if the updateMany did not filter on the status? *)
ExpireMineAnyStatus(r) ==
  /\ IAt(r, "mine", "expireMine")
  /\ invitations' = [i \in InvIds |->
       IF invitations[i].past /\ invitations[i].email = ireq[r].by
       THEN [invitations[i] EXCEPT !.status = "EXPIRED"] ELSE invitations[i]]
  /\ IFinish(r)
  /\ UNCHANGED <<orgs, members, accounts, ifired>>

ExpireMine(r) ==
  /\ IAt(r, "mine", "expireMine")
  /\ invitations' = [i \in InvIds |->
       IF Pending(i) /\ invitations[i].past /\ invitations[i].email = ireq[r].by
       THEN [invitations[i] EXCEPT !.status = "EXPIRED"] ELSE invitations[i]]
  /\ IFinish(r)
  /\ UNCHANGED <<orgs, members, accounts, ifired>>

(***************************************************************************)
(* getInvitationByToken and getInvitationById: an invitation read pending  *)
(* and past its date is then updated to EXPIRED, whatever it is by then.   *)
(***************************************************************************)
MayView(f) ==
  f.op = "getById" => /\ invitations[f.inv].target \in {Null, f.by}
                      /\ invitations[f.inv].email = f.by

(* What if a view did not compare the date? *)
ViewReadAnyDate(r) ==
  LET f == ireq[r] IN
  /\ f.op \in {"getByToken", "getById"} /\ f.pc = "read"
  /\ ICheck(r, MayView(f) /\ Pending(f.inv), "expire")
  /\ UNCHANGED <<orgs, members, accounts, invitations, ifired>>

ViewRead(r) ==
  LET f == ireq[r] IN
  /\ f.op \in {"getByToken", "getById"} /\ f.pc = "read"
  /\ ICheck(r, MayView(f) /\ Pending(f.inv) /\ invitations[f.inv].past, "expire")
  /\ UNCHANGED <<orgs, members, accounts, invitations, ifired>>

ExpireOne(r) ==
  /\ ireq[r].pc = "expire"
  /\ SetStatus(ireq[r].inv, "EXPIRED")
  /\ IFinish(r)
  /\ UNCHANGED <<orgs, members, accounts, ifired>>

(***************************************************************************)
(* resolveAndValidate, then the e-mail check, for acceptInvitation and     *)
(* rejectInvitation.  The frame keeps the row's organization and role.     *)
(***************************************************************************)
(* What if the caller's e-mail were not compared? *)
ResolveForAnybody(r) ==
  LET f == ireq[r]  row == invitations[f.inv] IN
  /\ f.op \in {"accept", "reject"} /\ f.pc = "read"
  /\ \/ row.status # "PENDING" /\ IFinish(r)
     \/ row.status = "PENDING" /\ row.past /\ IGoto(r, "expire")
     \/ /\ row.status = "PENDING" /\ ~row.past
        /\ ireq' = [ireq EXCEPT ![r].org = row.org, ![r].role = row.role,
                      ![r].pc = IF f.op = "accept" THEN "existing" ELSE "write"]
  /\ UNCHANGED <<orgs, members, accounts, invitations, ifired>>

ResolveAndValidate(r) ==
  LET f == ireq[r]  row == invitations[f.inv] IN
  /\ f.op \in {"accept", "reject"} /\ f.pc = "read"
  /\ \/ row.status # "PENDING" /\ IFinish(r)
     \/ row.status = "PENDING" /\ row.past /\ IGoto(r, "expire")
     \/ row.status = "PENDING" /\ ~row.past /\ row.email # f.by /\ IFinish(r)
     \/ /\ row.status = "PENDING" /\ ~row.past /\ row.email = f.by
        /\ ireq' = [ireq EXCEPT ![r].org = row.org, ![r].role = row.role,
                      ![r].pc = IF f.op = "accept" THEN "existing" ELSE "write"]
  /\ UNCHANGED <<orgs, members, accounts, invitations, ifired>>

AcceptCheckMember(r) ==
  /\ IAt(r, "accept", "existing")
  /\ ICheck(r, ~IsMember(ireq[r].by, ireq[r].org), "tx")
  /\ UNCHANGED <<orgs, members, accounts, invitations, ifired>>

(* What if the two writes were no transaction, the invitation's first? *)
AcceptSplit(r) ==
  LET f == ireq[r] IN
  /\ IAt(r, "accept", "tx")
  /\ invitations' = [invitations EXCEPT ![f.inv].status = "ACCEPTED", ![f.inv].target = f.by]
  /\ \/ IsMember(f.by, f.org) /\ IFinish(r) /\ UNCHANGED members
     \/ ~IsMember(f.by, f.org) /\ InsertMember(r, f.by, f.org, f.role) /\ IGoto(r, "notify")
  /\ UNCHANGED <<orgs, accounts, ifired>>

(* What if the invitation were left for the notification step to update? *)
AcceptMemberOnly(r) ==
  LET f == ireq[r] IN
  /\ IAt(r, "accept", "tx")
  /\ \/ IsMember(f.by, f.org) /\ IFinish(r) /\ UNCHANGED members
     \/ ~IsMember(f.by, f.org) /\ InsertMember(r, f.by, f.org, f.role) /\ IGoto(r, "notify")
  /\ UNCHANGED <<orgs, accounts, invitations, ifired>>

(* $transaction([create member, update invitation]); the update does not   *)
(* look at the status again.  A duplicate member rolls both back.          *)
AcceptTransaction(r) ==
  LET f == ireq[r] IN
  /\ IAt(r, "accept", "tx")
  /\ \/ /\ IsMember(f.by, f.org)
        /\ IFinish(r)
        /\ UNCHANGED <<members, invitations>>
     \/ /\ ~IsMember(f.by, f.org)
        /\ InsertMember(r, f.by, f.org, f.role)
        /\ invitations' = [invitations EXCEPT ![f.inv].status = "ACCEPTED",
                                              ![f.inv].target = f.by]
        /\ IGoto(r, "notify")
  /\ UNCHANGED <<orgs, accounts, ifired>>

RejectWrite(r) ==
  /\ IAt(r, "reject", "write")
  /\ SetStatus(ireq[r].inv, "REJECTED")
  /\ IGoto(r, "notify")
  /\ UNCHANGED <<orgs, members, accounts, ifired>>

NotifyInviter(r) ==
  LET f == ireq[r] IN
  /\ f.pc = "notify"
  /\ ifired' = ifired \cup {[to |-> invitations[f.inv].by, req |-> r, type |->
                 IF f.op = "accept" THEN "INVITE_ACCEPTED" ELSE "INVITE_REJECTED"]}
  /\ IFinish(r)
  /\ UNCHANGED <<orgs, members, accounts, invitations>>

(* revokeInvitation, after requireAdminOrOwner. *)
(* What if the status were not checked? *)
RevokeFindAny(r) ==
  LET f == ireq[r] IN
  /\ IAt(r, "revoke", "find")
  /\ ICheck(r, invitations[f.inv].org = f.org, "write")
  /\ UNCHANGED <<orgs, members, accounts, invitations, ifired>>

RevokeFind(r) ==
  LET f == ireq[r] IN
  /\ IAt(r, "revoke", "find")
  /\ ICheck(r, invitations[f.inv].org = f.org /\ Pending(f.inv), "write")
  /\ UNCHANGED <<orgs, members, accounts, invitations, ifired>>

RevokeWrite(r) ==
  /\ IAt(r, "revoke", "write")
  /\ SetStatus(ireq[r].inv, "REVOKED")
  /\ IFinish(r)
  /\ UNCHANGED <<orgs, members, accounts, ifired>>

-----------------------------------------------------------------------------
(* A database call rejects, or the process dies. *)
InvAbort(r) ==
  /\ IInFlight(r)
  /\ IFinish(r)
  /\ UNCHANGED <<orgs, members, accounts, invitations, ifired>>

(* The clock passes expiresAt. *)
InvPasses(i) ==
  /\ i \in KnownInv
  /\ ~invitations[i].past
  /\ invitations' = [invitations EXCEPT ![i].past = TRUE]
  /\ UNCHANGED <<orgs, members, accounts, ireq, ifired>>

InvHandler(r) ==
  \/ InvCheckCaller(r)
  \/ SendCheckOrg(r) \/ SendCheckDuplicate(r) \/ SendFindUser(r)
  \/ SendCheckMember(r) \/ SendInsert(r)
  \/ ExpireMine(r) \/ ViewRead(r) \/ ExpireOne(r)
  \/ ResolveAndValidate(r) \/ AcceptCheckMember(r) \/ AcceptTransaction(r)
  \/ RejectWrite(r) \/ NotifyInviter(r)
  \/ RevokeFind(r) \/ RevokeWrite(r)

InvNext ==
  \/ \E r \in Reqs : InvCall(r) \/ InvHandler(r) \/ InvAbort(r)
  \/ \E i \in InvIds : InvPasses(i)

InvFairness == \A r \in Reqs : WF_invVars(InvHandler(r))

InvSpec == InvInit /\ [][InvNext]_invVars /\ InvFairness

-----------------------------------------------------------------------------
(***************************************************************************)
(* Properties that hold however requests interleave.                       *)
(***************************************************************************)

(* acceptInvitation: an invitation becomes ACCEPTED only together with a   *)
(* new membership, of the user it was addressed to, in its organization    *)
(* and with its role, and names that user as its target, although the      *)
(* organization and the role come from a row read three calls before.      *)
AcceptanceJoinsAddressee ==
  [][\A i \in InvIds :
       invitations[i].status # "ACCEPTED" /\ invitations'[i].status = "ACCEPTED" =>
         LET row == invitations[i] IN
           /\ row.email \in Users /\ ~IsMember(row.email, row.org)
           /\ members'[row.org][row.email].role = row.role
           /\ invitations'[i].target = row.email]_invVars

(* Conversely nobody becomes a member unless an invitation of that user to *)
(* that organization, with the role granted, is ACCEPTED by the same step. *)
MembersWereInvited ==
  [][\A o \in ExistingOrg, u \in Users :
       ~IsMember(u, o) /\ IsMember(u, o)' =>
         \E i \in KnownInv : /\ invitations[i].org = o /\ invitations[i].email = u
                             /\ invitations[i].role = members'[o][u].role
                             /\ invitations'[i].status = "ACCEPTED"]_invVars

(* Four handlers write EXPIRED, three of them without looking at the row   *)
(* again; it is only ever written to an invitation past its date.          *)
ExpiredMeansPast == \A i \in InvIds : invitations[i].status = "EXPIRED" => invitations[i].past

(* targetUserId is filled by sendInvitation or acceptInvitation; it is     *)
(* never another user than the one the invitation was sent to, so          *)
(* getInvitationById's two ownership checks never contradict each other.   *)
TargetIsAddressee ==
  \A i \in InvIds : invitations[i].target \in {Null, invitations[i].email}

(* The tables and frames of InvitationsService stay well-formed and        *)
(* targetUserId means the addressee, however its handlers overlap.         *)
InvInv == InvTypeOK /\ TargetIsAddressee

(***************************************************************************)
(* Properties the checks before the writes promise; they depend on         *)
(* requests about one address not overlapping (InvExclusive).              *)
(***************************************************************************)
Terminal(s) == s \in Statuses \ {"PENDING"}

(* Only pending invitations are answered, revoked or expired: what was     *)
(* accepted, rejected, revoked or expired stays so.                        *)
TerminalIsFinal ==
  [][\A i \in InvIds :
       Terminal(invitations[i].status) =>
         invitations'[i].status = invitations[i].status]_invVars

(* sendInvitation's duplicate check: one pending invitation per            *)
(* organization and address.                                               *)
OnePendingPerAddress ==
  \A o \in OrgIds, e \in Users :
    \A i, j \in PendingFor(o, e) : i = j
=============================================================================
