----------------------------- MODULE Onboarding ----------------------------
(***************************************************************************)
(* OrganizationsService and InvitationsService over the same two tables.   *)
(* A request is handled by one of the services; the other service's frame  *)
(* of it stays blank.                                                      *)
(***************************************************************************)
EXTENDS Memberships

CONSTANTS SeedLinks, Ops, Exclusive, SeedInvs, InvOps, InvExclusive

VARIABLES links, req, fired, accounts, invitations, ireq, ifired

Org == INSTANCE Organizations
Inv == INSTANCE Invitations

(* The identifiers of rows the behaviours start with are no request's, and *)
(* clients call what the controllers offer.                                *)
ASSUME SeedsAssumption ==
  /\ SeedLinks \cap Reqs = {} /\ SeedInvs \cap Reqs = {}
  /\ Null \notin SeedLinks \cup SeedInvs
  /\ Ops \subseteq Org!AllOps /\ InvOps \subseteq Inv!AllInvOps
  /\ Exclusive \in BOOLEAN /\ InvExclusive \in BOOLEAN

onlyOrg == <<links, req, fired>>
onlyInv == <<invitations, ireq, ifired>>
allVars == <<orgs, members, accounts, onlyOrg, onlyInv>>

(* The users table is the invitations' accounts: organizations never read  *)
(* it, but the JWT guard fills it for their callers too.                   *)
Init ==
  /\ Org!OrgInit
  /\ Inv!InvInit

OrgCall(r) ==
  /\ ireq[r].pc = "new"
  /\ Org!Call(r)
  /\ accounts' = accounts \cup {req'[r].by}
  /\ UNCHANGED onlyInv

OrgStep(r) ==
  /\ Org!Handler(r) \/ Org!Abort(r)
  /\ UNCHANGED <<accounts, onlyInv>>

OrgClock == \E l \in Org!LinkIds : Org!LinkExpires(l) /\ UNCHANGED <<accounts, onlyInv>>

InvCall(r) == req[r].pc = "new" /\ Inv!InvCall(r) /\ UNCHANGED onlyOrg
InvStep(r) == (Inv!InvHandler(r) \/ Inv!InvAbort(r)) /\ UNCHANGED onlyOrg
InvClock   == \E i \in Inv!InvIds : Inv!InvPasses(i) /\ UNCHANGED onlyOrg

Next ==
  \/ \E r \in Reqs : OrgCall(r) \/ OrgStep(r) \/ InvCall(r) \/ InvStep(r)
  \/ OrgClock \/ InvClock

Spec == Init /\ [][Next]_allVars

-----------------------------------------------------------------------------
(* There are exactly two doors into an existing organization: a membership *)
(* appears together with a link being marked used, or an invitation of     *)
(* that very user being marked ACCEPTED, with the role of the link or      *)
(* invitation; never both, although a user may be coming through both.     *)
OneDoorPerMember ==
  [][\A o \in ExistingOrg, u \in Users :
       ~IsMember(u, o) /\ IsMember(u, o)' =>
         LET byLink == \E l \in Org!LinkIds :
               links[l].org = o /\ Org!LinkExists(l) /\ members'[o][u].role = links[l].role
               /\ links'[l].state = "used"
             byLetter == \E i \in Inv!KnownInv :
               invitations[i].org = o /\ invitations[i].email = u
               /\ members'[o][u].role = invitations[i].role
               /\ invitations'[i].status = "ACCEPTED"
         IN (byLink /\ UNCHANGED invitations) \/ (byLetter /\ UNCHANGED links)]_allVars

(* A link is used up, or an invitation accepted, only by somebody who      *)
(* becomes a member in the same step.  A user refused because the other    *)
(* door let them in first costs the organization nothing.                  *)
NothingSpentForNothing ==
  [][(\E l \in Org!LinkIds : links[l].state = "open" /\ links'[l].state = "used")
     \/ (\E i \in Inv!InvIds :
           invitations[i].status # "ACCEPTED" /\ invitations'[i].status = "ACCEPTED")
     => \E o \in ExistingOrg, u \in Users : ~IsMember(u, o) /\ IsMember(u, o)']_allVars
=============================================================================
