------------------------ MODULE InvitationRefinement -----------------------
(***************************************************************************)
(* Invitations implements InvitationLifecycle when requests about one      *)
(* address do not overlap: a letter is the part of the row its addressee   *)
(* and the organization see, a role the membership's role.                 *)
(***************************************************************************)
EXTENDS Invitations

letterBar == [i \in InvIds |->
  IF invitations[i].status = "none" THEN [status |-> "none"]
  ELSE [status |-> invitations[i].status, org |-> invitations[i].org,
        to |-> invitations[i].email, role |-> invitations[i].role]]

roleBar == [o \in OrgIds |-> [u \in Users |-> members[o][u].role]]

Lifecycle == INSTANCE InvitationLifecycle WITH
  Ids <- InvIds, Orgs <- OrgIds, People <- Users, RoleNames <- Roles,
  letter <- letterBar, roleOf <- roleBar

(* Every step of the service is a step of the lifecycle or leaves letters  *)
(* and roles alone.                                                        *)
ImplementsLifecycle == Lifecycle!LifecycleSpec
=============================================================================
