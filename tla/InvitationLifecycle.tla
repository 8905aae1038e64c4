------------------------ MODULE InvitationLifecycle ------------------------
(***************************************************************************)
(* What a nominal invitation promises to the organization and to the       *)
(* invited person, with no requests, checks or database calls in it: it is *)
(* sent once, it leaves PENDING once, accepting it makes its addressee a   *)
(* member with its role, and an address has one open invitation per        *)
(* organization.                                                           *)
(***************************************************************************)
CONSTANTS Ids, Orgs, People, RoleNames

VARIABLES
  letter,   \* letter[i]: status, organization, addressee and role of invitation i
  roleOf    \* roleOf[o][p]: the role of p in o, "NONE" if p is no member

lifecycleVars == <<letter, roleOf>>

Closed   == {"REJECTED", "REVOKED", "EXPIRED"}
Letter   == [status : {"PENDING", "ACCEPTED"} \cup Closed, org : Orgs,
             to : People, role : RoleNames]
Unsent   == [status |-> "none"]

IsOpen(i) == letter[i].status = "PENDING"

LifecycleInit ==
  /\ letter \in [Ids -> {x \in Letter : x.status = "PENDING"} \cup {Unsent}]
  /\ \A i, j \in Ids : IsOpen(i) /\ IsOpen(j) /\ i # j =>
        <<letter[i].org, letter[i].to>> # <<letter[j].org, letter[j].to>>
  /\ roleOf \in [Orgs -> [People -> RoleNames \cup {"NONE"}]]

Send(i, o, p, role) ==
  /\ \A j \in Ids : IsOpen(j) => letter[j].org # o \/ letter[j].to # p
  /\ letter' = [letter EXCEPT ![i] = [status |-> "PENDING", org |-> o, to |-> p, role |-> role]]
  /\ UNCHANGED roleOf

Accept(i) ==
  /\ roleOf[letter[i].org][letter[i].to] = "NONE"
  /\ letter' = [letter EXCEPT ![i].status = "ACCEPTED"]
  /\ roleOf' = [roleOf EXCEPT ![letter[i].org][letter[i].to] = letter[i].role]

(* Rejecting and revoking close one invitation, expiry may close several. *)
Close(S, status) ==
  /\ letter' = [i \in Ids |-> IF i \in S THEN [letter[i] EXCEPT !.status = status] ELSE letter[i]]
  /\ UNCHANGED roleOf

Open == {i \in Ids : IsOpen(i)}

LifecycleNext ==
  \/ \E i \in Ids : letter[i] = Unsent /\
       \E o \in Orgs, p \in People, role \in RoleNames : Send(i, o, p, role)
  \/ \E i \in Open : Accept(i)
  \/ \E S \in SUBSET Open, status \in Closed : Close(S, status)

LifecycleSpec == LifecycleInit /\ [][LifecycleNext]_lifecycleVars
=============================================================================
