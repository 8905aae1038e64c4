---------------------------- MODULE MCOnboarding ---------------------------
(* Instances of Onboarding for TLC. *)
EXTENDS Onboarding, TLC

(* Users and requests are interchangeable: no definition orders them. *)
Symmetry == Permutations(Users) \cup Permutations(Reqs)

(* Behaviours that start with every user registered and invited after that: *)
(* accept and joinByToken read neither users nor an invitation's target.    *)
RegisteredInit ==
  /\ Init
  /\ accounts = Users
  /\ \A i \in SeedInvs : invitations[i].target = invitations[i].email

RegisteredSpec == RegisteredInit /\ [][Next]_allVars
=============================================================================
