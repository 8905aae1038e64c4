-------------------------- MODULE MCOrganizations --------------------------
(* Instances of Organizations for TLC. *)
EXTENDS Organizations, TLC

(* Users and requests are interchangeable: no definition orders them. *)
Symmetry == Permutations(Users) \cup Permutations(Reqs)

MemberOps == AllOps \ {"update", "remove"}
=============================================================================
