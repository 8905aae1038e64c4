--------------------------- MODULE MCInvitations ---------------------------
(* Instances of Invitations for TLC. *)
EXTENDS InvitationRefinement, TLC

(* Users and requests are interchangeable: no definition orders them. *)
Symmetry == Permutations(Users) \cup Permutations(Reqs)

AnswerOps == AllInvOps \ {"send"}
=============================================================================
