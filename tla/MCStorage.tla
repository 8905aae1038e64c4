----------------------------- MODULE MCStorage -----------------------------
(* Instances of Storage for TLC. *)
EXTENDS Storage, TLC

(* Requests and instances are interchangeable: no definition orders them. *)
Symmetry == Permutations(Reqs) \cup Permutations(Instances)
=============================================================================
