----------------------------- MODULE MCCommittee -----------------------------
(* Instances of Committee for TLC. *)
EXTENDS Committee, TLC

Symmetry == Permutations(Registrations)
=============================================================================
