------------------------- MODULE MCLeaderProblocks -------------------------
(* Small instances of LeaderProblocks for TLC. *)
EXTENDS LeaderProblocks, TLC

Symmetry == Permutations(Clients) \cup Permutations(Bodies)
=============================================================================
