----------------------------- MODULE MCRootVotes -----------------------------
(* Instances of RootVotes for TLC.                                           *)
EXTENDS RootVotes, TLC

CONSTANT SecondShard   \* the clients that execute shard 2; the others shard 1

MCShardOf == [c \in Clients |-> IF c \in SecondShard THEN 2 ELSE 1]

\* Nothing distinguishes two clients of the same shard, or two roots.
Symmetry ==
  Permutations(Clients \ SecondShard) \cup Permutations(SecondShard)
    \cup Permutations(Roots)
=============================================================================
