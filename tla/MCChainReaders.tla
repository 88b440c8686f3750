--------------------------- MODULE MCChainReaders ---------------------------
(* An instance of ChainReaders for TLC. *)
EXTENDS ChainReaders, TLC

Symmetry == Permutations(Clients)
=============================================================================
