------------------------------ MODULE MCTxPool ------------------------------
(* An instance of TxPool for TLC. *)
EXTENDS TxPool
=============================================================================
