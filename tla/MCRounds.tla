------------------------------ MODULE MCRounds ------------------------------
(* An instance of Rounds for TLC: committees of two out of three order clients,
   so that a third can register while a block is being committed, and one
   execution client, whose uploads meet the commits at its shard. *)
EXTENDS Rounds

CONSTANT SecondShard   \* the clients that execute shard 2; the others shard 1

MCShardOf == [c \in ExecClients |-> IF c \in SecondShard THEN 2 ELSE 1]
=============================================================================
