--------------------------- MODULE MCAccountState ---------------------------
(* Instances of AccountState for TLC: two shards of two accounts. *)
EXTENDS AccountState

CONSTANTS a1, a2, b1, b2

MCAccounts == {a1, a2, b1, b2}
MCShardOf  == [a \in MCAccounts |-> IF a \in {a1, a2} THEN 1 ELSE 2]

Tx(k, s, a, b) == [kind |-> k, shard |-> s, from |-> a, to |-> b]

\* Two transfers of the same payer, one in the other shard, and the two halves
\* of a transfer between the shards.
Window1 ==
  [relay    |-> << <<>>, <<Tx("relay", 2, a1, b1)>> >>,
   internal |-> << <<Tx("internal", 1, a1, a2), Tx("internal", 1, a1, a2)>>,
                   <<Tx("internal", 2, b1, b2)>> >>,
   cross    |-> << <<Tx("cross", 1, a1, b1)>>, <<Tx("cross", 2, b2, a2)>> >>]

\* A relay in the pool of the shard it comes from.
Window2 ==
  [relay    |-> << <<Tx("relay", 1, a1, a2), Tx("relay", 1, a1, b1)>>, <<>> >>,
   internal |-> << <<Tx("internal", 1, a2, a1)>>, <<>> >>,
   cross    |-> << <<>>, <<>> >>]

\* Halves of transfers between the shards, whose other parties do nothing.
Window3 ==
  [relay    |-> << <<>>, <<Tx("relay", 2, a2, b2)>> >>,
   internal |-> << <<>>, <<>> >>,
   cross    |-> << <<Tx("cross", 1, a1, b1)>>, <<>> >>]

MCWindows == {Window1, Window2, Window3}
=============================================================================
