------------------------------- MODULE Payouts -------------------------------
(***************************************************************************)
(* What the rounds of the execution shards promise about relay money and   *)
(* transaction counts: in one round at most one upload of a shard is paid  *)
(* out, a commit settles what has been paid out since the last time, once, *)
(* and what it has not settled when the round ends is never counted.  Who  *)
(* votes for which root, and which lock is held meanwhile, is RootVotes'   *)
(* business.                                                               *)
(***************************************************************************)
EXTENDS Naturals, Sequences

CONSTANTS
  Shards,
  Uploads   \* what may be paid out; u.num is its number of transactions

VARIABLES
  paid,     \* paid[s]: the uploads of shard s whose relays have been written
  open,     \* open[s]: nothing has been paid out in the round of s yet
  settled,  \* settled[s]: how many of paid[s] a commit has dealt with
  total     \* transactions counted

vars == <<paid, open, settled, total>>

Init ==
  /\ paid    = [s \in Shards |-> <<>>]
  /\ open    = [s \in Shards |-> TRUE]
  /\ settled = [s \in Shards |-> 0]
  /\ total   = 0

\* An upload closes the round of its shard and is paid out.
Pay(s, u) ==
  /\ open[s]
  /\ open' = [open EXCEPT ![s] = FALSE]
  /\ paid' = [paid EXCEPT ![s] = Append(@, u)]
  /\ UNCHANGED <<settled, total>>

Unsettled(s) == settled[s] < Len(paid[s])

\* A commit counts what has been paid out since the last one.
Settle(s) ==
  /\ total'   = total + (IF Unsettled(s) THEN paid[s][Len(paid[s])].num ELSE 0)
  /\ settled' = [settled EXCEPT ![s] = Len(paid[s])]
  /\ UNCHANGED <<paid, open>>

\* A new round.  What was paid out too late for the commit is forfeited.
Reopen(s) ==
  /\ open'    = [open EXCEPT ![s] = TRUE]
  /\ settled' = [settled EXCEPT ![s] = Len(paid[s])]
  /\ UNCHANGED <<paid, total>>

Next ==
  \E s \in Shards :
    \/ \E u \in Uploads : Pay(s, u)
    \/ Settle(s)
    \/ Reopen(s)

Spec == Init /\ [][Next]_vars
=============================================================================
