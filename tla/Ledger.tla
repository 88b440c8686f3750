------------------------------- MODULE Ledger -------------------------------
(***************************************************************************)
(* What the ordering committee promises to a reader of the chain: blocks   *)
(* are only ever appended, block k of the ledger is a proposal for height  *)
(* k, and a proposal gets in only when a quorum of different clients has   *)
(* voted for it.  How votes are tallied, in which map, behind which lock   *)
(* and with which table rows is LeaderProblocks' business.                 *)
(***************************************************************************)
EXTENDS Naturals, Sequences, FiniteSets

CONSTANTS
  Clients,   \* the clients that may vote
  Heights,   \* the heights proposals are made for
  Bodies,    \* the contents of a proposal
  Quorum     \* votes a proposal needs

Proposals == [height : Heights, body : Bodies]

VARIABLES
  votes,    \* every <<client, proposal>> voted so far
  ledger    \* the proposals committed, in order

vars == <<votes, ledger>>

VotersFor(p) == {c \in Clients : <<c, p>> \in votes}

Init == votes = {} /\ ledger = <<>>

\* A client votes for a proposal; it votes only once for it.
Vote(c, p) ==
  /\ <<c, p>> \notin votes
  /\ votes' = votes \cup {<<c, p>>}

\* The vote that closes a round may commit any proposal with a quorum.
Commit(p) ==
  /\ p.height = Len(ledger) + 1
  /\ Cardinality(VotersFor(p)') >= Quorum
  /\ ledger' = Append(ledger, p)

Next ==
  \E c \in Clients, p \in Proposals :
    /\ Vote(c, p)
    /\ UNCHANGED ledger \/ \E q \in Proposals : Commit(q)

Spec == Init /\ [][Next]_vars
=============================================================================
