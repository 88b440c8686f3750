------------------------------ MODULE Election ------------------------------
(***************************************************************************)
(* What the registration of order clients promises to the ordering         *)
(* committee: for each block at most one committee is called, of exactly   *)
(* CommitteeSize members, and it never changes afterwards.                 *)
(***************************************************************************)
EXTENDS Naturals, FiniteSets

CONSTANTS Members, Heights, CommitteeSize

VARIABLE elected   \* elected[h]: the committee called for block h, {} if none

Init == elected = [h \in Heights |-> {}]

Elect(h, S) ==
  /\ elected[h] = {}
  /\ Cardinality(S) = CommitteeSize
  /\ elected' = [elected EXCEPT ![h] = S]

Next == \E h \in Heights, S \in SUBSET Members : Elect(h, S)

Spec == Init /\ [][Next]_elected
=============================================================================
