----------------------------- MODULE MCMulticast -----------------------------
(* An instance of Multicast for TLC: three proposals for members that have m2   *)
(* in common; m3 is not connected.                                            *)
EXTENDS Multicast

CONSTANTS r1, m1, m2, m3

MCIdList ==
  [r \in Requests |-> IF r = r1 THEN <<m3, m2>> ELSE <<m2>>]

MCCommittee == <<m1, m2>>
=============================================================================
