------------------------- MODULE ConcurrentMapProofs -------------------------
(***************************************************************************)
(* Proofs about the concurrent maps, for any callers, keys and values.     *)
(***************************************************************************)
EXTENDS ConcurrentMap, TLAPS

LEMMA InitInv == Init => IndInv
  BY DEF Init, IndInv, TypeOK, ChannelInv

LEMMA PutInv ==
  ASSUME ConstantsAssumption, IndInv, NEW k \in Keys, NEW v \in Values, Put(k, v)
  PROVE  IndInv'
  BY DEF ConstantsAssumption, IndInv, TypeOK, ChannelInv, Put, Closed

LEMMA GetInv ==
  ASSUME ConstantsAssumption, IndInv, NEW c \in Callers, NEW k \in Keys, Get(c, k)
  PROVE  IndInv'
<1>1. CASE Found(c, k)
  BY <1>1 DEF ConstantsAssumption, IndInv, TypeOK, ChannelInv, Get, Found
<1>2. CASE Await(c, k)
  BY <1>2 DEF ConstantsAssumption, IndInv, TypeOK, ChannelInv, Get, Await
<1>3. QED
  BY <1>1, <1>2 DEF Get

LEMMA WaitInv ==
  ASSUME ConstantsAssumption, IndInv, NEW c \in Callers,
         Timeout(c) \/ Wake(c) \/ Return(c)
  PROVE  IndInv'
<1>1. CASE Timeout(c)
  BY <1>1 DEF ConstantsAssumption, IndInv, TypeOK, ChannelInv, Timeout
<1>2. CASE Wake(c)
  BY <1>2 DEF ConstantsAssumption, IndInv, TypeOK, ChannelInv, Wake
<1>3. CASE Return(c)
  <2>1. mp[key[c]] \in Values
    BY <1>3 DEF IndInv, TypeOK, ChannelInv, Return
  <2>2. QED
    BY <1>3, <2>1 DEF ConstantsAssumption, IndInv, TypeOK, ChannelInv, Return, ReadAgain
<1>4. QED
  BY <1>1, <1>2, <1>3

\* The lemmas above, for a step of whoever uses the map.
LEMMA StepInv == ConstantsAssumption /\ IndInv /\ [Next]_vars => IndInv'
<1> SUFFICES ASSUME ConstantsAssumption, IndInv, [Next]_vars PROVE IndInv'
  OBVIOUS
<1>1. CASE Next
  BY <1>1, PutInv, GetInv, WaitInv DEF Next
<1>2. CASE UNCHANGED vars
  BY <1>2 DEF IndInv, TypeOK, ChannelInv, vars
<1>3. QED
  BY <1>1, <1>2

LEMMA InvImpliesNoLostWakeUp == IndInv => NoLostWakeUp
  BY DEF IndInv, TypeOK, ChannelInv, NoLostWakeUp

-----------------------------------------------------------------------------
(* The refinement of TimedMap.                                             *)

LEMMA InitRefines == Init => T!Init
  BY DEF Init, T!Init

LEMMA PutRefines ==
  ASSUME NEW k \in Keys, NEW v \in Values, Put(k, v)
  PROVE  T!Write(k, v)
  BY DEF Put, T!Write

Asking == [c \in Callers |-> IF getter[c] = "idle" THEN {} ELSE {key[c]}]

LEMMA GetRefines ==
  ASSUME IndInv, NEW c \in Callers, NEW k \in Keys, Get(c, k)
  PROVE  T!Find(c, k) \/ T!Wait(c, k)
<1> USE DEF IndInv, TypeOK
<1>0. Asking[c] = {}
  BY DEF Get, Asking
<1>1. CASE Found(c, k)
  <2>1. Asking' = Asking
    BY <1>1 DEF Get, Found, Asking
  <2>2. QED
    BY <1>0, <1>1, <2>1 DEF Get, Found, T!Find, Asking
<1>2. CASE Await(c, k)
  <2>1. Asking' = [Asking EXCEPT ![c] = {k}]
    BY <1>2 DEF Get, Await, Asking
  <2>2. QED
    BY <1>0, <1>2, <2>1 DEF Get, Await, T!Wait, Asking
<1>3. QED
  BY <1>1, <1>2 DEF Get

LEMMA TimeoutRefines ==
  ASSUME IndInv, NEW c \in Callers, Timeout(c)
  PROVE  T!Expire(c)
<1> USE DEF IndInv, TypeOK
<1>1. Asking[c] # {}
  BY DEF Timeout, Asking
<1>2. Asking' = [Asking EXCEPT ![c] = {}]
  BY DEF Timeout, Asking
<1>3. QED
  BY <1>1, <1>2 DEF Timeout, T!Expire, Asking

LEMMA WakeRefines ==
  ASSUME IndInv, NEW c \in Callers, Wake(c)
  PROVE  UNCHANGED <<mp, Asking, result>>
  BY DEF IndInv, TypeOK, Wake, Asking

LEMMA ReturnRefines ==
  ASSUME IndInv, NEW c \in Callers, Return(c)
  PROVE  T!Deliver(c)
<1> USE DEF IndInv, TypeOK
<1>1. Asking[c] = {key[c]} /\ mp[key[c]] # NoValue
  BY DEF Return, Asking, ChannelInv
<1>2. Asking' = [Asking EXCEPT ![c] = {}]
  BY DEF Return, Asking
<1>3. QED
  BY <1>1, <1>2 DEF Return, ReadAgain, T!Deliver, Asking

LEMMA StepRefines == IndInv /\ [Next]_vars => [T!Next]_(T!vars)
<1> SUFFICES ASSUME IndInv, [Next]_vars PROVE [T!Next]_(T!vars)
  OBVIOUS
<1>1. CASE UNCHANGED vars
  BY <1>1 DEF vars, T!vars
<1>2. ASSUME NEW k \in Keys, NEW v \in Values, Put(k, v) PROVE T!Next
  BY <1>2, PutRefines DEF T!Next
<1>3. ASSUME NEW c \in Callers, NEW k \in Keys, Get(c, k) PROVE T!Next
  BY <1>3, GetRefines DEF T!Next
<1>4. ASSUME NEW c \in Callers, Timeout(c) \/ Return(c) PROVE T!Next
  BY <1>4, TimeoutRefines, ReturnRefines DEF T!Next
<1>5. ASSUME NEW c \in Callers, Wake(c) PROVE UNCHANGED T!vars
  BY <1>5, WakeRefines DEF T!vars, Asking
<1>6. QED
  BY <1>1, <1>2, <1>3, <1>4, <1>5 DEF Next

-----------------------------------------------------------------------------
(* A channel is closed just when its key has a value, and has been made before
   anyone waits for it: the reason why nobody sleeps through a Put. *)
THEOREM MapInvariant == ConstantsAssumption /\ Spec => []IndInv
<1>1. ConstantsAssumption => ConstantsAssumption'
  BY DEF ConstantsAssumption
<1>2. QED
  BY <1>1, InitInv, StepInv, PTL DEF Spec

(* Whoever waits for a key that has a value finds its channel closed. *)
THEOREM NoWakeUpIsLost == ConstantsAssumption /\ Spec => []NoLostWakeUp
  BY MapInvariant, InvImpliesNoLostWakeUp, PTL

(* The maps with their channels are maps whose Get waits: an error only for a
   caller that found its key absent, a value only if it is the key's value. *)
THEOREM MapIsTimedMap == ConstantsAssumption /\ Spec => ImplementsTimedMap
<1>1. Init => T!Init
  BY InitRefines
<1>2. QED
  BY <1>1, MapInvariant, StepRefines, PTL DEF Spec, ImplementsTimedMap, T!Spec
=============================================================================
