---------------------------- MODULE ConcurrentMap ----------------------------
(***************************************************************************)
(* MyConcurrentMap (structure/controller.go) and IdConcurrentMap           *)
(* (model/block.go), which differ in the type of their values.             *)
(*                                                                         *)
(* Get of a key that is absent leaves a channel for the key, releases the  *)
(* mutex and waits for the channel or its deadline; Put stores the value   *)
(* and closes the channel.  The sections under the mutex are atomic, and   *)
(* Get has up to three of them.  Nothing is ever removed.  A deadline may  *)
(* pass at any moment: everybody calls Get with a duration of zero, and    *)
(* select picks one of the two at random when both are ready.              *)
(***************************************************************************)
CONSTANTS
  Callers,  \* goroutines that call Get, one call at a time
  Keys,
  Values,
  NoValue,  \* nil, the value of a key that is absent
  Error     \* the result of a Get that returns an error

\* Who uses the map chooses these; module Multicast assumes them of its own.
ConstantsAssumption ==
  /\ NoValue \notin Values
  /\ Error \notin Values \cup {NoValue}

VARIABLES
  mp,       \* mp
  keyToCh,  \* keyToCh: is there a channel for the key, is it closed?
  getter,   \* where the Get of a caller is
  key,      \* its argument k
  result    \* what its last Get returned

vars == <<mp, keyToCh, getter, key, result>>

Init ==
  /\ mp      = [k \in Keys |-> NoValue]
  /\ keyToCh = [k \in Keys |-> "none"]
  /\ getter  = [c \in Callers |-> "idle"]
  /\ key     \in [Callers -> Keys]
  /\ result  = [c \in Callers |-> Error]

\* Mutant: the channel is left open.
LeftOpen(ch) == ch

\* Closing a channel twice would panic.
Closed(ch) == IF ch = "open" THEN "closed" ELSE ch

Put(k, v) ==
  /\ mp'      = [mp EXCEPT ![k] = v]
  /\ keyToCh' = [keyToCh EXCEPT ![k] = Closed(@)]
  /\ UNCHANGED <<getter, key, result>>

Found(c, k) ==
  /\ mp[k] # NoValue
  /\ result' = [result EXCEPT ![c] = mp[k]]
  /\ UNCHANGED <<mp, keyToCh, getter>>

Await(c, k) ==
  /\ mp[k] = NoValue
  /\ keyToCh' = [keyToCh EXCEPT ![k] = IF @ = "none" THEN "open" ELSE @]
  /\ getter'  = [getter EXCEPT ![c] = "selecting"]
  /\ UNCHANGED <<mp, result>>

\* Get, up to the first Unlock.
Get(c, k) ==
  /\ getter[c] = "idle"
  /\ key' = [key EXCEPT ![c] = k]
  /\ Found(c, k) \/ Await(c, k)

\* The deadline has passed.
Timeout(c) ==
  /\ getter[c] = "selecting"
  /\ getter' = [getter EXCEPT ![c] = "idle"]
  /\ result' = [result EXCEPT ![c] = Error]
  /\ UNCHANGED <<mp, keyToCh, key>>

Wake(c) ==
  /\ getter[c] = "selecting"
  /\ keyToCh[key[c]] = "closed"
  /\ getter' = [getter EXCEPT ![c] = "woken"]
  /\ UNCHANGED <<mp, keyToCh, key, result>>

\* Mutant: the map is not read again after the wait.
ReadBefore(c) == NoValue

ReadAgain(c) == mp[key[c]]

Return(c) ==
  /\ getter[c] = "woken"
  /\ result' = [result EXCEPT ![c] = ReadAgain(c)]
  /\ getter' = [getter EXCEPT ![c] = "idle"]
  /\ UNCHANGED <<mp, keyToCh, key>>

Next ==
  \/ \E k \in Keys, v \in Values : Put(k, v)
  \/ \E c \in Callers :
       \/ \E k \in Keys : Get(c, k)
       \/ Timeout(c) \/ Wake(c) \/ Return(c)

Spec == Init /\ [][Next]_vars

-----------------------------------------------------------------------------
TypeOK ==
  /\ mp      \in [Keys -> Values \cup {NoValue}]
  /\ keyToCh \in [Keys -> {"none", "open", "closed"}]
  /\ getter  \in [Callers -> {"idle", "selecting", "woken"}]
  /\ key     \in [Callers -> Keys]
  /\ result  \in [Callers -> Values \cup {Error}]

(* No wake-up is lost: whoever waits for a key that has got a value finds its
   channel closed, also if the value has been replaced since, or was stored
   between its look at the map and its wait. *)
NoLostWakeUp ==
  \A c \in Callers :
    getter[c] = "selecting" /\ mp[key[c]] # NoValue => keyToCh[key[c]] = "closed"

T == INSTANCE TimedMap WITH
       store  <- mp,
       asking <- [c \in Callers |-> IF getter[c] = "idle" THEN {} ELSE {key[c]}],
       answer <- result

(* Channels, closings and the second look implement a map whose Get waits: an
   error is returned only to a caller that found the key absent, and a value
   only if it is the key's value at that moment. *)
ImplementsTimedMap == T!Spec

-----------------------------------------------------------------------------
(* The inductive invariant.                                                *)

\* A channel is closed iff its key has a value; a caller that waits has one.
ChannelInv ==
  /\ \A k \in Keys : keyToCh[k] = "closed" => mp[k] # NoValue
  /\ \A k \in Keys : keyToCh[k] = "open" => mp[k] = NoValue
  /\ \A c \in Callers :
       /\ getter[c] = "selecting" => keyToCh[key[c]] # "none"
       /\ getter[c] = "woken" => keyToCh[key[c]] = "closed"

IndInv == TypeOK /\ ChannelInv
=============================================================================
