------------------------------- MODULE TimedMap -------------------------------
(***************************************************************************)
(* What the concurrent maps of the server promise: a map whose Get waits   *)
(* for a key that is absent, and gives up after a time.                    *)
(***************************************************************************)
CONSTANTS Callers, Keys, Values, NoValue, Error

VARIABLES
  store,   \* value of each key, NoValue for a key that is absent
  asking,  \* asking[c]: the key caller c waits for, as a set
  answer   \* answer[c]: what the last Get of c returned, a value or Error

vars == <<store, asking, answer>>

Init ==
  /\ store  = [k \in Keys |-> NoValue]
  /\ asking = [c \in Callers |-> {}]
  /\ answer = [c \in Callers |-> Error]

Write(k, v) ==
  /\ store' = [store EXCEPT ![k] = v]
  /\ UNCHANGED <<asking, answer>>

Find(c, k) ==
  /\ asking[c] = {}
  /\ store[k] # NoValue
  /\ answer' = [answer EXCEPT ![c] = store[k]]
  /\ UNCHANGED <<store, asking>>

\* Only a caller that has found its key absent can come to an error.
Wait(c, k) ==
  /\ asking[c] = {}
  /\ store[k] = NoValue
  /\ asking' = [asking EXCEPT ![c] = {k}]
  /\ UNCHANGED <<store, answer>>

\* A caller that waited is given the value the key has at this moment.
Deliver(c) ==
  /\ \E k \in asking[c] :
       /\ store[k] # NoValue
       /\ answer' = [answer EXCEPT ![c] = store[k]]
  /\ asking' = [asking EXCEPT ![c] = {}]
  /\ UNCHANGED store

Expire(c) ==
  /\ asking[c] # {}
  /\ asking' = [asking EXCEPT ![c] = {}]
  /\ answer' = [answer EXCEPT ![c] = Error]
  /\ UNCHANGED store

Next ==
  \/ \E k \in Keys, v \in Values : Write(k, v)
  \/ \E c \in Callers :
       \/ \E k \in Keys : Find(c, k) \/ Wait(c, k)
       \/ Deliver(c) \/ Expire(c)

Spec == Init /\ [][Next]_vars
=============================================================================
