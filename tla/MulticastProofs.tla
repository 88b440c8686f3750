--------------------------- MODULE MulticastProofs ---------------------------
(***************************************************************************)
(* Proofs about the multicast, for any requests, members and lists.        *)
(***************************************************************************)
EXTENDS Multicast, FiniteSetTheorems, TLAPS

LP == INSTANCE ConcurrentMapProofs WITH
        Callers <- Requests, Keys <- Members, Values <- Writers, NoValue <- NoLock

-----------------------------------------------------------------------------
(* The steps of the multicast on idLocks are those of the map.             *)

PlaceOK ==
  /\ at \in [Requests -> Nat]
  /\ \A r \in Requests : at[r] \in 1..Len(IdList[r])

LEMMA MemberIsWriter ==
  ASSUME PlaceOK, NEW r \in Requests
  PROVE  Member(r) \in Members /\ <<r, Member(r)>> \in Writers
<1>1. IdList[r] \in Seq(Members)
  BY ConstantsAssumption
<1>2. at[r] \in DOMAIN IdList[r]
  BY <1>1 DEF PlaceOK
<1>3. QED
  BY <1>1, <1>2 DEF Member, Writers, Range

LEMMA FirstPlace == \A r \in Requests : 1 \in 1..Len(IdList[r])
<1> TAKE r \in Requests
<1>1. IdList[r] \in Seq(Members) /\ IdList[r] # <<>>
  BY ConstantsAssumption
<1>2. QED
  BY <1>1

LEMMA InitPlace == Init => PlaceOK
  BY FirstPlace DEF Init, PlaceOK

LEMMA StartPlace ==
  ASSUME PlaceOK, NEW r \in Requests, NEW l, Start(r, l)
  PROVE  PlaceOK'
<1>0. IdList[r] \in Seq(Members)
  BY ConstantsAssumption
<1>1. CASE MoreMembers(r)
  <2>1. at' = [at EXCEPT ![r] = at[r] + 1]
    BY <1>1 DEF Start
  <2>2. at[r] + 1 \in 1..Len(IdList[r])
    BY <1>0, <1>1 DEF PlaceOK, MoreMembers
  <2>3. QED
    BY <2>1, <2>2 DEF PlaceOK
<1>2. CASE ~MoreMembers(r)
  BY <1>2 DEF PlaceOK, Start
<1>3. QED
  BY <1>1, <1>2

LEMMA StepPlace == PlaceOK /\ [Next]_vars => PlaceOK'
<1> SUFFICES ASSUME PlaceOK, [Next]_vars PROVE PlaceOK'
  OBVIOUS
<1>1. ASSUME NEW r \in Requests, UseLock(r) \/ MakeLock(r) PROVE PlaceOK'
  BY <1>1, StartPlace DEF UseLock, MakeLock
<1>2. CASE UNCHANGED at
  BY <1>2 DEF PlaceOK
<1>3. ASSUME NEW r \in Requests, Send(r) \/ GetLock(r) \/ GetGoesOn(r) PROVE UNCHANGED at
  BY <1>3 DEF Send, GetLock, GetGoesOn, requests
<1>4. ASSUME NEW g \in Writers, Write(g) \/ WriterPanics(g) PROVE UNCHANGED at
  BY <1>4 DEF Write, Drop, Lock, Unlock, WriteFails, WriterPanics, requests
<1>5. ASSUME NEW n \in Callers, Call(n) \/ Called(n) \/ CallFails(n) PROVE UNCHANGED at
  BY <1>5 DEF Call, Called, CallFails, requests
<1>6. QED
  BY <1>1, <1>2, <1>3, <1>4, <1>5 DEF Next, Handle, vars, requests

LEMMA InitLocks == Init => LP!Init
  BY MemberIsWriter, InitPlace, FirstPlace, ConstantsAssumption DEF Init, LP!Init, Locks!Init

LEMMA StepLocks == PlaceOK /\ [Next]_vars => [LP!Next]_(LP!vars)
<1> SUFFICES ASSUME PlaceOK, [Next]_vars PROVE [LP!Next]_(LP!vars)
  OBVIOUS
<1>1. CASE UNCHANGED idLocks
  BY <1>1 DEF idLocks, LP!vars
<1>2. ASSUME NEW r \in Requests, Send(r) \/ UseLock(r) PROVE UNCHANGED idLocks
  BY <1>2 DEF Send, UseLock
<1>3. ASSUME NEW r \in Requests, GetLock(r) PROVE LP!Next
  BY <1>3, MemberIsWriter
     DEF GetLock, Locks!Get, Locks!Found, Locks!Await, LP!Get, LP!Found, LP!Await, LP!Next
<1>4. ASSUME NEW r \in Requests, GetGoesOn(r) PROVE LP!Next
  BY <1>4
     DEF GetGoesOn, Locks!Timeout, Locks!Wake, Locks!Return, Locks!ReadAgain,
         LP!Timeout, LP!Wake, LP!Return, LP!ReadAgain, LP!Next
<1>5. ASSUME NEW r \in Requests, MakeLock(r) PROVE LP!Next
  BY <1>5, MemberIsWriter
     DEF MakeLock, Store, Locks!Put, Locks!Closed, LP!Put, LP!Closed, LP!Next
<1>6. ASSUME NEW g \in Writers, Write(g) \/ WriterPanics(g) PROVE UNCHANGED idLocks
  BY <1>6 DEF Write, Drop, Lock, Unlock, WriteFails, WriterPanics
<1>7. ASSUME NEW n \in Callers, Call(n) \/ Called(n) \/ CallFails(n) PROVE UNCHANGED idLocks
  BY <1>7 DEF Call, Called, CallFails
<1>8. QED
  BY <1>1, <1>2, <1>3, <1>4, <1>5, <1>6, <1>7 DEF Next, Handle, vars

LEMMA MapAssumption == LP!ConstantsAssumption
  BY ConstantsAssumption DEF Locks!ConstantsAssumption, LP!ConstantsAssumption

LEMMA MulticastUsesMap == Spec => LP!Spec
  BY InitPlace, StepPlace, InitLocks, StepLocks, PTL DEF Spec, LP!Spec

(* No request waits in Get with its channel open for a member that has a mutex. *)
THEOREM LocksWakeUp == Spec => []NoLostWakeUp
<1>1. LP!NoLostWakeUp => NoLostWakeUp
  BY DEF LP!NoLostWakeUp, NoLostWakeUp, Locks!NoLostWakeUp
<1>2. QED
  BY <1>1, MulticastUsesMap, MapAssumption, LP!NoWakeUpIsLost, PTL

(* Whatever the requests do, idLocks is a map whose Get waits (module TimedMap). *)
THEOREM LocksAreTimedMap == Spec => IdLocksAreTimedMap
<1>1. LP!T!Init => Locks!T!Init
  BY DEF LP!T!Init, Locks!T!Init
<1>2. [LP!T!Next]_(LP!T!vars) => [Locks!T!Next]_(Locks!T!vars)
  BY DEF LP!T!Next, LP!T!vars, LP!T!Write, LP!T!Find, LP!T!Wait, LP!T!Deliver, LP!T!Expire,
         Locks!T!Next, Locks!T!vars, Locks!T!Write, Locks!T!Find, Locks!T!Wait,
         Locks!T!Deliver, Locks!T!Expire
<1>3. QED
  BY <1>1, <1>2, MulticastUsesMap, MapAssumption, LP!MapIsTimedMap, PTL
     DEF LP!ImplementsTimedMap, LP!T!Spec, IdLocksAreTimedMap, Locks!ImplementsTimedMap, Locks!T!Spec

-----------------------------------------------------------------------------
(* Type correctness.                                                       *)

LEMMA MapInvIs == LP!IndInv <=> Locks!TypeOK /\ Locks!ChannelInv
  BY DEF LP!IndInv, LP!TypeOK, LP!ChannelInv, Locks!TypeOK, Locks!ChannelInv

LEMMA TypePlace == TypeOK => PlaceOK
  BY DEF TypeOK, PlaceOK

LEMMA StepMapInv ==
  ASSUME TypeOK, Locks!ChannelInv, [Next]_vars
  PROVE  Locks!TypeOK' /\ Locks!ChannelInv'
<1>1. LP!IndInv
  BY MapInvIs DEF TypeOK
<1>2. LP!IndInv'
  BY <1>1, TypePlace, StepLocks, MapAssumption, LP!StepInv
<1>3. QED
  BY <1>2 DEF LP!IndInv, LP!TypeOK, LP!ChannelInv, Locks!TypeOK, Locks!ChannelInv

\* The conjuncts of TypeOK that are not about idLocks.
TypeOfRest ==
  /\ pc     \in [Requests -> {"unsent", "next", "getting", "answered"}]
  /\ writer \in [Writers -> {"none", "started", "dropped", "writing", "written", "failed"}]
  /\ mutex  \in [Writers -> Writers \cup {NoLock}]
  /\ caller \in [Callers -> {"between", "writing", "ended"}]
  /\ called \in [Callers -> 1..(Len(Committee) + 1)]
  /\ told   \subseteq Connected
  /\ alive  \in BOOLEAN
  /\ raced  \subseteq Members

LEMMA TypeIs == TypeOK <=> Locks!TypeOK /\ PlaceOK /\ TypeOfRest
  BY DEF TypeOK, PlaceOK, TypeOfRest

LEMMA CommitteeLen == Len(Committee) \in Nat
  BY ConstantsAssumption

LEMMA InitType == Init => TypeOK /\ Locks!ChannelInv
<1> SUFFICES ASSUME Init PROVE TypeOK /\ Locks!ChannelInv
  OBVIOUS
<1>1. Locks!TypeOK /\ Locks!ChannelInv
  BY InitLocks, LP!InitInv, MapInvIs
<1>2. TypeOfRest
  BY CommitteeLen DEF Init, TypeOfRest
<1>3. QED
  BY <1>1, <1>2, InitPlace, TypeIs

LEMMA StartType ==
  ASSUME TypeOfRest, NEW r \in Requests, NEW l \in Writers, PlaceOK, Start(r, l)
  PROVE  /\ pc'     \in [Requests -> {"unsent", "next", "getting", "answered"}]
         /\ writer' \in [Writers -> {"none", "started", "dropped", "writing", "written", "failed"}]
         /\ mutex'  \in [Writers -> Writers \cup {NoLock}]
<1>1. CASE MoreMembers(r)
  BY <1>1 DEF TypeOfRest, Start
<1>2. CASE ~MoreMembers(r)
  BY <1>2 DEF TypeOfRest, Start
<1>3. QED
  BY <1>1, <1>2

\* The steps that move idLocks, requests and writers.
RequestStep ==
  \E r \in Requests : Send(r) \/ GetLock(r) \/ GetGoesOn(r) \/ UseLock(r) \/ MakeLock(r)

WriterStep == \E g \in Writers : Write(g) \/ WriterPanics(g)

CallerStep == \E n \in Callers : Call(n) \/ Called(n) \/ CallFails(n)

LEMMA Steps == Next <=> RequestStep \/ WriterStep \/ CallerStep
  BY DEF Next, RequestStep, WriterStep, CallerStep, Handle

LEMMA RequestType ==
  ASSUME TypeOK, Locks!ChannelInv, RequestStep
  PROVE  TypeOfRest'
<1> PICK r \in Requests :
      Send(r) \/ GetLock(r) \/ GetGoesOn(r) \/ UseLock(r) \/ MakeLock(r)
  BY DEF RequestStep
<1>0. PlaceOK /\ TypeOfRest
  BY TypeIs
<1>m. Member(r) \in Members /\ <<r, Member(r)>> \in Writers
  BY <1>0, MemberIsWriter
<1>1. CASE Send(r)
  BY <1>0, <1>1 DEF TypeOfRest, Send, writers, callers
<1>2. CASE GetLock(r)
  <2>1. raced' \subseteq Members
    BY <1>0, <1>m, <1>2 DEF TypeOfRest, GetLock
  <2>2. QED
    BY <1>0, <1>2, <2>1 DEF TypeOfRest, GetLock, writers, callers
<1>3. CASE GetGoesOn(r)
  BY <1>0, <1>3 DEF TypeOfRest, GetGoesOn, requests, writers, callers
<1>4. CASE UseLock(r)
  <2>1. result[r] \in Writers
    BY <1>4 DEF UseLock, TypeOK, Locks!TypeOK
  <2>2. QED
    BY <1>0, <1>4, <2>1, StartType DEF UseLock, TypeOfRest, callers
<1>5. CASE MakeLock(r)
  BY <1>0, <1>m, <1>5, StartType DEF MakeLock, TypeOfRest, callers
<1>6. QED
  BY <1>1, <1>2, <1>3, <1>4, <1>5

LEMMA WriterType ==
  ASSUME TypeOfRest, WriterStep
  PROVE  TypeOfRest'
<1> PICK g \in Writers : Write(g) \/ WriterPanics(g)
  BY DEF WriterStep
<1>1. CASE Write(g)
  BY <1>1 DEF TypeOfRest, Write, Drop, Lock, Unlock, WriteFails, requests, callers
<1>2. CASE WriterPanics(g)
  BY <1>2 DEF TypeOfRest, WriterPanics, requests, writers, callers
<1>3. QED
  BY <1>1, <1>2

LEMMA CallerType ==
  ASSUME TypeOfRest, CallerInv, CallerStep
  PROVE  TypeOfRest' /\ CallerInv'
<1> PICK n \in Callers : Call(n) \/ Called(n) \/ CallFails(n)
  BY DEF CallerStep
<1> PICK k \in Nat : k = Len(Committee) /\ Committee \in [1..k -> Members]
  BY ConstantsAssumption
<1>1. CASE Call(n)
  BY <1>1 DEF TypeOfRest, CallerInv, Call, requests, writers
<1>2. CASE Called(n)
  <2>1. called[n] \in 1..k
    BY <1>2 DEF TypeOfRest, CallerInv, Called
  <2>2. Committee[called[n]] \in Connected
    BY <2>1 DEF Connected, Range
  <2>3. QED
    BY <1>2, <2>1, <2>2 DEF TypeOfRest, CallerInv, Called, requests, writers
<1>3. CASE CallFails(n)
  BY <1>3 DEF TypeOfRest, CallerInv, CallFails, requests, writers
<1>4. QED
  BY <1>1, <1>2, <1>3

LEMMA CallerUnchanged ==
  ASSUME CallerInv, RequestStep \/ WriterStep \/ UNCHANGED vars
  PROVE  CallerInv'
<1>1. UNCHANGED callers
  BY DEF RequestStep, WriterStep, Send, GetLock, GetGoesOn, UseLock, MakeLock, Write, Drop,
         Lock, Unlock, WriteFails, WriterPanics, vars
<1>2. QED
  BY <1>1 DEF CallerInv, callers

LEMMA StepType ==
  ASSUME TypeOK, Locks!ChannelInv, CallerInv, [Next]_vars
  PROVE  TypeOK' /\ Locks!ChannelInv' /\ CallerInv'
<1>1. Locks!TypeOK' /\ Locks!ChannelInv'
  BY StepMapInv
<1>2. PlaceOK /\ TypeOfRest
  BY TypeIs
<1>3. PlaceOK'
  BY <1>2, StepPlace
<1>4. TypeOfRest' /\ CallerInv'
  <2>1. CASE UNCHANGED vars
    <3>1. TypeOfRest'
      BY <1>2, <2>1 DEF TypeOfRest, vars, requests, writers, callers
    <3>2. QED
      BY <2>1, <3>1, CallerUnchanged
  <2>2. QED
    BY <1>2, <2>1, Steps, RequestType, WriterType, CallerType, CallerUnchanged
<1>5. TypeOK'
  BY <1>1, <1>3, <1>4 DEF TypeOK, PlaceOK, TypeOfRest
<1>6. QED
  BY <1>1, <1>4, <1>5

(* Every variable keeps its type; places stay within the lists. *)
THEOREM MulticastTypeCorrect == Spec => []TypeOK
<1>1. Init => TypeOK /\ Locks!ChannelInv /\ CallerInv
  BY InitType DEF Init, CallerInv
<1>2. QED
  BY <1>1, StepType, PTL DEF Spec

-----------------------------------------------------------------------------
(* Mutual exclusion of the writers.                                        *)

MutexesInv == ExclusionInv /\ MissingInv /\ MutexInv /\ FoundInv /\ KeyInv

LEMMA InitMutexes == Init => MutexesInv
  BY DEF Init, MutexesInv, ExclusionInv, MissingInv, MutexInv, FoundInv, KeyInv, Missing, Holds

\* Steps that leave requests and mutexes alone and let no more hold one.
LEMMA QuietMutexes ==
  ASSUME TypeOK, MutexesInv, UNCHANGED <<idLocks, requests, mutex>>,
         \A g \in Writers : /\ Holds(g)' => Holds(g)
                            /\ writer'[g] # "none" => writer[g] # "none"
  PROVE  MutexesInv'
<1> USE DEF idLocks, requests, MutexesInv
<1>1. \A id : Missing(id)' = Missing(id)
  BY DEF Missing, Member
<1>2. ExclusionInv'
  BY DEF ExclusionInv
<1>3. MissingInv'
  BY <1>1 DEF MissingInv
<1>4. MutexInv'
  BY DEF MutexInv
<1>5. FoundInv' /\ KeyInv'
  BY <1>1 DEF FoundInv, KeyInv, Member
<1>6. QED
  BY <1>2, <1>3, <1>4, <1>5

LEMMA LockMutexes ==
  ASSUME TypeOK, MutexesInv, NEW g \in Writers, Lock(g)
  PROVE  MutexesInv'
<1> USE DEF MutexesInv, Lock, idLocks, requests
<1>0. writer \in [Writers -> {"none", "started", "dropped", "writing", "written", "failed"}]
  BY DEF TypeOK
<1>1. \A f \in Writers \ {g} : writer'[f] = writer[f]
  BY <1>0
<1>2. ExclusionInv'
  <2>1. \A f \in Writers \ {g} : mutex[f] = mutex[g] => ~Holds(f)
    BY DEF Free
  <2>2. QED
    BY <1>1, <2>1 DEF ExclusionInv, Holds
<1>3. MutexInv'
  BY <1>0, <1>1 DEF MutexInv
<1>4. \A id : Missing(id)' = Missing(id)
  BY DEF Missing, Member
<1>5. MissingInv' /\ FoundInv' /\ KeyInv'
  BY <1>4 DEF MissingInv, FoundInv, KeyInv, Member
<1>6. QED
  BY <1>2, <1>3, <1>5

LEMMA WriterMutexes ==
  ASSUME TypeOK, MutexesInv, WriterStep
  PROVE  MutexesInv'
<1> PICK g \in Writers : Write(g) \/ WriterPanics(g)
  BY DEF WriterStep
<1>1. CASE Lock(g)
  BY <1>1, LockMutexes
<1>2. CASE Drop(g) \/ Unlock(g) \/ WriteFails(g) \/ WriterPanics(g)
  <2>1. writer \in [Writers -> {"none", "started", "dropped", "writing", "written", "failed"}]
    BY DEF TypeOK
  <2>2. UNCHANGED <<idLocks, requests, mutex>>
    BY <1>2 DEF Drop, Unlock, WriteFails, WriterPanics, writers
  <2>3. \A f \in Writers : /\ Holds(f)' => Holds(f)
                           /\ writer'[f] # "none" => writer[f] # "none"
    BY <1>2, <2>1 DEF Drop, Unlock, WriteFails, WriterPanics, writers, Holds
  <2>4. QED
    BY <2>2, <2>3, QuietMutexes
<1>3. QED
  BY <1>1, <1>2 DEF Write

LEMMA CallerMutexes ==
  ASSUME TypeOK, MutexesInv, CallerStep \/ UNCHANGED vars
  PROVE  MutexesInv'
<1>1. UNCHANGED <<idLocks, requests, writers>>
  BY DEF CallerStep, Call, Called, CallFails, vars
<1>2. QED
  BY <1>1, QuietMutexes DEF writers, Holds

LEMMA SendMutexes ==
  ASSUME TypeOK, MutexesInv, NEW r \in Requests, Send(r)
  PROVE  MutexesInv'
<1> USE DEF Send, idLocks, writers, MutexesInv
<1>0. pc \in [Requests -> {"unsent", "next", "getting", "answered"}]
  BY DEF TypeOK
<1>1. \A s \in Requests : pc'[s] = "getting" <=> pc[s] = "getting"
  BY <1>0
<1>2. \A id : Missing(id)' = Missing(id)
  BY <1>1 DEF Missing, Member
<1>3. MissingInv' /\ FoundInv' /\ KeyInv'
  BY <1>1, <1>2 DEF MissingInv, FoundInv, KeyInv, Member
<1>4. ExclusionInv' /\ MutexInv'
  BY DEF ExclusionInv, MutexInv, Holds
<1>5. QED
  BY <1>3, <1>4

LEMMA GetLockMutexes ==
  ASSUME TypeOK, MutexesInv, NEW r \in Requests, GetLock(r)
  PROVE  MutexesInv'
<1> USE DEF MutexesInv, writers
<1> DEFINE m == Member(r)
<1>0. /\ pc \in [Requests -> {"unsent", "next", "getting", "answered"}]
      /\ getter \in [Requests -> {"idle", "selecting", "woken"}]
      /\ key \in [Requests -> Members]
      /\ mp \in [Members -> Writers \cup {NoLock}]
      /\ result \in [Requests -> Writers \cup {Error}]
  BY DEF TypeOK, Locks!TypeOK
<1>1. m \in Members
  BY TypeIs, MemberIsWriter
<1>2. /\ pc[r] = "next" /\ pc' = [pc EXCEPT ![r] = "getting"]
      /\ UNCHANGED <<at, mp, writer, mutex>>
      /\ key' = [key EXCEPT ![r] = m]
      /\ raced \subseteq raced'
  BY DEF GetLock, Locks!Get, Locks!Found, Locks!Await
<1>3. \A s \in Requests \ {r} :
        /\ pc'[s] = pc[s] /\ getter'[s] = getter[s] /\ key'[s] = key[s]
        /\ result'[s] = result[s] /\ Member(s)' = Member(s)
  BY <1>0, <1>2 DEF GetLock, Locks!Get, Locks!Found, Locks!Await, Member
<1>4. ExclusionInv' /\ MutexInv'
  BY <1>2 DEF ExclusionInv, MutexInv, Holds
<1>5. KeyInv'
  BY <1>0, <1>2, <1>3 DEF KeyInv, Member
<1>6. Member(r)' = m
  BY <1>2 DEF Member
<1>7. \A id : Missing(id)' \ {r} = Missing(id) \ {r}
  BY <1>3 DEF Missing
<1>8. CASE mp[m] # NoLock
  <2>1. /\ getter'[r] = "idle" /\ result'[r] = mp[m] /\ result'[r] # Error
        /\ raced' = raced
    BY <1>0, <1>1, <1>8, ConstantsAssumption
       DEF GetLock, Locks!Get, Locks!Found, Locks!Await, Locks!ConstantsAssumption
  <2>2. \A id : r \notin Missing(id)' /\ r \notin Missing(id)
    BY <1>2, <2>1 DEF Missing
  <2>3. MissingInv'
    BY <1>2, <1>7, <2>1, <2>2 DEF MissingInv
  <2>4. FoundInv'
    BY <1>2, <1>3, <1>6, <1>7, <1>8, <2>1 DEF FoundInv
  <2>5. QED
    BY <1>4, <1>5, <2>3, <2>4
<1>9. CASE mp[m] = NoLock
  <2>1. /\ getter'[r] = "selecting" /\ result' = result
        /\ raced' = IF Missing(m) # {} THEN raced \cup {m} ELSE raced
    BY <1>0, <1>9 DEF GetLock, Locks!Get, Locks!Found, Locks!Await
  <2>2. r \in Missing(m)' /\ \A id : id # m => r \notin Missing(id)'
    BY <1>0, <1>2, <1>6, <2>1 DEF Missing
  <2>3. \A id : r \notin Missing(id)
    BY <1>2 DEF Missing
  <2>4. MissingInv'
    <3> SUFFICES ASSUME NEW id \in Members \ raced', NEW s \in Missing(id)', NEW t \in Missing(id)'
                 PROVE  s = t /\ mp'[id] = NoLock
      BY DEF MissingInv
    <3>1. CASE id = m
      <4>1. Missing(m) = {}
        BY <2>1, <3>1
      <4>2. s = r /\ t = r
        BY <1>7, <3>1, <4>1
      <4>3. QED
        BY <1>2, <1>9, <3>1, <4>2
    <3>2. CASE id # m
      BY <1>2, <1>7, <2>2, <3>2 DEF MissingInv
    <3>3. QED
      BY <3>1, <3>2
  <2>5. FoundInv'
    BY <1>2, <1>3, <1>6, <1>7, <2>2 DEF FoundInv
  <2>6. QED
    BY <1>4, <1>5, <2>4, <2>5
<1>10. QED
  BY <1>8, <1>9

LEMMA GetGoesOnMutexes ==
  ASSUME TypeOK, Locks!ChannelInv, MutexesInv, NEW r \in Requests, GetGoesOn(r)
  PROVE  MutexesInv'
<1> USE DEF MutexesInv, writers, requests
<1>0. /\ getter \in [Requests -> {"idle", "selecting", "woken"}]
      /\ key \in [Requests -> Members]
      /\ mp \in [Members -> Writers \cup {NoLock}]
      /\ result \in [Requests -> Writers \cup {Error}]
  BY DEF TypeOK, Locks!TypeOK
<1>1. /\ UNCHANGED <<mp, key, pc, at, raced, writer, mutex>>
      /\ getter[r] # "idle"
  BY DEF GetGoesOn, Locks!Timeout, Locks!Wake, Locks!Return
<1>2. \A s \in Requests \ {r} : getter'[s] = getter[s] /\ result'[s] = result[s]
  BY <1>0 DEF GetGoesOn, Locks!Timeout, Locks!Wake, Locks!Return
<1>3. \/ getter'[r] # "idle" \/ result'[r] = Error
      \/ mp[key[r]] # NoLock /\ result'[r] = mp[key[r]]
  <2>1. CASE Locks!Timeout(r) \/ Locks!Wake(r)
    BY <1>0, <2>1 DEF Locks!Timeout, Locks!Wake
  <2>2. CASE Locks!Return(r)
    BY <1>0, <2>2 DEF Locks!Return, Locks!ReadAgain, Locks!ChannelInv
  <2>3. QED
    BY <2>1, <2>2 DEF GetGoesOn
<1>4. \A id : Missing(id)' \subseteq Missing(id)
  BY <1>1, <1>2 DEF Missing, Member
<1>5. MissingInv'
  BY <1>1, <1>4 DEF MissingInv
<1>6. KeyInv' /\ ExclusionInv' /\ MutexInv'
  BY <1>1 DEF KeyInv, ExclusionInv, MutexInv, Holds, Member
<1>7. FoundInv'
  <2> SUFFICES ASSUME NEW s \in Requests, pc[s] = "getting", Member(s) \notin raced,
                      s \notin Missing(Member(s))'
               PROVE  result'[s] = mp[Member(s)] /\ result'[s] # NoLock
    BY <1>1 DEF FoundInv, Member
  <2>1. CASE s = r
    <3>1. getter'[r] = "idle" /\ result'[r] # Error
      BY <1>1, <2>1 DEF Missing, Member
    <3>2. key[r] = Member(r)
      BY <2>1 DEF KeyInv
    <3>3. QED
      BY <1>3, <2>1, <3>1, <3>2
  <2>2. CASE s # r
    <3>1. s \notin Missing(Member(s))
      BY <1>1, <1>2, <2>2 DEF Missing, Member
    <3>2. QED
      BY <1>2, <2>2, <3>1 DEF FoundInv
  <2>3. QED
    BY <2>1, <2>2
<1>8. QED
  BY <1>5, <1>6, <1>7

\* What Start does to the requests.
LEMMA StartFrame ==
  ASSUME TypeOK, NEW r \in Requests, NEW l, Start(r, l)
  PROVE  /\ pc'[r] # "getting"
         /\ \A s \in Requests \ {r} : pc'[s] = pc[s] /\ Member(s)' = Member(s)
<1>0. /\ pc \in [Requests -> {"unsent", "next", "getting", "answered"}]
      /\ at \in [Requests -> Nat]
  BY DEF TypeOK
<1>1. CASE MoreMembers(r)
  BY <1>0, <1>1 DEF Start, Member
<1>2. CASE ~MoreMembers(r)
  BY <1>0, <1>2 DEF Start, Member
<1>3. QED
  BY <1>1, <1>2

\* What it does to the writers.
LEMMA StartWriters ==
  ASSUME TypeOK, NEW r \in Requests, NEW l \in Writers, Start(r, l), ExclusionInv
  PROVE  /\ ExclusionInv'
         /\ mutex'[<<r, Member(r)>>] = l
         /\ \A g \in Writers \ {<<r, Member(r)>>} : mutex'[g] = mutex[g] /\ writer'[g] = writer[g]
<1> DEFINE n == <<r, Member(r)>>
<1>0. /\ writer \in [Writers -> {"none", "started", "dropped", "writing", "written", "failed"}]
      /\ mutex \in [Writers -> Writers \cup {NoLock}]
      /\ n \in Writers
  BY TypeIs, MemberIsWriter DEF TypeOK
<1>1. /\ writer' = [writer EXCEPT ![n] = "started"]
      /\ mutex' = [mutex EXCEPT ![n] = l]
  BY DEF Start
<1>2. ExclusionInv'
  BY <1>0, <1>1 DEF ExclusionInv, Holds
<1>3. QED
  BY <1>0, <1>1, <1>2

LEMMA UseLockMutexes ==
  ASSUME TypeOK, MutexesInv, NEW r \in Requests, UseLock(r)
  PROVE  MutexesInv'
<1> USE DEF MutexesInv
<1> DEFINE m == Member(r)
<1>0. /\ m \in Members /\ result[r] \in Writers
      /\ Start(r, result[r]) /\ pc[r] = "getting"
      /\ UNCHANGED <<idLocks, raced>>
  BY TypeIs, MemberIsWriter DEF UseLock, TypeOK, Locks!TypeOK
<1>1. /\ pc'[r] # "getting"
      /\ \A s \in Requests \ {r} : pc'[s] = pc[s] /\ Member(s)' = Member(s)
  BY <1>0, StartFrame
<1>2. /\ ExclusionInv'
      /\ mutex'[<<r, m>>] = result[r]
      /\ \A g \in Writers \ {<<r, m>>} : mutex'[g] = mutex[g] /\ writer'[g] = writer[g]
  BY <1>0, StartWriters
<1>3. \A id : Missing(id)' = Missing(id) \ {r}
  BY <1>0, <1>1 DEF Missing, idLocks
<1>4. \A id : r \notin Missing(id)
  BY DEF UseLock, Missing
<1>5. MissingInv' /\ FoundInv' /\ KeyInv'
  BY <1>0, <1>1, <1>3 DEF MissingInv, FoundInv, KeyInv, idLocks
<1>6. m \notin raced => result[r] = mp[m] /\ result[r] # NoLock
  BY <1>0, <1>4 DEF FoundInv
<1>7. MutexInv'
  <2> SUFFICES ASSUME NEW g \in Writers, g[2] \notin raced, writer'[g] # "none"
               PROVE  mutex'[g] = mp[g[2]] /\ mutex'[g] # NoLock
    BY <1>0 DEF MutexInv, idLocks
  <2>1. CASE g = <<r, m>>
    BY <1>2, <1>6, <2>1
  <2>2. CASE g # <<r, m>>
    BY <1>2, <2>2 DEF MutexInv
  <2>3. QED
    BY <2>1, <2>2
<1>8. QED
  BY <1>2, <1>5, <1>7

LEMMA MakeLockMutexes ==
  ASSUME TypeOK, MutexesInv, NEW r \in Requests, MakeLock(r)
  PROVE  MutexesInv'
<1> USE DEF MutexesInv
<1> DEFINE m == Member(r)
           n == <<r, m>>
<1>0. /\ m \in Members /\ n \in Writers
      /\ mp \in [Members -> Writers \cup {NoLock}] /\ NoLock \notin Writers
      /\ Start(r, n) /\ pc[r] = "getting"
      /\ mp' = [mp EXCEPT ![m] = n]
      /\ UNCHANGED <<getter, key, result, raced>>
  BY TypeIs, MemberIsWriter, ConstantsAssumption
     DEF MakeLock, Store, Locks!Put, TypeOK, Locks!TypeOK, Locks!ConstantsAssumption
<1>1. /\ pc'[r] # "getting"
      /\ \A s \in Requests \ {r} : pc'[s] = pc[s] /\ Member(s)' = Member(s)
  BY <1>0, StartFrame
<1>2. /\ ExclusionInv'
      /\ mutex'[n] = n
      /\ \A g \in Writers \ {n} : mutex'[g] = mutex[g] /\ writer'[g] = writer[g]
  BY <1>0, StartWriters
<1>3. \A id : Missing(id)' = Missing(id) \ {r}
  BY <1>0, <1>1 DEF Missing
<1>4. r \in Missing(m)
  BY <1>0 DEF MakeLock, Missing
<1>5. m \notin raced => Missing(m) = {r} /\ mp[m] = NoLock
  BY <1>0, <1>4 DEF MissingInv
<1>6. MissingInv'
  <2> SUFFICES ASSUME NEW id \in Members \ raced, NEW s \in Missing(id)', NEW t \in Missing(id)'
               PROVE  s = t /\ mp'[id] = NoLock
    BY <1>0 DEF MissingInv
  <2>1. id # m
    BY <1>3, <1>5
  <2>2. QED
    BY <1>0, <1>3, <2>1 DEF MissingInv
<1>7. FoundInv'
  <2> SUFFICES ASSUME NEW s \in Requests, pc'[s] = "getting", Member(s)' \notin raced,
                      s \notin Missing(Member(s))'
               PROVE  result[s] = mp'[Member(s)'] /\ result[s] # NoLock
    BY <1>0 DEF FoundInv
  <2>1. s # r /\ pc[s] = "getting" /\ Member(s)' = Member(s)
    BY <1>1
  <2>2. s \notin Missing(Member(s))
    BY <1>0, <2>1 DEF Missing
  <2>3. result[s] = mp[Member(s)] /\ result[s] # NoLock
    BY <2>1, <2>2 DEF FoundInv
  <2>4. Member(s) # m
    BY <1>5, <2>1, <2>3
  <2>5. QED
    BY <1>0, <2>1, <2>3, <2>4
<1>8. KeyInv'
  BY <1>0, <1>1 DEF KeyInv
<1>9. MutexInv'
  <2> SUFFICES ASSUME NEW g \in Writers, g[2] \notin raced, writer'[g] # "none"
               PROVE  mutex'[g] = mp'[g[2]] /\ mutex'[g] # NoLock
    BY <1>0 DEF MutexInv
  <2>1. CASE g = n
    BY <1>0, <1>2, <2>1
  <2>2. CASE g # n
    <3>1. mutex'[g] = mutex[g] /\ mutex[g] = mp[g[2]] /\ mutex[g] # NoLock
      BY <1>2, <2>2 DEF MutexInv
    <3>2. g[2] # m
      BY <1>5, <3>1
    <3>3. mp'[g[2]] = mp[g[2]]
      BY <1>0, <3>2
    <3>4. QED
      BY <3>1, <3>3
  <2>3. QED
    BY <2>1, <2>2
<1>10. QED
  BY <1>2, <1>6, <1>7, <1>8, <1>9

LEMMA StepMutexes ==
  ASSUME TypeOK, Locks!ChannelInv, MutexesInv, [Next]_vars
  PROVE  MutexesInv'
<1>1. ASSUME NEW r \in Requests,
             Send(r) \/ GetLock(r) \/ GetGoesOn(r) \/ UseLock(r) \/ MakeLock(r)
      PROVE  MutexesInv'
  BY <1>1, SendMutexes, GetLockMutexes, GetGoesOnMutexes, UseLockMutexes, MakeLockMutexes
<1>2. QED
  BY <1>1, Steps, WriterMutexes, CallerMutexes DEF RequestStep

LEMMA MutexesExclude == TypeOK /\ MutexesInv => OneWriterUnlessRaced
<1> SUFFICES ASSUME TypeOK, MutexesInv, NEW id \in Members \ raced
             PROVE  Cardinality(WritersTo(id)) <= 1
  BY DEF OneWriterUnlessRaced
<1>1. \A f, g \in WritersTo(id) : f = g
  BY DEF WritersTo, MutexesInv, MutexInv, ExclusionInv, Holds
<1>2. CASE WritersTo(id) = {}
  BY <1>2, FS_EmptySet
<1>3. CASE WritersTo(id) # {}
  <2>1. PICK f : f \in WritersTo(id)
    BY <1>3
  <2>2. WritersTo(id) = {f}
    BY <1>1, <2>1
  <2>3. Cardinality({f}) = 1
    BY FS_Singleton
  <2>4. QED
    BY <2>2, <2>3
<1>4. QED
  BY <1>2, <1>3

(* Messages to a member are written one at a time unless two requests had found
   no mutex for it at a time: any number of requests, members and lists.  Until
   then there is one mutex for the member, the one in the map, and every writer
   has, and every request is about to use, this one. *)
THEOREM WritersExclude == Spec => []OneWriterUnlessRaced
<1>1. Init => TypeOK /\ Locks!ChannelInv /\ CallerInv /\ MutexesInv
  BY InitType, InitMutexes DEF Init, CallerInv
<1>2. TypeOK /\ Locks!ChannelInv /\ CallerInv /\ MutexesInv /\ [Next]_vars
        => (TypeOK /\ Locks!ChannelInv /\ CallerInv /\ MutexesInv)'
  BY StepType, StepMutexes
<1>3. QED
  BY <1>1, <1>2, MutexesExclude, PTL DEF Spec
=============================================================================
