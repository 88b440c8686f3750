------------------------------ MODULE Multicast ------------------------------
(***************************************************************************)
(* The multicast of proposals within an ordering committee.                *)
(*                                                                         *)
(* A member that was told to start sends its proposal, with the list of    *)
(* members, to POST /block/uploadproposal: MuiltiCastProposal looks up  *)
(* a mutex for every member of the list (idLocks, a ConcurrentMap), makes  *)
(* one if there is none, and leaves the write to the member's websocket to *)
(* a goroutine of its own.  Lookup and Put are two calls, so that two      *)
(* requests may make a mutex each for one member.                          *)
(*                                                                         *)
(* RegisterCommunication writes to the same sockets, member after member,  *)
(* and without any mutex (module Committee says who does so and when).     *)
(* The websocket library panics when it notices two writers on a socket:   *)
(* gin recovers from a panic of a handler, nobody from that of a goroutine.*)
(***************************************************************************)
EXTENDS Naturals, Sequences, FiniteSets, Functions

CONSTANTS
  Requests,      \* multicasts that will be asked for
  Members,       \* the ids they name
  IdList,        \* IdList[r]: those that request r names, in order
  Committee,     \* members in the ConsensusCommunicationmap, in the order they
                 \* are called; a request may have other ids, nobody checks
  Callers,       \* handlers of RegisterCommunication that call the committee
  SocketFaults,  \* may a write to a websocket fail?
  NoLock,        \* no mutex
  Error          \* what Get returns when it fails

Connected == Range(Committee)

\* The goroutine of a request for a member.  A mutex is made for one of them,
\* and is named after it.
Writers == {g \in Requests \X Members : g[2] \in Range(IdList[g[1]])}

VARIABLES
  mp, keyToCh, getter, key, result,  \* idLocks
  pc,         \* where the handler of a request is
  at,         \* its place in the list
  writer,     \* where the goroutine of a request and a member is
  mutex,      \* the mutex it was started with
  caller,     \* where a handler of RegisterCommunication is
  called,     \* its place in the list
  told,       \* members that have been told to start
  alive,      \* FALSE once a goroutine has panicked
  raced       \* history: members two requests had found no mutex for at a time

idLocks  == <<mp, keyToCh, getter, key, result>>
requests == <<pc, at, raced>>
writers  == <<writer, mutex>>
callers  == <<caller, called, told>>
vars     == <<idLocks, requests, writers, callers, alive>>

Locks == INSTANCE ConcurrentMap WITH
           Callers <- Requests, Keys <- Members, Values <- Writers, NoValue <- NoLock

ASSUME ConstantsAssumption ==
  /\ IsFiniteSet(Requests)
  /\ Committee \in Seq(Members)
  /\ IdList \in [Requests -> Seq(Members)]
  /\ \A r \in Requests : IdList[r] # <<>> /\ IsInjective(IdList[r])
  /\ SocketFaults \in BOOLEAN
  /\ Locks!ConstantsAssumption

Init ==
  /\ Locks!Init
  /\ key    = [r \in Requests |-> IdList[r][1]]
  /\ pc     = [r \in Requests |-> "unsent"]
  /\ at     = [r \in Requests |-> 1]
  /\ writer = [g \in Writers |-> "none"]
  /\ mutex  = [g \in Writers |-> NoLock]
  /\ caller = [n \in Callers |-> "between"]
  /\ called = [n \in Callers |-> 1]
  /\ told   = {}
  /\ alive  = TRUE
  /\ raced  = {}

Member(r) == IdList[r][at[r]]

-----------------------------------------------------------------------------
(* MuiltiCastProposal, the loop over the members.                          *)

Send(r) ==
  /\ alive
  /\ pc[r] = "unsent"
  /\ told # {}
  /\ pc' = [pc EXCEPT ![r] = "next"]
  /\ UNCHANGED <<idLocks, at, raced, writers, callers, alive>>

\* Requests that have found no mutex for id, and have not put one yet.
Missing(id) ==
  {r \in Requests : /\ pc[r] = "getting" /\ Member(r) = id
                    /\ getter[r] # "idle" \/ result[r] = Error}

\* Line 291 ...
GetLock(r) ==
  /\ alive
  /\ pc[r] = "next"
  /\ Locks!Get(r, Member(r))
  /\ raced' = IF mp[Member(r)] = NoLock /\ Missing(Member(r)) # {}
              THEN raced \cup {Member(r)} ELSE raced
  /\ pc' = [pc EXCEPT ![r] = "getting"]
  /\ UNCHANGED <<at, writers, callers, alive>>

\* ... with the wait inside Get, whose duration is zero.
GetGoesOn(r) ==
  /\ alive
  /\ Locks!Timeout(r) \/ Locks!Wake(r) \/ Locks!Return(r)
  /\ UNCHANGED <<requests, writers, callers, alive>>

\* Mutant: the loop runs once too often.
UpToLength(r) == at[r] <= Len(IdList[r])

MoreMembers(r) == at[r] < Len(IdList[r])

\* Lines 298-311, in the handler: the goroutine is started, the loop goes on.
Start(r, l) ==
  /\ writer' = [writer EXCEPT ![<<r, Member(r)>>] = "started"]
  /\ mutex'  = [mutex EXCEPT ![<<r, Member(r)>>] = l]
  /\ IF MoreMembers(r)
     THEN at' = [at EXCEPT ![r] = @ + 1] /\ pc' = [pc EXCEPT ![r] = "next"]
     ELSE UNCHANGED at /\ pc' = [pc EXCEPT ![r] = "answered"]

UseLock(r) ==
  /\ alive
  /\ pc[r] = "getting"
  /\ getter[r] = "idle"
  /\ result[r] # Error
  /\ Start(r, result[r])
  /\ UNCHANGED <<idLocks, raced, callers, alive>>

\* Mutant: the mutex is used without being put in the map.
Keep(id, l) == UNCHANGED idLocks

Store(id, l) == Locks!Put(id, l)

\* Lines 294-295.
MakeLock(r) ==
  /\ alive
  /\ pc[r] = "getting"
  /\ getter[r] = "idle"
  /\ result[r] = Error
  /\ Store(Member(r), <<r, Member(r)>>)
  /\ Start(r, <<r, Member(r)>>)
  /\ UNCHANGED <<raced, callers, alive>>

-----------------------------------------------------------------------------
(* The goroutine for a member.                                             *)

\* Mutant: line 309 is missing.
HoldsForEver(g) == writer[g] \in {"writing", "failed", "written"}

Holds(g) == writer[g] \in {"writing", "failed"}

Free(l) == \A g \in Writers : mutex[g] = l => ~Holds(g)

\* Line 299: the member has no websocket on this server.
Drop(g) ==
  /\ alive
  /\ writer[g] = "started"
  /\ g[2] \notin Connected
  /\ writer' = [writer EXCEPT ![g] = "dropped"]
  /\ UNCHANGED <<idLocks, requests, mutex, callers, alive>>

\* Line 304, and the beginning of WriteJSON.
Lock(g) ==
  /\ alive
  /\ writer[g] = "started"
  /\ g[2] \in Connected
  /\ Free(mutex[g])
  /\ writer' = [writer EXCEPT ![g] = "writing"]
  /\ UNCHANGED <<idLocks, requests, mutex, callers, alive>>

\* Line 309.
Unlock(g) ==
  /\ alive
  /\ writer[g] = "writing"
  /\ writer' = [writer EXCEPT ![g] = "written"]
  /\ UNCHANGED <<idLocks, requests, mutex, callers, alive>>

\* Line 307 returns without Unlock.
WriteFails(g) ==
  /\ alive
  /\ SocketFaults
  /\ writer[g] = "writing"
  /\ writer' = [writer EXCEPT ![g] = "failed"]
  /\ UNCHANGED <<idLocks, requests, mutex, callers, alive>>

Calling(n, id) == caller[n] = "writing" /\ Committee[called[n]] = id

WritersTo(id) == {g \in Writers : g[2] = id /\ writer[g] = "writing"}

\* The library notices another writer on the socket: the process ends.
WriterPanics(g) ==
  /\ alive
  /\ writer[g] = "writing"
  /\ WritersTo(g[2]) # {g} \/ \E n \in Callers : Calling(n, g[2])
  /\ alive' = FALSE
  /\ UNCHANGED <<idLocks, requests, writers, callers>>

-----------------------------------------------------------------------------
(* RegisterCommunication, the loop that calls the committee.               *)

Call(n) ==
  /\ alive
  /\ caller[n] = "between"
  /\ called[n] <= Len(Committee)
  /\ caller' = [caller EXCEPT ![n] = "writing"]
  /\ UNCHANGED <<idLocks, requests, writers, called, told, alive>>

Called(n) ==
  /\ alive
  /\ caller[n] = "writing"
  /\ told'   = told \cup {Committee[called[n]]}
  /\ called' = [called EXCEPT ![n] = @ + 1]
  /\ caller' = [caller EXCEPT ![n] = "between"]
  /\ UNCHANGED <<idLocks, requests, writers, alive>>

\* The handler ends, and calls nobody else, when the write fails (line 177), or
\* when the library notices another writer; gin recovers from that panic.
CallFails(n) ==
  /\ alive
  /\ caller[n] = "writing"
  /\ LET id == Committee[called[n]] IN
       \/ SocketFaults
       \/ WritersTo(id) # {}
       \/ \E o \in Callers \ {n} : Calling(o, id)
  /\ caller' = [caller EXCEPT ![n] = "ended"]
  /\ UNCHANGED <<idLocks, requests, writers, called, told, alive>>

-----------------------------------------------------------------------------
Handle(r) == GetLock(r) \/ GetGoesOn(r) \/ UseLock(r) \/ MakeLock(r)

Write(g) == Drop(g) \/ Lock(g) \/ Unlock(g) \/ WriteFails(g)

Next ==
  \/ \E r \in Requests : Send(r) \/ Handle(r)
  \/ \E g \in Writers : Write(g) \/ WriterPanics(g)
  \/ \E n \in Callers : Call(n) \/ Called(n) \/ CallFails(n)

Spec == Init /\ [][Next]_vars

\* Goroutines run, and sync.Mutex hands itself to a waiter that starves.
FairSpec ==
  /\ Spec
  /\ \A r \in Requests : WF_vars(Handle(r))
  /\ \A g \in Writers : SF_vars(Write(g))

-----------------------------------------------------------------------------
TypeOK ==
  /\ Locks!TypeOK
  /\ pc     \in [Requests -> {"unsent", "next", "getting", "answered"}]
  /\ at     \in [Requests -> Nat]
  /\ \A r \in Requests : at[r] \in 1..Len(IdList[r])
  /\ writer \in [Writers -> {"none", "started", "dropped", "writing", "written", "failed"}]
  /\ mutex  \in [Writers -> Writers \cup {NoLock}]
  /\ caller \in [Callers -> {"between", "writing", "ended"}]
  /\ called \in [Callers -> 1..(Len(Committee) + 1)]
  /\ told   \subseteq Connected
  /\ alive  \in BOOLEAN
  /\ raced  \subseteq Members

(* Messages to a member are written one at a time, by all requests there will
   ever be, unless two requests had both found no mutex for it before either put
   its own.  (Once that has happened the mutex of the first may be replaced while
   it is used, and requests that came later exclude each other no more.) *)
OneWriterUnlessRaced ==
  \A id \in Members \ raced : Cardinality(WritersTo(id)) <= 1

(* idLocks does what its callers count on, whatever the requests do: "no mutex" is
   the answer only to a request that found none, and a mutex only if it is the
   member's at that moment (property ImplementsTimedMap of ConcurrentMap). *)
IdLocksAreTimedMap == Locks!ImplementsTimedMap

(* No request waits in Get with its channel open for a member that has a mutex,
   also if that was put, or replaced, since it looked (the close at
   model/block.go:159, and the property of that name of ConcurrentMap). *)
NoLostWakeUp == Locks!NoLostWakeUp

-----------------------------------------------------------------------------
(* The inductive invariant behind OneWriterUnlessRaced.                    *)

ExclusionInv ==
  \A f, g \in Writers : Holds(f) /\ Holds(g) /\ mutex[f] = mutex[g] => f = g

\* Only one request at a time has found no mutex, and there is none.
MissingInv ==
  \A id \in Members \ raced :
    \A r, s \in Missing(id) : r = s /\ mp[id] = NoLock

\* Whatever mutex is used, or about to be, is the one in the map.
MutexInv ==
  \A g \in Writers :
    g[2] \notin raced /\ writer[g] # "none" => mutex[g] = mp[g[2]] /\ mutex[g] # NoLock

FoundInv ==
  \A r \in Requests :
    pc[r] = "getting" /\ Member(r) \notin raced /\ r \notin Missing(Member(r))
      => result[r] = mp[Member(r)] /\ result[r] # NoLock

KeyInv == \A r \in Requests : pc[r] = "getting" => key[r] = Member(r)

CallerInv == \A n \in Callers : caller[n] = "writing" => called[n] <= Len(Committee)

IndInv ==
  /\ TypeOK /\ Locks!ChannelInv /\ CallerInv
  /\ ExclusionInv /\ MissingInv /\ MutexInv /\ FoundInv /\ KeyInv

-----------------------------------------------------------------------------
\* The goroutine waits for a mutex that was not given back after a failed write.
Blocked(g) == \E f \in Writers : writer[f] = "failed" /\ mutex[f] = mutex[g]

(* What was sent is written to every member that is connected, although the
   handler answers before it is: unless the write itself fails, or one did before
   under the same mutex and kept it, or the process has ended. *)
MulticastsAreDelivered ==
  \A g \in Writers :
    g[2] \in Connected /\ pc[g[1]] = "next" ~> writer[g] = "written" \/ Blocked(g) \/ ~alive
=============================================================================
