------------------------------ MODULE Committee ------------------------------
(***************************************************************************)
(* Forming the ordering committee of a block.                              *)
(*                                                                         *)
(* An order client may announce itself (GET /shard/shardNum, PreRegister:  *)
(* a row with shard 111 in the clients table) and then registers (GET      *)
(* /shard/register, RegisterCommunication): the server takes a waiting row *)
(* or makes one, upgrades the request to a websocket, puts the socket in   *)
(* ConsensusCommunicationmap, and, when it reads as many rows as a         *)
(* committee has members, sends all of them MessageReady.                  *)
(*                                                                         *)
(* Registrations are handled concurrently and hold no lock: the table is   *)
(* counted, written and read again in three separate transactions, and a   *)
(* socket appears in the map only after the last of them.                  *)
(***************************************************************************)
EXTENDS Naturals, FiniteSets

CONSTANTS
  Registrations,   \* requests to register; each gets a fresh uuid, so a
                   \* registration stands for its own pubkey
  OrderClientNum,  \* structure.ProposerNum
  MaxHeight,       \* bound: blocks 1..MaxHeight are ordered
  MaxWaiting,      \* bound: waiting rows (shard 111) at a height
  DBFaults,        \* may a transaction of a registration fail?
  SocketFaults     \* may the upgrade or a write to a websocket fail?

ASSUME ConstantsAssumption ==
  /\ IsFiniteSet(Registrations)
  /\ OrderClientNum \in Nat \ {0}
  /\ MaxHeight \in Nat
  /\ MaxWaiting \in Nat
  /\ DBFaults \in BOOLEAN
  /\ SocketFaults \in BOOLEAN

\* Heights rows may have: the one after the last block included.
Heights == 1..(MaxHeight + 1)

VARIABLES
  height,     \* GetHeight(), the height in the block table
  waiting,    \* waiting[h]: rows of the clients table with shard 111, height h
  rows,       \* rows[h]: rows with shard 0, client_type 1, height h
  connected,  \* keys of ConsensusCommunicationmap
  pc,         \* where the handler of a registration is
  h,          \* its variable h, the block it registers for
  clients,    \* its variable clients, the rows read at line 136
  todo,       \* clients the loop it is in has not come to yet
  ready       \* MessageReady messages sent so far

handler == <<pc, h, clients, todo>>
table   == <<waiting, rows>>
vars    == <<height, table, connected, handler, ready>>

PCs == {"start", "counting", "joining", "upgrading", "connecting",
        "collecting", "notifying", "done"}

Messages == [height : Heights, to : Registrations, idList : SUBSET Registrations]

Init ==
  /\ height    = 0
  /\ waiting   = [k \in Heights |-> 0]
  /\ rows      = [k \in Heights |-> {}]
  /\ connected = {}
  /\ pc        = [r \in Registrations |-> "start"]
  /\ h         = [r \in Registrations |-> 1]
  /\ clients   = [r \in Registrations |-> {}]
  /\ todo      = [r \in Registrations |-> {}]
  /\ ready     = {}

Goto(r, l) == pc' = [pc EXCEPT ![r] = l]

-----------------------------------------------------------------------------
\* model.PreRegister: a waiting row for the block after the rows of the block
\* table, when the insertion succeeds.
PreRegister ==
  /\ waiting[height + 1] < MaxWaiting
  /\ waiting' = [waiting EXCEPT ![height + 1] = @ + 1]
  /\ UNCHANGED <<height, rows, connected, handler, ready>>

\* The committee of the next block has its block committed: module
\* LeaderProblocks.  It was told to start before.
CommitBlock ==
  /\ height < MaxHeight
  /\ \E m \in ready : m.height = height + 1
  /\ height' = height + 1
  /\ UNCHANGED <<table, connected, handler, ready>>

-----------------------------------------------------------------------------
(* RegisterCommunication.                                                  *)

\* Line 39.
ReadHeight(r) ==
  /\ pc[r] = "start"
  /\ h' = [h EXCEPT ![r] = height + 1]
  /\ Goto(r, "counting")
  /\ UNCHANGED <<height, table, connected, clients, todo, ready>>

\* Lines 48-57, outside of any transaction: a full committee turns r away.
CountRows(r) ==
  /\ pc[r] = "counting"
  /\ Goto(r, IF Cardinality(rows[h[r]]) >= OrderClientNum THEN "done" ELSE "joining")
  /\ UNCHANGED <<height, table, connected, h, clients, todo, ready>>

\* Mutant: the row is saved whether one was found or not.
FoundOrNot(r) == TRUE

FoundWaiting(r) == waiting[h[r]] > 0

\* Lines 67-104: a waiting row of block h becomes r's; if there is none, r gets
\* a new row, for the block that is next by now (line 91).
Join(r) ==
  /\ pc[r] = "joining"
  /\ \/ /\ FoundWaiting(r)
        /\ waiting' = [waiting EXCEPT ![h[r]] = @ - 1]
        /\ rows'    = [rows EXCEPT ![h[r]] = @ \cup {r}]
     \/ /\ ~FoundWaiting(r)
        /\ rows' = [rows EXCEPT ![height + 1] = @ \cup {r}]
        /\ UNCHANGED waiting
  /\ Goto(r, "upgrading")
  /\ UNCHANGED <<height, connected, h, clients, todo, ready>>

\* The transaction fails in all of its three attempts; the handler goes on, with
\* an empty ID that no row has.
JoinFails(r) ==
  /\ DBFaults
  /\ pc[r] = "joining"
  /\ Goto(r, "upgrading")
  /\ UNCHANGED <<height, table, connected, h, clients, todo, ready>>

\* Mutant: the rows of the block that is next by now, not of block h.
MembersNow(r) == rows[height + 1]

MembersRead(r) == rows[h[r]]

\* Lines 123-138: the websocket, and a second look at the rows of block h.  An
\* error of the query is not tested for and leaves clients empty.
Upgrade(r) ==
  /\ pc[r] = "upgrading"
  /\ \E S \in {MembersRead(r)} \cup (IF DBFaults THEN {{}} ELSE {}) :
       clients' = [clients EXCEPT ![r] = S]
  /\ Goto(r, "connecting")
  /\ UNCHANGED <<height, table, connected, h, todo, ready>>

\* Line 125: the row of r stays in the table.
UpgradeFails(r) ==
  /\ SocketFaults
  /\ pc[r] = "upgrading"
  /\ Goto(r, "done")
  /\ UNCHANGED <<height, table, connected, h, clients, todo, ready>>

HasRow(r) == \E k \in Heights : r \in rows[k]

\* Mutant: a committee that is more than full is told to start, too.
IsFullOrMore(S) == Cardinality(S) >= OrderClientNum

IsFull(S) == Cardinality(S) = OrderClientNum

\* Lines 140-144.  The key of a registration without a row is "".
Connect(r) ==
  /\ pc[r] = "connecting"
  /\ connected' = IF HasRow(r) THEN connected \cup {r} ELSE connected
  /\ todo' = [todo EXCEPT ![r] = clients[r]]
  /\ Goto(r, IF IsFull(clients[r]) THEN "collecting" ELSE "done")
  /\ UNCHANGED <<height, table, h, clients, ready>>

\* Lines 147-154: Get(pubkey, 0) finds the socket of one more member ...
Collect(r) ==
  /\ pc[r] = "collecting"
  /\ \E d \in todo[r] \cap connected :
       IF todo[r] = {d}
       THEN todo' = [todo EXCEPT ![r] = clients[r]] /\ Goto(r, "notifying")
       ELSE todo' = [todo EXCEPT ![r] = @ \ {d}] /\ UNCHANGED pc
  /\ UNCHANGED <<height, table, connected, h, clients, ready>>

\* ... or does not, and the handler gives up.
CollectFails(r) ==
  /\ pc[r] = "collecting"
  /\ \E d \in todo[r] : d \notin connected
  /\ Goto(r, "done")
  /\ UNCHANGED <<height, table, connected, h, clients, todo, ready>>

\* Lines 156-179: MessageReady, with the list of all members, to one of them.
Notify(r) ==
  /\ pc[r] = "notifying"
  /\ \E d \in todo[r] :
       /\ ready' = ready \cup {[height |-> h[r], to |-> d, idList |-> clients[r]]}
       /\ todo'  = [todo EXCEPT ![r] = @ \ {d}]
       /\ Goto(r, IF todo[r] = {d} THEN "done" ELSE "notifying")
  /\ UNCHANGED <<height, table, connected, h, clients>>

\* Line 176: a member cannot be written to, those after it are not told.
NotifyFails(r) ==
  /\ SocketFaults
  /\ pc[r] = "notifying"
  /\ Goto(r, "done")
  /\ UNCHANGED <<height, table, connected, h, clients, todo, ready>>

-----------------------------------------------------------------------------
Handle(r) ==
  \/ ReadHeight(r) \/ CountRows(r) \/ Join(r) \/ JoinFails(r)
  \/ Upgrade(r) \/ UpgradeFails(r) \/ Connect(r)
  \/ Collect(r) \/ CollectFails(r) \/ Notify(r) \/ NotifyFails(r)

Next == PreRegister \/ CommitBlock \/ \E r \in Registrations : Handle(r)

Spec == Init /\ [][Next]_vars

-----------------------------------------------------------------------------
TypeOK ==
  /\ height    \in 0..MaxHeight
  /\ waiting   \in [Heights -> Nat]
  /\ rows      \in [Heights -> SUBSET Registrations]
  /\ connected \subseteq Registrations
  /\ pc        \in [Registrations -> PCs]
  /\ h         \in [Registrations -> Heights]
  /\ clients   \in [Registrations -> SUBSET Registrations]
  /\ todo      \in [Registrations -> SUBSET Registrations]
  /\ ready     \subseteq Messages

(* All members told to start the consensus on one block are told the same list
   of members, however many handlers read a full committee and whatever failed
   half-way: there is one committee for a block, of OrderClientNum members. *)
OneCommittee ==
  \A m \in ready :
    /\ Cardinality(m.idList) = OrderClientNum
    /\ \A n \in ready : n.height = m.height => n.idList = m.idList

(* A member that is told to start finds every member of its list in the table,
   for the very block the message names, and connected: whatever the height was
   when the rows were made, no list has a ghost or a member of another block. *)
ListedMembersAreConnected ==
  \A m \in ready : m.idList \subseteq rows[m.height] \cap connected

\* The committee called for block k, by whoever called it first.
Called == [k \in Heights |-> UNION {m.idList : m \in {n \in ready : n.height = k}}]

E == INSTANCE Election WITH
       Members <- Registrations, CommitteeSize <- OrderClientNum, elected <- Called

(* Registration implements the election of one committee for a block. *)
ImplementsElection == E!Spec

Quiet == \A r \in Registrations : pc[r] \in {"start", "done"}

(* A committee that is exactly full, and for which no handler is at work any
   more, has been told to start (comment at controller/shard.go:143). *)
FullCommitteeIsCalled ==
  \A k \in Heights :
    Quiet /\ IsFull(rows[k]) => \E m \in ready : m.height = k

-----------------------------------------------------------------------------
(* The inductive invariant behind OneCommittee and ListedMembersAreConnected. *)

\* What a handler has read of the table is still in it.
SnapshotInv ==
  \A r \in Registrations :
    /\ clients[r] \subseteq rows[h[r]]
    /\ pc[r] = "start" => clients[r] = {}

\* Of two handlers that register for the same block, one has read all that the
\* other has read.
OrderedInv ==
  \A r, s \in Registrations :
    h[r] = h[s] => clients[r] \subseteq clients[s] \/ clients[s] \subseteq clients[r]

\* A handler that calls a committee has read a full one, and found the sockets of
\* the members its loop has passed.
CallingInv ==
  \A r \in Registrations :
    /\ pc[r] \in {"collecting", "notifying"} => IsFull(clients[r])
    /\ pc[r] = "collecting" => clients[r] \ todo[r] \subseteq connected
    /\ pc[r] = "notifying" => clients[r] \subseteq connected

\* A message is from a handler that has read its list as a full committee.
ReadyInv ==
  \A m \in ready :
    /\ IsFull(m.idList)
    /\ m.idList \subseteq connected
    /\ \E r \in Registrations :
         /\ pc[r] \in {"notifying", "done"}
         /\ h[r] = m.height
         /\ clients[r] = m.idList

IndInv == TypeOK /\ SnapshotInv /\ OrderedInv /\ CallingInv /\ ReadyInv
=============================================================================
