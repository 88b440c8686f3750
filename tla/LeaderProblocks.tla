-------------------------- MODULE LeaderProblocks --------------------------
(***************************************************************************)
(* The ordering committee's votes and the commit of a block.               *)
(*                                                                         *)
(* An order client uploads the proposal block ("problock") its committee   *)
(* agreed on: POST /block/uploadleader, model.AppendBlock.  The handler    *)
(* counts it in Source.LeaderProblocksInfo, and the handler that finds     *)
(* OrderClientNum uploads commits the block: CheckLeaderProblocks appends  *)
(* it to the in-memory chain, HorizonBlockChain.AppendBlock inserts the    *)
(* row in the block table and executes the block, and AppendBlock makes    *)
(* new maps for the next round.                                            *)
(*                                                                         *)
(* Every upload runs in a goroutine of its own.  LeaderLock is held from   *)
(* line 217 to the return, but the pointer to the tally is read at line    *)
(* 215, before the lock, and the height in the block table is visible to   *)
(* everybody as soon as the row is inserted.                               *)
(***************************************************************************)
EXTENDS Naturals, Sequences, FiniteSets

CONSTANTS
  Clients,         \* order clients; each has at most one request in flight
  Bodies,          \* contents a committee may put in its problock
  OrderClientNum,  \* structure.ProposerNum, the size of a committee
  ShardNum,        \* structure.ShardNum
  MaxHeight,       \* bound: committees are formed for heights 1..MaxHeight
  Resend,          \* may a client upload again for a round it has voted in?
  MaxTally,        \* bound: nobody repeats an upload when the open tally has more
  DBFaults,        \* may the insertion of a row in the block table fail?
  NoClient,        \* the value of leaderLock when the mutex is free
  NoProblock       \* the request of a client with no upload in flight

Heights == 1..MaxHeight

\* ProposalBlock: two uploads have the same key (their JSON) iff all fields
\* agree, so a problock is its own key.
Problocks == [height : Heights, body : Bodies]

ASSUME ConstantsAssumption ==
  /\ IsFiniteSet(Clients)
  /\ OrderClientNum \in Nat \ {0}
  /\ ShardNum \in Nat \ {0}
  /\ MaxHeight \in Nat
  /\ Resend \in BOOLEAN
  /\ MaxTally \in Nat
  /\ DBFaults \in BOOLEAN
  /\ NoClient \notin Clients
  /\ NoProblock \notin Problocks

\* Block, and the row of it in the block table.
BlockRecords == [height : Heights, body : Bodies, vote : Nat]

VARIABLES
  committee,   \* committee[h]: clients registered to order block h
  uploaded,    \* uploaded[c]: the highest block c has uploaded a problock for
  pc,          \* where the handler of c's upload is
  request,     \* the problock c's handler was given
  captured,    \* the tally c's handler read at line 215, an index of tallies
  answer,      \* the last answer c received
  leaderLock,  \* holder of Source.LeaderLock
  tallies,     \* the LeaderProblocksInfo maps made so far; Source points to
               \* the last one, handlers may still point to an earlier one
  chain,       \* Source.ChainShard[0].Chain
  blocks,      \* rows of the block table
  applied,     \* windows of the transaction pool executed so far, in order
  nextShard,   \* loop variable of the reset at lines 247-257
  voted        \* history: every <<client, problock>> counted in some tally

handler == <<uploaded, pc, request, captured, answer>>
ledgers == <<chain, blocks, applied>>
vars == <<committee, handler, leaderLock, tallies, ledgers, nextShard, voted>>

PCs     == {"idle", "waiting", "appended", "inserted", "resetting"}
Answers == {"none", "uploaded", "onchain", "failed", "panic"}

-----------------------------------------------------------------------------
(* The tally: map[string]LeaderProblockInfo, 0 for a key it does not have.  *)

EmptyTally == [p \in Problocks |-> 0]

\* Mutant: the record made for a new key, with Count 1, is counted again.
AddVoteTwice(m, p) == [m EXCEPT ![p] = IF @ = 0 THEN 2 ELSE @ + 1]

AddVote(m, p) == [m EXCEPT ![p] = @ + 1]

\* The votes of a tally, those for the same problock numbered.
VotesIn(m) == UNION {{p} \X (1..m[p]) : p \in Problocks}

TotalOf(m) == Cardinality(VotesIn(m))

\* The entries the loop at 461-466 may end with: iteration order is random,
\* so any entry with the largest count.  None if the map is empty.
Leading(m) == {p \in Problocks : m[p] > 0 /\ \A q \in Problocks : m[q] <= m[p]}

Current == Len(tallies)

-----------------------------------------------------------------------------
(* The block table and the checks a block must pass.                       *)

\* SELECT ... ORDER BY Height DESC LIMIT 1; 0 when the table is empty.
GetHeight ==
  IF blocks = {} THEN 0
  ELSE (CHOOSE b \in blocks : \A d \in blocks : d.height <= b.height).height

LeaderQuorum == (2 * OrderClientNum) \div 3

\* 2*float64(ProposerNum/3): the division is on integers.
MinVote == 2 * (OrderClientNum \div 3)

MakeBlock(p, count) == [height |-> p.height, body |-> p.body, vote |-> count]

\* Mutant: the height of the block is not compared with the table.
VerifyVotesOnly(b) == b.vote >= MinVote

VerifyBlock(b) == b.height = GetHeight + 1 /\ b.vote >= MinVote

\* Mutant: the thresholds are tested on all the votes of the tally.
AcceptsOnTotal(m, p) ==
  TotalOf(m) >= LeaderQuorum /\ VerifyBlock(MakeBlock(p, TotalOf(m)))

\* CheckLeaderProblocks takes p, the winner of tally m, for the next block.
Accepts(m, p) == m[p] >= LeaderQuorum /\ VerifyBlock(MakeBlock(p, m[p]))

-----------------------------------------------------------------------------
Init ==
  /\ committee  = [h \in Heights |-> {}]
  /\ uploaded   = [c \in Clients |-> 0]
  /\ pc         = [c \in Clients |-> "idle"]
  /\ request    = [c \in Clients |-> NoProblock]
  /\ captured   = [c \in Clients |-> 1]
  /\ answer     = [c \in Clients |-> "none"]
  /\ leaderLock = NoClient
  /\ tallies    = <<EmptyTally>>
  /\ chain      = <<>>
  /\ blocks     = {}
  /\ applied    = <<>>
  /\ nextShard  = 1
  /\ voted      = {}

-----------------------------------------------------------------------------
(* Order clients.                                                          *)

\* GET /shard/register, for the committee: the server admits a client for the
\* block after GetHeight unless that committee is full.
Register(c) ==
  LET h == GetHeight + 1 IN
  /\ pc[c] = "idle"
  /\ h \in Heights
  /\ c \notin committee[h]
  /\ Cardinality(committee[h]) < OrderClientNum
  /\ committee' = [committee EXCEPT ![h] = @ \cup {c}]
  /\ UNCHANGED <<handler, leaderLock, tallies, ledgers, nextShard, voted>>

\* Nothing in the server stops a second upload: a retry, or a change of mind.
MayRepeat(c, p) ==
  Resend /\ p.height = uploaded[c] /\ TotalOf(tallies[Current]) <= MaxTally

\* A full committee has been told to start; a member uploads the problock it
\* ended with, and the handler reads Source.LeaderProblocksInfo (line 215).
Upload(c) ==
  /\ pc[c] = "idle"
  /\ \E p \in Problocks :
       /\ c \in committee[p.height]
       /\ Cardinality(committee[p.height]) = OrderClientNum
       /\ p.height > uploaded[c] \/ MayRepeat(c, p)
       /\ request'  = [request EXCEPT ![c] = p]
       /\ uploaded' = [uploaded EXCEPT ![c] = p.height]
  /\ captured' = [captured EXCEPT ![c] = Current]
  /\ pc'       = [pc EXCEPT ![c] = "waiting"]
  /\ UNCHANGED <<committee, answer, leaderLock, tallies, ledgers, nextShard, voted>>

-----------------------------------------------------------------------------
(* AppendBlock, from LeaderLock.Lock to the decision taken on the tally.   *)

Return(c, a) ==
  /\ pc'      = [pc EXCEPT ![c] = "idle"]
  /\ request' = [request EXCEPT ![c] = NoProblock]
  /\ answer'  = [answer EXCEPT ![c] = a]
  /\ UNCHANGED <<uploaded, captured>>

\* Mutant: LeaderLock is not taken.
CountUnlocked(c) ==
  /\ pc[c] = "waiting"
  /\ tallies' = [tallies EXCEPT ![captured[c]] = AddVote(@, request[c])]
  /\ voted'   = voted \cup {<<c, request[c]>>}
  /\ UNCHANGED <<committee, nextShard>>

\* Lines 217-234: the vote goes to the map the handler captured.
CountVote(c) ==
  /\ pc[c] = "waiting"
  /\ leaderLock = NoClient
  /\ tallies' = [tallies EXCEPT ![captured[c]] = AddVote(@, request[c])]
  /\ voted'   = voted \cup {<<c, request[c]>>}
  /\ UNCHANGED <<committee, nextShard>>

\* Lines 236-240: is the captured map, with the new vote, complete?
Complete(c) == TotalOf(tallies'[captured[c]]) >= OrderClientNum

\* Line 261: the round is not complete yet.
Acknowledge(c) ==
  /\ CountVote(c)
  /\ ~Complete(c)
  /\ Return(c, "uploaded")
  /\ UNCHANGED <<leaderLock, ledgers>>

\* Line 241: CheckLeaderProblocks, on the map Source points to, finds no entry
\* with enough votes, or VerifyBlock rejects the winner.  (Of an empty map the
\* winner is the zero problock, whose height 0 VerifyBlock rejects.)
Refuse(c) ==
  /\ CountVote(c)
  /\ Complete(c)
  /\ LET m == tallies'[Current] IN
       Leading(m) = {} \/ \E p \in Leading(m) : ~Accepts(m, p)
  /\ Return(c, "failed")
  /\ UNCHANGED <<leaderLock, ledgers>>

\* Line 476: the winner is appended to the chain in memory.
AppendToChain(c) ==
  /\ CountVote(c)
  /\ Complete(c)
  /\ LET m == tallies'[Current] IN
       \E p \in Leading(m) :
         /\ Accepts(m, p)
         /\ chain' = Append(chain, MakeBlock(p, m[p]))
  /\ leaderLock' = c
  /\ pc' = [pc EXCEPT ![c] = "appended"]
  /\ UNCHANGED <<uploaded, request, captured, answer, blocks, applied>>

-----------------------------------------------------------------------------
(* HorizonBlockChain.AppendBlock and the reset, under LeaderLock.          *)

\* tx.Create, tx.Commit.  An error is logged, rolled back and forgotten.
InsertRow(c) ==
  /\ pc[c] = "appended"
  /\ \/ blocks' = blocks \cup {chain[Len(chain)]}
     \/ DBFaults /\ UNCHANGED blocks
  /\ pc' = [pc EXCEPT ![c] = "inserted"]
  /\ UNCHANGED <<committee, uploaded, request, captured, answer, leaderLock,
                 tallies, chain, applied, nextShard, voted>>

\* Mutant: the window of the block being committed, not of the one before.
WindowOfHeight == GetHeight

\* The window of the transaction pool packTx4ServerUpdate asks for.
Window == GetHeight - 1

\* UpdateChainWithBlock executes that window of the pool of every shard.
Execute(c) ==
  /\ pc[c] = "inserted"
  /\ GetHeight >= 1
  /\ applied'   = Append(applied, Window)
  /\ nextShard' = 1
  /\ pc'        = [pc EXCEPT ![c] = "resetting"]
  /\ UNCHANGED <<committee, uploaded, request, captured, answer, leaderLock,
                 tallies, chain, blocks, voted>>

\* Mutant: the deferred Unlock is missing.
StillLocked == leaderLock

Unlocked == NoClient

\* GetHeight is 0 after the insertion: window -1 starts at a negative index (as
\* long as ValidateTxNum is no multiple of TX_NUM; if it is one, window -1 is the
\* whole pool, see module TxPool), the slice expression panics, the deferred Unlock
\* runs, and gin's Recovery answers 500.  No round is reset.
ExecutePanics(c) ==
  /\ pc[c] = "inserted"
  /\ GetHeight = 0
  /\ Return(c, "panic")
  /\ leaderLock' = Unlocked
  /\ UNCHANGED <<committee, tallies, ledgers, nextShard, voted>>

\* Mutants: the loop runs once too often; no new map is made.
PastLastShard == nextShard > ShardNum
SameTallies == tallies

LastShard == nextShard = ShardNum

NewTallies == Append(tallies, EmptyTally)

\* One iteration of the loop at 247-257.  A new tally is made in each.
ResetShard(c) ==
  /\ pc[c] = "resetting"
  /\ tallies' = NewTallies
  /\ \/ /\ ~LastShard
        /\ nextShard' = nextShard + 1
        /\ UNCHANGED <<handler, leaderLock>>
     \/ /\ LastShard
        /\ Return(c, "onchain")
        /\ leaderLock' = Unlocked
        /\ UNCHANGED nextShard
  /\ UNCHANGED <<committee, ledgers, voted>>

-----------------------------------------------------------------------------
Handle(c) ==
  \/ Acknowledge(c) \/ Refuse(c) \/ AppendToChain(c)
  \/ InsertRow(c) \/ Execute(c) \/ ExecutePanics(c) \/ ResetShard(c)

Next == \E c \in Clients : Register(c) \/ Upload(c) \/ Handle(c)

Spec == Init /\ [][Next]_vars

-----------------------------------------------------------------------------
TypeOK ==
  /\ committee  \in [Heights -> SUBSET Clients]
  /\ uploaded   \in [Clients -> 0..MaxHeight]
  /\ pc         \in [Clients -> PCs]
  /\ request    \in [Clients -> Problocks \cup {NoProblock}]
  /\ captured   \in [Clients -> 1..Current]
  /\ answer     \in [Clients -> Answers]
  /\ leaderLock \in Clients \cup {NoClient}
  /\ tallies    \in Seq([Problocks -> Nat])
  /\ Current    \in Nat \ {0}
  /\ chain      \in Seq(BlockRecords)
  /\ blocks     \subseteq BlockRecords
  /\ applied    \in Seq(Nat)
  /\ nextShard  \in 1..ShardNum
  /\ voted      \subseteq Clients \X Problocks

\* Blocks of the chain whose row has been inserted, while nothing fails.
Persisted == IF \E c \in Clients : pc[c] = "appended" THEN Len(chain) - 1 ELSE Len(chain)

\* A row that could not be inserted leaves the table behind the chain, for ever.
RowLost == GetHeight < Persisted

\* Windows executed, while nothing fails: one per persisted block, less the one
\* being committed.
Executed == IF \E c \in Clients : pc[c] = "inserted" THEN Persisted - 1 ELSE Persisted

Chained ==
  /\ \A i \in 1..Len(chain) : chain[i].height = i
  /\ blocks = {chain[i] : i \in 1..Persisted}
  /\ applied = [k \in 1..Executed |-> k - 1]

Voters(p) == {c \in Clients : <<c, p>> \in voted}

ProblockOf(b) == [height |-> b.height, body |-> b.body]

\* The votes in the header of block i are those of different voters for it.
Backed(i) ==
  /\ chain[i].vote >= LeaderQuorum
  /\ chain[i].vote <= Cardinality(Voters(ProblockOf(chain[i])))

(* Until the insertion of a row fails, block i of the chain has height i, the
   table holds exactly the blocks of the chain (less the last one between lines
   476 and 478), and window k of the pool has been executed once, as the k+1st:
   stale votes, orphaned maps and ties never fork the chain, skip a height or
   repeat a window.  Nothing but a failed insertion makes the table fall behind
   the chain, and nothing at all brings it ahead. *)
ChainMatchesTable ==
  /\ GetHeight <= Persisted
  /\ RowLost => DBFaults
  /\ ~RowLost => Chained

(* If clients do not repeat an upload, the votes written in the header of every
   block came from that many different clients, at least LeaderQuorum of them,
   and all voted for this very block: no vote is counted twice, in whatever map
   it was put, and none is carried over to another block. *)
VotesAreDistinctVoters ==
  ~Resend => \A i \in 1..Len(chain) : Backed(i)

\* The abstract ledger, read off the chain and the votes counted.
L == INSTANCE Ledger WITH
       Quorum <- LeaderQuorum,
       votes  <- voted,
       ledger <- [i \in 1..Len(chain) |-> ProblockOf(chain[i])]

\* Two quorums of a committee have a member in common.
QuorumsIntersect == 2 * LeaderQuorum > OrderClientNum

(* When the insertion of a row has failed, the chain has ended, if two quorums
   intersect and clients do not repeat an upload: the height that is missing in the
   table is the only one that may be voted on, its committee has voted, and what is
   left of its votes is no quorum, in whatever map it is counted. *)
LostRowEndsChain ==
  [][~Resend /\ QuorumsIntersect /\ RowLost => UNCHANGED chain]_vars

(* The chain is the abstract ledger: when clients do not repeat an upload, every
   step of the handlers is a vote, a vote that commits a block with a quorum at
   the next height, or invisible.  (After a failed insertion this needs quorums
   that intersect, which those of a committee of two do not.) *)
ImplementsLedger == L!Spec

-----------------------------------------------------------------------------
(* The inductive invariant behind the three properties above.              *)

Holding == {"appended", "inserted", "resetting"}

\* Between append and return the handler has LeaderLock, and nobody else does.
LockInv ==
  /\ \A c \in Clients : pc[c] \in Holding => leaderLock = c
  /\ \A c \in Clients : leaderLock = c => pc[c] \in Holding

\* A table that is not empty has a highest row.
TableInv == blocks # {} => \E b \in blocks : \A d \in blocks : d.height <= b.height

\* The row about to be inserted is the next one.
NextInv ==
  \A c \in Clients : pc[c] = "appended" => chain[Len(chain)].height = GetHeight + 1

\* A block being committed is on the chain.
CommitInv ==
  \A c \in Clients : pc[c] \in {"appended", "inserted"} => Len(chain) >= 1

\* A waiting handler has a problock, of the last round its client entered.
RequestInv ==
  \A c \in Clients :
    pc[c] = "waiting" => /\ request[c] \in Problocks
                         /\ request[c].height = uploaded[c]

\* A client has voted in rounds it has entered, and not yet in the one it is
\* waiting to vote in.
VotedInv ==
  ~Resend =>
    \A c \in Clients, p \in Problocks :
      <<c, p>> \in voted => /\ p.height <= uploaded[c]
                           /\ (pc[c] = "waiting" => p.height < uploaded[c])

\* No tally, current or orphaned, has more votes for a problock than voters.
TallyInv ==
  ~Resend =>
    \A i \in 1..Current, p \in Problocks : tallies[i][p] <= Cardinality(Voters(p))

IndInv ==
  /\ TypeOK
  /\ RequestInv
  /\ LockInv
  /\ CommitInv
  /\ TableInv
  /\ NextInv
  /\ VotedInv
  /\ TallyInv
  /\ ChainMatchesTable
  /\ VotesAreDistinctVoters

-----------------------------------------------------------------------------
(* Why a height is not committed twice after a failed insertion.           *)

\* A committee has no more members than it should, none is formed ahead of its
\* time, and only members upload and vote.
MembersInv ==
  /\ \A h \in Heights :
       /\ Cardinality(committee[h]) <= OrderClientNum
       /\ committee[h] # {} => h <= GetHeight + 1
  /\ \A c \in Clients :
       /\ pc[c] = "waiting" => c \in committee[request[c].height]
       /\ \A p \in Problocks : <<c, p>> \in voted => c \in committee[p.height]

\* A client votes for one problock of a height.
OneVoteInv ==
  ~Resend =>
    \A c \in Clients, p, q \in Problocks :
      {<<c, p>>, <<c, q>>} \subseteq voted /\ p.height = q.height => p = q

\* A vote is in one map only.
PairInv ==
  ~Resend =>
    \A i, j \in 1..Current, p \in Problocks :
      i # j => tallies[i][p] + tallies[j][p] <= Cardinality(Voters(p))

\* No map has more votes than have been counted, and no block was committed
\* before as many votes were counted as a committee has members.
TotalInv ==
  ~Resend =>
    /\ IsFiniteSet(voted)
    /\ \A i \in 1..Current : /\ IsFiniteSet(VotesIn(tallies[i]))
                             /\ TotalOf(tallies[i]) <= Cardinality(voted)
    /\ chain # <<>> => OrderClientNum <= Cardinality(voted)

\* The votes that committed a block are in a map that is closed, unless the
\* commit is going on, or has ended in a panic.
Tallied(i) ==
  \E k \in 1..Current :
    /\ tallies[k][ProblockOf(chain[i])] >= LeaderQuorum
    /\ k < Current \/ leaderLock # NoClient \/ GetHeight = 0

TalliedInv == \A i \in 1..Len(chain) : Tallied(i)

HeightsInv ==
  ~Resend /\ QuorumsIntersect => \A i \in 1..Len(chain) : chain[i].height = i

QuorumInv ==
  MembersInv /\ OneVoteInv /\ PairInv /\ TotalInv /\ TalliedInv /\ HeightsInv

-----------------------------------------------------------------------------
(* The reply "uploaded" (controller/block.go:55) means that the vote is counted
   in the round that is open: the tally of Source grows by it. *)
AcknowledgedVoteIsTallied ==
  [][\A c \in Clients :
       (pc[c] = "waiting" /\ pc'[c] = "idle" /\ answer'[c] = "uploaded")
         => tallies'[Len(tallies')][request[c]] = tallies[Current][request[c]] + 1]_vars

(* CheckLeaderProblocks commits a block only once OrderClientNum leader
   problocks have been received in the round (comment at model/block.go:451). *)
CommitNeedsAllLeaders ==
  [][Len(chain') > Len(chain) => TotalOf(tallies'[Len(tallies')]) >= OrderClientNum]_vars
=============================================================================
