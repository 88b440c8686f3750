------------------------------ MODULE RootVotes ------------------------------
(***************************************************************************)
(* The execution shards' state roots.                                      *)
(*                                                                         *)
(* An execution client uploads the state root it computed for its shard,   *)
(* with the relay transactions of its shard and the number of transactions *)
(* it executed: POST /block/uploadroot, model.CollectRoot.  The upload     *)
(* that gives a root its quorum writes its relay transactions to the pool  *)
(* and its number to TxNum.  The goroutine that commits a block looks at   *)
(* the votes and at TxNum of every shard (VerifyGSRoot), adds TxNum to     *)
(* TotalTxNum, and starts a new round in every shard (the loop of          *)
(* model.AppendBlock).                                                     *)
(*                                                                         *)
(* CollectRoot holds the lock of the shard throughout and the loop takes   *)
(* it for each shard, but VerifyGSRoot takes no lock.  Commits exclude     *)
(* each other by LeaderLock (module LeaderProblocks), so there is one      *)
(* committer here.  Neither the height in an upload nor its shard is ever  *)
(* looked at; one that names no shard names the beacon chain's, 0, whose   *)
(* map of votes does not exist.                                            *)
(***************************************************************************)
EXTENDS Naturals, Sequences, FiniteSets

CONSTANTS
  Clients,      \* execution clients; each has at most one upload in flight
  Strays,       \* may an upload name no shard, so that its Shard is 0?
  ShardNum,     \* structure.ShardNum
  ShardOf,      \* ShardOf[c]: the shard of client c
  ClientMax,    \* structure.CLIENT_MAX, the execution clients of a shard
  Roots,        \* state roots, as strings: nothing ties one to a height
  TxNums,       \* numbers of transactions an upload may report
  MaxHeight,    \* bound: blocks 1..MaxHeight are committed, and roots are
                \* uploaded for the heights below MaxHeight
  DBFaults,     \* may the insertion of a row in the block table fail?
  NoClient,     \* the value of a shard's lock when it is free
  NoUpload      \* the request of a client with no upload in flight

Shards == 1..ShardNum

Uploads == [height : 0..MaxHeight, root : Roots, num : TxNums]

ASSUME ConstantsAssumption ==
  /\ IsFiniteSet(Clients)
  /\ ShardNum \in Nat \ {0}
  /\ ShardOf \in [Clients -> Shards]
  /\ ClientMax \in Nat \ {0, 1}
  /\ IsFiniteSet(Roots)
  /\ TxNums \subseteq Nat
  /\ MaxHeight \in Nat
  /\ DBFaults \in BOOLEAN
  /\ Strays \in BOOLEAN
  /\ NoClient \notin Clients
  /\ NoUpload \notin Uploads

VARIABLES
  height,      \* GetHeight(), the height in the block table
  sent,        \* sent[c]: c has uploaded a root for heights below sent[c]
  pc,          \* where the handler of c's upload is
  request,     \* the upload c's handler was given
  zeroLock,    \* ClientShard[0].Lock is taken
  lock,        \* holder of ClientShard[s].Lock
  rootsVote,   \* ClientShard[s].AccountState.NewRootsVote[s], 0 if absent
  txNum,       \* ClientShard[s].AccountState.TxNum
  validEnd,    \* ClientShard[s].ValidEnd
  pool,        \* uploads whose relays are in WitnessTransactions[2][s], in order
  committer,   \* where the goroutine that commits a block is
  shard,       \* its loop variable
  num,         \* its sum in VerifyGSRoot
  totalTxNum,  \* ChainShard[0].TotalTxNum
  alive,       \* FALSE once the Go runtime has stopped the process
  voted,       \* history: votes counted in s since its last reset
  mark,        \* history: Len(pool[s]) at the last reset of s
  seen         \* history: from VerifyGSRoot to the reset of s, what was
               \* added for s, and Len(pool[s]) then

handlers == <<sent, pc, request, zeroLock>>
round    == <<rootsVote, txNum, validEnd, voted, mark>>
commit   == <<height, committer, shard, num, totalTxNum, seen>>
vars     == <<handlers, lock, round, pool, commit, alive>>

NotSeen == [added |-> 0, writes |-> 0]

NoVotes == [r \in Roots |-> 0]

\* CLIENT_MAX*2/3, once in CollectRoot and once in VerifyGSRoot.
RootQuorum == (ClientMax * 2) \div 3

\* Mutant: the committer asks for more votes than CollectRoot.
VerifyQuorumOfAll == ClientMax

VerifyQuorum == (ClientMax * 2) \div 3

HasQuorum(v, q) == \E r \in Roots : v[r] >= q

-----------------------------------------------------------------------------
Init ==
  /\ height     = 0
  /\ sent       = [c \in Clients |-> 0]
  /\ pc         = [c \in Clients |-> "idle"]
  /\ request    = [c \in Clients |-> NoUpload]
  /\ zeroLock   = FALSE
  /\ lock       = [s \in Shards |-> NoClient]
  /\ rootsVote  = [s \in Shards |-> NoVotes]
  /\ txNum      = [s \in Shards |-> 0]
  /\ validEnd   = [s \in Shards |-> FALSE]
  /\ pool       = [s \in Shards |-> <<>>]
  /\ committer  = "idle"
  /\ shard      = 1
  /\ num        = 0
  /\ totalTxNum = 0
  /\ alive      = TRUE
  /\ voted      = [s \in Shards |-> {}]
  /\ mark       = [s \in Shards |-> 0]
  /\ seen       = [s \in Shards |-> NotSeen]

-----------------------------------------------------------------------------
(* CollectRoot.                                                            *)

\* A client executes the block after the height it has read, and uploads the
\* root it finds, at any later moment.  It does so once for a height.
Upload(c) ==
  /\ alive
  /\ pc[c] = "idle"
  /\ sent[c] <= height
  /\ height < MaxHeight
  /\ \E u \in Uploads :
       /\ u.height = height
       /\ request' = [request EXCEPT ![c] = u]
  /\ sent' = [sent EXCEPT ![c] = height + 1]
  /\ pc'   = [pc EXCEPT ![c] = "waiting"]
  /\ UNCHANGED <<zeroLock, lock, round, pool, commit, alive>>

Return(c) ==
  /\ pc'      = [pc EXCEPT ![c] = "idle"]
  /\ request' = [request EXCEPT ![c] = NoUpload]
  /\ UNCHANGED sent

\* Mutant: the shard's lock is not taken.
VoteUnlocked(c) == pc[c] = "waiting"

CanVote(c) == pc[c] = "waiting" /\ lock[ShardOf[c]] = NoClient

\* Lines 362-374: the root gets a vote; is there a quorum, and no write yet?
\* If not, the lock is released and the upload answered.
Vote(c) ==
  LET s == ShardOf[c]
      r == request[c].root
  IN
  /\ alive
  /\ CanVote(c)
  /\ rootsVote' = [rootsVote EXCEPT ![s][r] = @ + 1]
  /\ voted'     = [voted EXCEPT ![s] = @ \cup {<<c, request[c].height, r>>}]
  /\ \/ /\ ~validEnd[s] /\ HasQuorum(rootsVote'[s], RootQuorum)
        /\ lock' = [lock EXCEPT ![s] = c]
        /\ pc'   = [pc EXCEPT ![c] = "writing"]
        /\ UNCHANGED <<sent, request>>
     \/ /\ validEnd[s] \/ ~HasQuorum(rootsVote'[s], RootQuorum)
        /\ Return(c)
        /\ UNCHANGED lock
  /\ UNCHANGED <<txNum, validEnd, mark, zeroLock, pool, commit, alive>>

\* Mutant: the handler returns without Unlock.
KeptLocked(s) == lock

Unlocked(s) == [lock EXCEPT ![s] = NoClient]

\* Lines 374-400: the relay transactions of this upload go to the pool, its
\* number of transactions to TxNum; the round of the shard is closed.
WriteRelays(c) ==
  LET s == ShardOf[c] IN
  /\ alive
  /\ pc[c] = "writing"
  /\ pool'     = [pool EXCEPT ![s] = Append(@, request[c])]
  /\ txNum'    = [txNum EXCEPT ![s] = @ + request[c].num]
  /\ validEnd' = [validEnd EXCEPT ![s] = TRUE]
  /\ lock'     = Unlocked(s)
  /\ Return(c)
  /\ UNCHANGED <<rootsVote, voted, mark, zeroLock, commit, alive>>

\* Lines 362-363 of an upload that names no shard: the handler takes the lock of
\* shard 0 and panics, because the map of its votes is nil.  It is answered with an
\* error, but keeps the lock, as line 400 is not deferred: the next upload of that
\* kind waits at line 362 for ever, where it does nothing any more.
StrayPanics ==
  /\ alive
  /\ Strays
  /\ ~zeroLock
  /\ zeroLock' = TRUE
  /\ UNCHANGED <<sent, pc, request, lock, round, pool, commit, alive>>

-----------------------------------------------------------------------------
(* The committer, from the insertion of the block's row to the last reset. *)

\* structure/block.go 176-182: the new height is visible, no shard is verified.
\* A row that is not inserted is forgotten: the commit goes on.
Commit ==
  /\ alive
  /\ committer = "idle"
  /\ height < MaxHeight
  /\ \/ height' = height + 1
     \/ DBFaults /\ UNCHANGED height
  /\ committer' = "verifying"
  /\ shard'     = 1
  /\ UNCHANGED <<handlers, lock, round, pool, num, totalTxNum, seen, alive>>

\* Without any row the window to execute is -1, and the slice expression panics
\* before the roots are looked at (unless ValidateTxNum is a multiple of TX_NUM, see
\* module TxPool).
CommitPanics ==
  /\ alive
  /\ committer = "verifying"
  /\ height = 0
  /\ committer' = "idle"
  /\ UNCHANGED <<handlers, lock, round, pool, height, shard, num, totalTxNum,
                 seen, alive>>

\* One iteration of the loop of VerifyGSRoot, without the shard's lock.  It
\* reads the votes, then TxNum; votes only grow between two resets, so that is
\* reading both when it reads TxNum (quorum), or at first (no quorum).
VerifyShard ==
  LET added == IF HasQuorum(rootsVote[shard], VerifyQuorum) THEN txNum[shard] ELSE 0
  IN
  /\ alive
  /\ committer = "verifying"
  /\ height >= 1
  /\ shard <= ShardNum
  /\ num'   = num + added
  /\ seen'  = [seen EXCEPT ![shard] = [added |-> added, writes |-> Len(pool[shard])]]
  /\ shard' = shard + 1
  /\ UNCHANGED <<handlers, lock, round, pool, height, committer, totalTxNum,
                 alive>>

\* The loop iterates over NewRootsVote[shard] while CollectRoot assigns to it, and
\* assigns to AccountMap while CollectRoot, of any shard, reads that for a batch of
\* relays (GetAccountList): when the Go runtime notices, it stops the process
\* ("concurrent map iteration and map write"); when it does not, the loop sees the
\* vote or does not.
MapRace ==
  /\ alive
  /\ committer = "verifying"
  /\ height >= 1
  /\ shard <= ShardNum
  /\ \/ \E c \in Clients : ShardOf[c] = shard /\ CanVote(c)
     \/ /\ HasQuorum(rootsVote[shard], VerifyQuorum)
        /\ \E c \in Clients : pc[c] = "writing"
  /\ alive' = FALSE
  /\ UNCHANGED <<handlers, lock, round, pool, commit>>

\* After the loop: state.go line 316.
AddTotal ==
  /\ alive
  /\ committer = "verifying"
  /\ shard > ShardNum
  /\ totalTxNum' = totalTxNum + num
  /\ num'        = 0
  /\ committer'  = "resetting"
  /\ shard'      = 1
  /\ UNCHANGED <<handlers, lock, round, pool, height, seen, alive>>

\* Mutants: the numbers, or the votes, of the last round stay.
SameTxNum(s) == txNum
SameVotes(s) == rootsVote

ClearTxNum(s) == [txNum EXCEPT ![s] = 0]
ClearVotes(s) == [rootsVote EXCEPT ![s] = NoVotes]

\* Mutant: the loop runs once too often.
MoreAfterLast == shard <= ShardNum

More == shard < ShardNum

\* One iteration of the loop of model.AppendBlock, with the shard's lock.
ResetShard ==
  /\ alive
  /\ committer = "resetting"
  /\ lock[shard] = NoClient
  /\ rootsVote' = ClearVotes(shard)
  /\ txNum'     = ClearTxNum(shard)
  /\ validEnd'  = [validEnd EXCEPT ![shard] = FALSE]
  /\ voted'     = [voted EXCEPT ![shard] = {}]
  /\ mark'      = [mark EXCEPT ![shard] = Len(pool[shard])]
  /\ seen'      = [seen EXCEPT ![shard] = NotSeen]
  /\ \/ More /\ shard' = shard + 1 /\ UNCHANGED committer
     \/ ~More /\ shard' = 1 /\ committer' = "idle"
  /\ UNCHANGED <<handlers, lock, pool, height, num, totalTxNum, alive>>

-----------------------------------------------------------------------------
Committing == CommitPanics \/ VerifyShard \/ AddTotal \/ ResetShard

Next ==
  \/ \E c \in Clients : Upload(c) \/ Vote(c) \/ WriteRelays(c)
  \/ StrayPanics \/ Commit \/ Committing \/ MapRace

Spec == Init /\ [][Next]_vars

-----------------------------------------------------------------------------
TypeOK ==
  /\ height     \in 0..MaxHeight
  /\ sent       \in [Clients -> 0..(MaxHeight + 1)]
  /\ pc         \in [Clients -> {"idle", "waiting", "writing"}]
  /\ request    \in [Clients -> Uploads \cup {NoUpload}]
  /\ zeroLock   \in BOOLEAN
  /\ lock       \in [Shards -> Clients \cup {NoClient}]
  /\ rootsVote  \in [Shards -> [Roots -> Nat]]
  /\ txNum      \in [Shards -> Nat]
  /\ validEnd   \in [Shards -> BOOLEAN]
  /\ pool       \in [Shards -> Seq(Uploads)]
  /\ committer  \in {"idle", "verifying", "resetting"}
  /\ shard      \in 1..(IF committer = "verifying" THEN ShardNum + 1 ELSE ShardNum)
  /\ num        \in Nat
  /\ totalTxNum \in Nat
  /\ alive      \in BOOLEAN
  /\ voted      \in [Shards -> SUBSET (Clients \X (0..MaxHeight) \X Roots)]
  /\ mark       \in [Shards -> Nat]
  /\ seen       \in [Shards -> [added : Nat, writes : Nat]]

VotesFor(s, r) == {v \in voted[s] : v[3] = r}

(* Between two resets of a shard, the relay transactions of at most one upload
   reach its pool, however votes, write and reset interleave: relay money is
   never paid out twice for one round (ValidEnd, model/block.go 374-397). *)
RelaysOncePerRound == \A s \in Shards : Len(pool[s]) <= mark[s] + 1

(* CollectRoot tests whether some root has a quorum and then writes the relays
   of the upload at hand, whatever its root is.  It is always the right one: the
   root of that upload has the quorum, and its votes were all cast since the
   last reset of the shard. *)
RelaysAreOfTheQuorumRoot ==
  [][\A s \in Shards :
       Len(pool'[s]) > Len(pool[s])
         => Cardinality(VotesFor(s, pool'[s][Len(pool'[s])].root)) >= RootQuorum]_vars

\* The transactions of the i-th upload of s that was written, and of the first n.
Transactions(s, i) == {<<s, i>>} \X (1..pool[s][i].num)
WrittenTxs(s, n)   == UNION {Transactions(s, i) : i \in 1..n}

ValidatedTxs == UNION {WrittenTxs(s, Len(pool[s])) : s \in Shards}

(* TotalTxNum never exceeds the number of transactions that were validated by a
   quorum: no commit counts the number of an earlier round again. *)
NoTransactionCountedTwice == totalTxNum <= Cardinality(ValidatedTxs)

(* VerifyGSRoot reads votes and numbers that are in motion, so the number of an
   upload may be wiped out uncounted.  It happens only to an upload written
   between the verification of its shard and the reset: the rest is counted. *)
EarlyQuorumIsCounted ==
  [][\A s \in Shards :
       (ResetShard /\ shard = s /\ Len(pool[s]) = seen[s].writes)
         => seen[s].added = txNum[s]]_vars

\* The committer has verified s and has still to reset it.
Verified(s) ==
  \/ committer = "verifying" /\ s < shard
  \/ committer = "resetting" /\ shard <= s

\* Uploads of s a commit has dealt with: seen by VerifyGSRoot, or of a past round.
Settled(s) == IF Verified(s) THEN seen[s].writes ELSE mark[s]

\* The payouts read off the pools; what the loop of VerifyGSRoot has summed up is
\* counted.
P == INSTANCE Payouts WITH
       paid    <- pool,
       open    <- [s \in Shards |-> ~validEnd[s]],
       settled <- [s \in Shards |-> Settled(s)],
       total   <- totalTxNum + num

(* The rounds settle payouts as they should: although the verification takes no
   lock and looks at votes and numbers one after the other, and the shards are
   reset one by one while uploads of any height go on, every commit counts of each
   shard what has been written since its last reset, and nothing else. *)
ImplementsPayouts == P!Spec

-----------------------------------------------------------------------------
(* The inductive invariant behind the properties above.                    *)

RequestInv ==
  \A c \in Clients :
    pc[c] # "idle" => request[c] \in Uploads /\ sent[c] = request[c].height + 1

\* A handler that is writing has the lock, an open round, and a root with a quorum.
WritingInv ==
  \A c \in Clients :
    pc[c] = "writing" =>
      /\ lock[ShardOf[c]] = c
      /\ ~validEnd[ShardOf[c]]
      /\ rootsVote[ShardOf[c]][request[c].root] >= RootQuorum

\* A closed round has one upload in the pool, and an open one none.
PoolInv == \A s \in Shards : Len(pool[s]) = mark[s] + (IF validEnd[s] THEN 1 ELSE 0)

\* TxNum of a closed round is the number of that upload.
NumInv == \A s \in Shards : validEnd[s] => txNum[s] = pool[s][Len(pool[s])].num

\* An open round whose lock is free has no quorum and no number of transactions.
QuorumInv ==
  \A s \in Shards :
    IF validEnd[s]
    THEN HasQuorum(rootsVote[s], RootQuorum)
    ELSE /\ txNum[s] = 0
         /\ lock[s] = NoClient => ~HasQuorum(rootsVote[s], RootQuorum)

\* The vote a client is about to cast is none of those counted.
VotedInv ==
  \A s \in Shards : \A v \in voted[s] :
    v[2] < sent[v[1]] /\ (pc[v[1]] = "waiting" => v[2] < request[v[1]].height)

CountInv ==
  \A s \in Shards, r \in Roots :
    IsFiniteSet(VotesFor(s, r)) /\ Cardinality(VotesFor(s, r)) = rootsVote[s][r]

SeenInv ==
  \A s \in Shards :
    Verified(s) =>
      /\ seen[s].writes <= Len(pool[s])
      /\ seen[s].writes = Len(pool[s]) => seen[s].added = txNum[s]

\* Without any row nothing is verified.
NoRowInv == committer = "verifying" /\ height = 0 => shard = 1

IndInv ==
  /\ TypeOK /\ NoRowInv /\ RequestInv /\ WritingInv /\ PoolInv /\ NumInv
  /\ QuorumInv /\ VotedInv /\ CountInv /\ SeenInv

SettledTxs == UNION {WrittenTxs(s, Settled(s)) : s \in Shards}

\* Only transactions of settled uploads are counted, each of them at most once.
TotalInv == totalTxNum + num <= Cardinality(SettledTxs)
=============================================================================
