-------------------------------- MODULE Rounds --------------------------------
(***************************************************************************)
(* Ordering and state roots together: module LeaderProblocks and module    *)
(* RootVotes, whose committer is the handler of AppendBlock that commits.  *)
(*                                                                         *)
(* The handler makes the steps of both: the insertion of the row lets the  *)
(* height move, the execution ends with VerifyGSRoot, and each iteration   *)
(* of the loop over the shards resets the tally of the problocks and, with *)
(* the lock of the shard, the votes for its roots.  It has LeaderLock all  *)
(* that time, while root uploads hold the locks it has to wait for.        *)
(***************************************************************************)
EXTENDS LeaderProblocks

CONSTANTS
  ExecClients,  \* execution clients
  Strays,       \* may a root upload name no shard?
  ShardOf,      \* ShardOf[c]: the shard of execution client c
  ClientMax,    \* structure.CLIENT_MAX
  Roots,        \* state roots
  TxNums,       \* numbers of transactions an upload may report
  NoUpload      \* the request of an execution client with no upload in flight

VARIABLES
  sent, rootPc, rootRequest, zeroLock, lock, rootsVote, txNum, validEnd,
  pool, shard, num, totalTxNum, alive, rootsVoted, mark, seen  \* of RootVotes

rootVars ==
  <<sent, rootPc, rootRequest, zeroLock, lock, rootsVote, txNum, validEnd,
    pool, shard, num, totalTxNum, alive, rootsVoted, mark, seen>>

\* Where the committer of RootVotes is.
Committer ==
  CASE \E c \in Clients : pc[c] = "inserted"  -> "verifying"
    [] \E c \in Clients : pc[c] = "resetting" -> "resetting"
    [] OTHER                                  -> "idle"

R == INSTANCE RootVotes WITH
       Clients <- ExecClients, height <- GetHeight, committer <- Committer,
       pc <- rootPc, request <- rootRequest, voted <- rootsVoted

ASSUME RoundsAssumption == R!ConstantsAssumption

RoundsInit == Init /\ R!Init

-----------------------------------------------------------------------------
\* An upload of a problock until it commits a block, if it does.
Order(c) ==
  /\ alive
  /\ Acknowledge(c) \/ Refuse(c) \/ AppendToChain(c)
  /\ UNCHANGED rootVars

\* The steps of the handler that commits, in both modules.
CommitRow(c)   == InsertRow(c) /\ R!Commit
ExecuteRow(c)  == Execute(c) /\ R!AddTotal
Panic(c)       == ExecutePanics(c) /\ R!CommitPanics
ResetRound(c)  == ResetShard(c) /\ R!ResetShard

\* The iterations of VerifyGSRoot are within the execution.
Verify == UNCHANGED vars /\ (R!VerifyShard \/ R!MapRace)

HandleOrder(c) ==
  Order(c) \/ CommitRow(c) \/ ExecuteRow(c) \/ Panic(c) \/ ResetRound(c)

HandleRoot(e) == UNCHANGED vars /\ (R!Vote(e) \/ R!WriteRelays(e))
StrayRoot == UNCHANGED vars /\ R!StrayPanics

EnterRound(c) == alive /\ Register(c) /\ UNCHANGED rootVars
UploadProblock(c) == alive /\ Upload(c) /\ UNCHANGED rootVars
UploadRoot(e) == UNCHANGED vars /\ R!Upload(e)

RoundsNext ==
  \/ \E c \in Clients : EnterRound(c) \/ UploadProblock(c) \/ HandleOrder(c)
  \/ \E e \in ExecClients : UploadRoot(e) \/ HandleRoot(e)
  \/ StrayRoot \/ Verify

roundsVars == <<vars, rootVars>>

RoundsSpec == RoundsInit /\ [][RoundsNext]_roundsVars

\* A goroutine that can run does run; sync.Mutex's starvation mode hands the lock
\* to a waiting goroutine, hence SF for the steps that take one.  Order clients
\* are fair too: a client registers when it may, a member votes.  Nothing makes
\* an execution client upload a root.
RoundsFairness ==
  /\ \A c \in Clients :
       /\ SF_roundsVars(HandleOrder(c))
       /\ WF_roundsVars(EnterRound(c))
       /\ WF_roundsVars(UploadProblock(c))
  /\ \A e \in ExecClients : SF_roundsVars(HandleRoot(e))
  /\ WF_roundsVars(Verify)

FairRounds == RoundsSpec /\ RoundsFairness

-----------------------------------------------------------------------------
(* The two halves fit.  A handler that is about to insert a row finds no other
   commit under way and inserts the height after that of the table, and one that
   resets the rounds is at the same shard as the loop of RootVotes: LeaderLock
   keeps to one the committers RootVotes has one of. *)
OneCommitAtATime ==
  alive =>
    \A c \in Clients :
      /\ pc[c] = "appended" =>
           Committer = "idle" /\ chain[Len(chain)].height = GetHeight + 1
      /\ pc[c] = "resetting" => Committer = "resetting" /\ shard = nextShard

(* Every upload of a problock, and of a root for one of the server's shards, is
   answered, and with it every commit ends, unless the process stops: LeaderLock,
   which is given back after a panic too, and the locks of the shards, which a commit
   takes one by one while it holds the former, never stay taken.  One lock does, that
   of shard 0, when an upload that names no shard panics in CollectRoot: the next of
   that kind hangs, but no commit and no upload of any other kind waits for it. *)
UploadsAreAnswered ==
  /\ \A c \in Clients : (pc[c] # "idle") ~> (pc[c] = "idle" \/ ~alive)
  /\ \A e \in ExecClients : (rootPc[e] # "idle") ~> (rootPc[e] = "idle" \/ ~alive)

\* Some vote for a block still to come is in a map nobody will look at: its client
\* had registered when the row of the last block was visible, and voted before the
\* handler that committed that block was done with the maps (run leader_lostvote).
VoteAstray ==
  \E i \in 1..(Current - 1), p \in Problocks : p.height > Len(chain) /\ tallies[i][p] > 0

(* That is the only way a round can be left that never completes.  When the order
   clients vote once each, a quorum of them for the same problock, then every height
   gets its block unless a vote went astray, the insertion of a row failed or the
   process was stopped: late votes, resets, panics and the locks of the shards,
   whatever the execution clients do, never keep a height from its block. *)
EveryHeightCommits ==
  \A h \in Heights : <>(Len(chain) >= h \/ VoteAstray \/ RowLost \/ ~alive)
=============================================================================
