---------------------------- MODULE AccountState ----------------------------
(***************************************************************************)
(* The accounts of the shards: their execution at the commit of a block    *)
(* and the lists of accounts clients are given meanwhile.                  *)
(*                                                                         *)
(* The commit of a block inserts the row of the block and calls            *)
(* UpdateChainWithBlock: the windows of the pools (module TxPool) are      *)
(* executed by UpdateAccount, and VerifyGSRoot makes NewAccountMap the     *)
(* AccountMap of the shards with a quorum of roots (module RootVotes).     *)
(* Commits exclude each other (module LeaderProblocks).  PackAccount       *)
(* copies the accounts, one by one, and reads the height after that; it    *)
(* holds State.Mu, which nothing else ever takes.                          *)
(*                                                                         *)
(* A row may be lost: AppendBlock logs the error and executes all the      *)
(* same.  The height then stays what it was, so that executions are        *)
(* numbered by the commit here, and not by the height.                     *)
(*                                                                         *)
(* Both maps hold pointers to Account structs: InitAccountList puts the    *)
(* same struct in both, and line 69 of state.go makes both one map.        *)
(***************************************************************************)
EXTENDS Integers, Sequences, FiniteSets, SequencesExt

CONSTANTS
  Accounts,
  ShardNum,      \* structure.ShardNum
  ShardOf,       \* ShardOf[a]: the shard of account a
  InitialValue,  \* the balance accounts start with
  Windows,       \* what the pools may have for a block: for each kind and shard
                 \* the sequence of its transactions
  Readers,       \* clients that ask for the list of accounts
  DBFaults,      \* may the insertion of a row fail?
  MaxHeight      \* bound: there are at most as many commits

Shards == 1..ShardNum

\* generateInterTrans and generateCrossTrans give every transaction the Value 1;
\* relays are made of the latter.
Value == 1

\* Structs there could be: InitAccountList makes the first of each pair only.
Structs == Accounts \X {1, 2}

NotRead == -1

Kinds == {"relay", "internal", "cross"}

\* From and To; accounts of the shards the transaction names.
Transactions == [kind : Kinds, shard : Shards, from : Accounts, to : Accounts]

ASSUME ConstantsAssumption ==
  /\ IsFiniteSet(Accounts)
  /\ ShardNum \in Nat \ {0}
  /\ ShardOf \in [Accounts -> Shards]
  /\ InitialValue \in Int
  /\ Windows \subseteq [Kinds -> [Shards -> Seq(Transactions)]]
  /\ \A w \in Windows, s \in Shards, k \in Kinds : \A i \in 1..Len(w[k][s]) :
       LET tx == w[k][s][i] IN
       /\ tx.kind = k /\ tx.shard = s
       /\ k \in {"internal", "cross"} => ShardOf[tx.from] = s
       /\ k = "internal" => ShardOf[tx.to] = s /\ tx.from # tx.to
  /\ DBFaults \in BOOLEAN
  /\ MaxHeight \in Nat

VARIABLES
  height,         \* GetHeight()
  commits,        \* history: the commits so far
  struct,         \* struct[x]: Value of the Account struct x
  accountMap,     \* AccountMap[ShardOf[a]][a], a struct
  newAccountMap,  \* NewAccountMap[ShardOf[a]][a]
  committer,      \* where the goroutine that commits a block is
  lists,          \* lists UpdateAccount has still to range over, in order
  queue,          \* what it has not executed yet of the list it is at
  shard,          \* loop variable of VerifyGSRoot
  alive,          \* FALSE when the process has ended: log.Fatalf, or the runtime
  related,        \* history: RelatedAccount of the batches executed last
  changed,        \* history: changed[a]: the commit that changed a last
  reader,         \* has the handler of PackAccount begun?
  left,           \* accounts it has not copied yet
  list,           \* its list: list[r][a] is changed[a] at the moment of the copy
  answer          \* the height it answers, NotRead before it has read it

maps    == <<accountMap, newAccountMap>>
commit  == <<height, commits, committer, lists, queue, shard, related, changed>>
readers == <<reader, left, list, answer>>
vars    == <<struct, maps, commit, readers, alive>>

Init ==
  /\ height        = 0
  /\ commits       = 0
  /\ struct        = [x \in Structs |-> InitialValue]
  /\ accountMap    = [a \in Accounts |-> <<a, 1>>]
  /\ newAccountMap = [a \in Accounts |-> <<a, 1>>]
  /\ committer     = "idle"
  /\ lists         = <<>>
  /\ queue         = <<>>
  /\ shard         = 1
  /\ alive         = TRUE
  /\ related       = {}
  /\ changed       = [a \in Accounts |-> 0]
  /\ reader        = [r \in Readers |-> "idle"]
  /\ left          = [r \in Readers |-> {}]
  /\ list          = [r \in Readers |-> [a \in Accounts |-> 0]]
  /\ answer        = [r \in Readers |-> NotRead]

-----------------------------------------------------------------------------
(* UpdateChainWithBlock.                                                   *)

\* Lines 168-183 of block.go; a failed insertion is logged and rolled back.
InsertRow ==
  /\ alive
  /\ committer = "idle"
  /\ commits < MaxHeight
  /\ \/ height' = height + 1
     \/ DBFaults /\ UNCHANGED height
  /\ commits'   = commits + 1
  /\ committer' = "updating"
  /\ UNCHANGED <<struct, maps, lists, queue, shard, related, changed, readers, alive>>

\* The lists of a window of one kind, in some order of the shards.
Listed(w, k) ==
  {[i \in Shards |-> w[k][o[i]]] : o \in Injection(Shards, Shards)}

\* The transactions in a sequence of lists.
Within(ls) == UNION {ToSet(ls[i]) : i \in DOMAIN ls}

\* Mutant: both parties of a transfer between shards are related to either half.
BothParties(tx) == {tx.from, tx.to}

\* Accounts a transaction is said to change.
RelatedTo(tx) ==
  CASE tx.kind = "internal" -> {tx.from, tx.to}
    [] tx.kind = "cross"    -> {tx.from}
    [] tx.kind = "relay"    -> {tx.to}

\* The RelatedAccount AppendBatchTrans gave the batches of these transactions;
\* a map from the addresses to Ids, which are unique.
FindAccountIds(txs) == UNION {RelatedTo(tx) : tx \in txs}

\* Mutant: the new map is made of structs of its own, as its name suggests.
OwnStructs == [a \in Accounts |-> <<a, 2>>]

SameStructs == accountMap

\* packTx4ServerUpdate, and lines 69-82 of UpdateAccount: relays first, then
\* internal, then cross transactions, ranging over maps of shards.
Update ==
  /\ alive
  /\ committer = "updating"
  /\ newAccountMap' = SameStructs
  /\ \E w \in Windows :
       \E r \in Listed(w, "relay"), i \in Listed(w, "internal"), c \in Listed(w, "cross") :
         /\ lists'   = r \o i \o c
         /\ related' = FindAccountIds(Within(lists'))
  /\ committer' = "executing"
  /\ UNCHANGED <<height, commits, struct, accountMap, queue, shard, changed, readers, alive>>

\* A window that is not in a pool, such as that of height 0 when the first row
\* is lost: packTx4ServerUpdate panics before anything is executed (module TxPool
\* says when), and the handler with it.
UpdatePanics ==
  /\ alive
  /\ committer = "updating"
  /\ committer' = "idle"
  /\ UNCHANGED <<struct, maps, height, commits, lists, queue, shard, related, changed, readers,
                 alive>>

\* The outer loops go on to the next list.
NextList ==
  /\ alive
  /\ committer = "executing"
  /\ queue = <<>> /\ lists # <<>>
  /\ queue' = Head(lists)
  /\ lists' = Tail(lists)
  /\ UNCHANGED <<struct, maps, height, commits, committer, shard, related, changed, readers, alive>>

\* The balance of a, and the struct its new balance is written to.
Old(a) == struct[accountMap[a]]
New(a) == newAccountMap[a]

Write(a, v) ==
  /\ struct'  = [struct EXCEPT ![New(a)] = v]
  /\ changed' = [changed EXCEPT ![a] = commits]

Done == queue' = Tail(queue) /\ UNCHANGED lists

\* Line 144 or 151: the beneficiary is not an account of the shard.
Foreign(tx) == tx.kind = "relay" /\ ShardOf[tx.to] # tx.shard

ExcuteRelay ==
  /\ alive
  /\ committer = "executing"
  /\ queue # <<>>
  /\ Head(queue).kind = "relay" /\ ~Foreign(Head(queue))
  /\ Write(Head(queue).to, Old(Head(queue).to) + Value)
  /\ Done
  /\ UNCHANGED <<maps, height, commits, committer, shard, related, readers, alive>>

ExcuteCross ==
  /\ alive
  /\ committer = "executing"
  /\ queue # <<>>
  /\ Head(queue).kind = "cross"
  /\ Write(Head(queue).from, Old(Head(queue).from) - Value)
  /\ Done
  /\ UNCHANGED <<maps, height, commits, committer, shard, related, readers, alive>>

\* ExcuteInteral, lines 113-114 ...
Debit ==
  /\ alive
  /\ committer = "executing"
  /\ queue # <<>>
  /\ Head(queue).kind = "internal"
  /\ Write(Head(queue).from, Old(Head(queue).from) - Value)
  /\ committer' = "crediting"
  /\ UNCHANGED <<maps, height, commits, lists, queue, shard, related, readers, alive>>

\* ... and 116-117.
Credit ==
  /\ alive
  /\ committer = "crediting"
  /\ Write(Head(queue).to, Old(Head(queue).to) + Value)
  /\ Done
  /\ committer' = "executing"
  /\ UNCHANGED <<maps, height, commits, shard, related, readers, alive>>

\* log.Fatalf ends the process.
Fatal ==
  /\ alive
  /\ committer = "executing"
  /\ queue # <<>>
  /\ Foreign(Head(queue))
  /\ alive' = FALSE
  /\ UNCHANGED <<struct, maps, commit, readers>>

EndUpdate ==
  /\ alive
  /\ committer = "executing"
  /\ queue = <<>> /\ lists = <<>>
  /\ committer' = "verifying"
  /\ shard'     = 1
  /\ UNCHANGED <<struct, maps, height, commits, lists, queue, related, changed, readers, alive>>

\* Mutant: the loop runs once too often.
UpToShardNum == shard <= ShardNum

MoreShards == shard < ShardNum

\* One iteration of VerifyGSRoot; the quorum is module RootVotes' business.
VerifyShard ==
  /\ alive
  /\ committer = "verifying"
  /\ \E quorum \in BOOLEAN :
       accountMap' = [a \in Accounts |-> IF quorum /\ ShardOf[a] = shard
                                         THEN newAccountMap[a] ELSE accountMap[a]]
  /\ IF MoreShards
     THEN shard' = shard + 1 /\ UNCHANGED committer
     ELSE shard' = 1 /\ committer' = "idle"
  /\ UNCHANGED <<struct, newAccountMap, height, commits, lists, queue, related, changed, readers,
                 alive>>

\* The assignment at line 309 is concurrent with the reads at line 165: the
\* runtime may notice it and stop the process.  (Uploads of roots read the map
\* too, see MapRace of module RootVotes.)
MapRace ==
  /\ alive
  /\ committer = "verifying"
  /\ \E r \in Readers : left[r] # {}
  /\ alive' = FALSE
  /\ UNCHANGED <<struct, maps, commit, readers>>

-----------------------------------------------------------------------------
(* PackAccount.                                                            *)

StartList(r) ==
  /\ alive
  /\ reader[r] = "idle"
  /\ reader' = [reader EXCEPT ![r] = "listing"]
  /\ left'   = [left EXCEPT ![r] = Accounts]
  /\ UNCHANGED <<struct, maps, commit, list, answer, alive>>

\* One iteration of the loops at 164-168: shard by shard, in any order within.
Copy(r) ==
  /\ alive
  /\ \E a \in left[r] :
       /\ \A b \in left[r] : ShardOf[a] <= ShardOf[b]
       /\ list' = [list EXCEPT ![r][a] = changed[a]]
       /\ left' = [left EXCEPT ![r] = @ \ {a}]
  /\ UNCHANGED <<struct, maps, commit, reader, answer, alive>>

\* Mutant: the height may be read before the list.
Started(r) == reader[r] = "listing"

ListIsComplete(r) == reader[r] = "listing" /\ left[r] = {}

\* Line 268, after the list.
ReadHeight(r) ==
  /\ alive
  /\ answer[r] = NotRead
  /\ ListIsComplete(r)
  /\ answer' = [answer EXCEPT ![r] = height]
  /\ UNCHANGED <<struct, maps, commit, reader, left, list, alive>>

-----------------------------------------------------------------------------
Execute == ExcuteRelay \/ ExcuteCross \/ Debit \/ Credit \/ Fatal

Next ==
  \/ InsertRow \/ Update \/ UpdatePanics \/ NextList \/ Execute \/ EndUpdate \/ VerifyShard
  \/ MapRace
  \/ \E r \in Readers : StartList(r) \/ Copy(r) \/ ReadHeight(r)

Spec == Init /\ [][Next]_vars

-----------------------------------------------------------------------------
TypeOK ==
  /\ commits       \in 0..MaxHeight
  /\ height        \in 0..commits
  /\ struct        \in [Structs -> Int]
  /\ accountMap    \in [Accounts -> Structs]
  /\ newAccountMap \in [Accounts -> Structs]
  /\ committer     \in {"idle", "updating", "executing", "crediting", "verifying"}
  /\ lists         \in Seq(Seq(Transactions))
  /\ queue         \in Seq(Transactions)
  /\ committer = "crediting" => queue # <<>>
  /\ shard         \in Shards
  /\ alive         \in BOOLEAN
  /\ related       \subseteq Accounts
  /\ changed       \in [Accounts -> 0..MaxHeight]
  /\ reader        \in [Readers -> {"idle", "listing"}]
  /\ left          \in [Readers -> SUBSET Accounts]
  /\ list          \in [Readers -> [Accounts -> 0..MaxHeight]]
  /\ answer        \in [Readers -> (0..MaxHeight) \cup {NotRead}]

\* The credit of a transfer that is half executed is counted already.
Settled ==
  [a \in Accounts |->
     IF committer = "crediting" /\ Head(queue).to = a THEN Old(a) + Value ELSE Old(a)]

B == INSTANCE Balances WITH Amount <- Value, balance <- Settled

(* The accounts in AccountMap change by whole transactions, one at a time: no
   update is lost when an account has several transactions in a block, and the
   replacement of the maps after a quorum, or its absence, changes no balance. *)
ImplementsBalances == B!Spec

\* Commits whose row is not in the table.
LostRows == commits - height

(* A client that is told a height is given no balance that a later commit than
   that one and the rows lost before has made: as long as no row is lost, none is
   newer than the height.  The row of a block is inserted before its execution,
   and PackAccount reads the height after the list.  (Balances that are older, and
   a transfer one half of which is executed, the client may be given.) *)
ListIsNotAhead ==
  \A r \in Readers :
    answer[r] # NotRead /\ left[r] = {} =>
      \A a \in Accounts : list[r][a] <= answer[r] + LostRows

(* The accounts a batch declares when it is made (RelatedAccount, by which order
   clients can tell which batches conflict) are exactly those its execution
   changes, commits later: FindAccountIds and the three Excute functions agree on
   who pays and who is paid, for every kind. *)
RelatedAreChanged ==
  committer = "verifying" => {a \in Accounts : changed[a] = commits} = related

-----------------------------------------------------------------------------
(* The inductive invariant behind the properties above.                    *)

\* Both maps point to the structs InitAccountList has made, always.
SharedInv ==
  /\ accountMap = [a \in Accounts |-> <<a, 1>>]
  /\ newAccountMap = accountMap

Pending == ToSet(queue) \cup Within(lists)

\* Between two accounts of a shard, as generateInterTrans picks them.
WithinShard(tx) == tx.from # tx.to /\ ShardOf[tx.from] = ShardOf[tx.to]

\* What is left to execute belongs to the commit under way.
PendingInv ==
  /\ \A tx \in Pending : tx.kind = "internal" => WithinShard(tx)
  /\ committer \notin {"executing", "crediting"} => queue = <<>> /\ lists = <<>>
  /\ committer = "crediting" =>
       Head(queue).kind = "internal" /\ changed[Head(queue).from] = commits

\* What is related has been changed, or is yet to be.
ChangedInv ==
  /\ \A a \in Accounts : /\ changed[a] <= commits
                         /\ committer = "updating" => changed[a] < commits
  /\ committer \in {"executing", "crediting"} =>
       related = {a \in Accounts : changed[a] = commits} \cup FindAccountIds(Pending)

\* A list is not ahead of the commits, and is not added to after the height is read.
ListInv ==
  \A r \in Readers :
    /\ \A a \in Accounts : list[r][a] <= commits
    /\ answer[r] # NotRead =>
         /\ reader[r] = "listing" /\ left[r] = {}
         /\ \A a \in Accounts : list[r][a] <= answer[r] + LostRows

IndInv ==
  /\ TypeOK /\ SharedInv /\ PendingInv /\ ChangedInv /\ ListInv
  /\ RelatedAreChanged /\ ListIsNotAhead

-----------------------------------------------------------------------------
(* The real accounts are replaced by the new ones when the roots have exceeded
   the threshold (comment at structure/state.go:269): before VerifyGSRoot their
   balances do not change. *)
BalancesNeedVerification ==
  [][\A a \in Accounts : Old(a)' # Old(a) => committer = "verifying"]_vars
=============================================================================
