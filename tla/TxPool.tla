------------------------------- MODULE TxPool -------------------------------
(***************************************************************************)
(* The pools of transactions and of batches.                               *)
(*                                                                         *)
(* At start initializeTransactions fills WitnessTransactions and groups    *)
(* the same transactions in batches, BatchTransactions.  From then on two  *)
(* sides use them by their own arithmetic: an order client is handed the   *)
(* batches of a later block (PackTransaction), and the commit of a block   *)
(* executes windows of the pools (packTx4ServerUpdate), which execution    *)
(* clients are handed too, to validate them (PackValidTx).  Relay          *)
(* transactions are added to both by the root upload of a shard that gets  *)
(* the quorum (CollectRoot), one by one and under the lock of the shard,   *)
(* which nobody else takes to read them.                                   *)
(*                                                                         *)
(* A transaction is <<shard, position>>, its place in the pool of its kind *)
(* and shard; what it transfers is module AccountState's business.         *)
(***************************************************************************)
EXTENDS Integers, Sequences, FiniteSets

CONSTANTS
  ShardNum,        \* structure.ShardNum; the pools have place for two shards
  TxNum,           \* structure.TX_NUM, transactions of a kind and a shard
  ValidateTxNums,  \* values the command line may give to ValidateTxNum
  Active,          \* bound: shards whose execution clients do something
  RelayNums,       \* numbers of relay transactions an upload may have
  MaxHeight,       \* bound: MaxHeight blocks are committed
  DBFaults         \* may the insertion of a block's row fail?

ASSUME ConstantsAssumption ==
  /\ ShardNum \in 1..2
  /\ TxNum \in Nat \ {0}
  /\ ValidateTxNums \subseteq Nat \ {0}
  /\ Active \subseteq 1..ShardNum
  /\ RelayNums \subseteq Nat
  /\ MaxHeight \in Nat
  /\ DBFaults \in BOOLEAN

Shards  == 1..ShardNum
Heights == 1..MaxHeight  \* of blocks, and numbers of commits

Internal == 0
Cross    == 1
Relay    == 2
Kinds    == {Internal, Cross, Relay}

VARIABLES
  validateTxNum,  \* structure.ValidateTxNum, set at start
  stage,          \* is the server started?
  kind, shard,    \* loop variables of initializeTransactions
  translist,      \* its translist; count1 is the size of it
  pool,           \* pool[k][s]: Len(WitnessTransactions[k][s])
  batches,        \* BatchTransactions[k][s], each batch a set
  height,         \* GetHeight()
  proposals,      \* proposals[n]: batches handed out for block n
  validated,      \* request of an execution client that was packed last: its
                  \* shard, the height read first, the transactions, whether it
                  \* has been answered, and the height of the answer
  commits,        \* blocks that were to be inserted in the table
  heightOf,       \* heightOf[m]: the table's height when commit m is executed
  committer,      \* where the goroutine that commits a block is
  current,        \* its loop variable, a shard
  executed,       \* executed[m][s]: windows commit m has executed of shard s
  relayed,        \* relayed[s]: window of relays the last commit executed
  panicked,       \* heights of the table at which a commit has panicked
  mark,           \* history: pool[Relay][s] at the last reset of s
  upload,         \* where the upload that closes the round of s is
  index,          \* its loop variable
  toWrite,        \* relays it has still to write
  relayList       \* its translist

starting == <<kind, shard, translist>>
handed   == <<proposals, validated>>
commit   == <<height, commits, heightOf, committer, current, executed, relayed, panicked,
              mark>>
relaying == <<upload, index, toWrite, relayList>>
vars == <<validateTxNum, stage, starting, pool, batches, handed, commit, relaying>>

\* Of no transactions: the windows a block executes, the batches it has.
Nothing == [s \in Shards |-> [internal |-> {}, cross |-> {}]]

NotYet == [shard |-> 1, read |-> 0, answered |-> TRUE, height |-> 0,
           internal |-> {}, cross |-> {}]

Init ==
  /\ validateTxNum \in ValidateTxNums
  /\ stage     = "starting"
  /\ kind      = Internal
  /\ shard     = 1
  /\ translist = {}
  /\ pool      = [k \in Kinds |-> [s \in Shards |-> 0]]
  /\ batches   = [k \in Kinds |-> [s \in Shards |-> <<>>]]
  /\ height    = 0
  /\ proposals = [n \in Heights |-> Nothing]
  /\ validated = NotYet
  /\ commits   = 0
  /\ heightOf  = [m \in 0..MaxHeight |-> 0]
  /\ committer = "idle"
  /\ current   = 1
  /\ executed  = [n \in Heights |-> Nothing]
  /\ relayed   = [s \in Shards |-> {}]
  /\ panicked  = {}
  /\ mark      = [s \in Shards |-> 0]
  /\ upload    = [s \in Shards |-> "open"]
  /\ index     = [s \in Shards |-> 0]
  /\ toWrite   = [s \in Shards |-> 0]
  /\ relayList = [s \in Shards |-> {}]

-----------------------------------------------------------------------------
(* initializeTransactions.                                                 *)

\* Mutant: a batch is closed when it has one transaction too many.
FullAndOne(list) == Cardinality(list) > validateTxNum

IsBatch(list) == Cardinality(list) = validateTxNum

\* One iteration: a transaction is made, put in the batch being collected, which
\* is stored when it is full, and appended to the pool.  The batch is carried
\* over from a shard to the next, but not from a kind to the next.
Generate ==
  LET list  == translist \cup {<<shard, pool[kind][shard] + 1>>}
      rest  == IF IsBatch(list) THEN {} ELSE list
      ended == pool'[kind][shard] = TxNum
  IN
  /\ stage = "starting"
  /\ batches' = IF IsBatch(list)
                THEN [batches EXCEPT ![kind][shard] = Append(@, list)] ELSE batches
  /\ pool' = [pool EXCEPT ![kind][shard] = @ + 1]
  /\ \/ ~ended /\ translist' = rest /\ UNCHANGED <<kind, shard, stage>>
     \/ /\ ended /\ shard < ShardNum
        /\ translist' = rest /\ shard' = shard + 1
        /\ UNCHANGED <<kind, stage>>
     \* A second kind is made only if there is a second shard (line 307).
     \/ /\ ended /\ shard = ShardNum /\ kind = Internal /\ ShardNum > 1
        /\ translist' = {} /\ shard' = 1 /\ kind' = Cross
        /\ UNCHANGED stage
     \/ /\ ended /\ shard = ShardNum /\ (kind = Cross \/ ShardNum = 1)
        /\ translist' = {} /\ stage' = "serving"
        /\ UNCHANGED <<kind, shard>>
  /\ UNCHANGED <<validateTxNum, handed, commit, relaying>>

-----------------------------------------------------------------------------
(* PackTransaction.                                                        *)

\* The two batches PackBatchTrans slices out: start:end has length one.  Its
\* relay batch, the last that was stored, is in no property here.
PackBatchTrans(h, s) ==
  LET b == 1 + (h % Len(batches[Internal][s])) IN
  [internal |-> batches[Internal][s][b], cross |-> batches[Cross][s][b]]

\* Mutant: the batches of the next block, not of the one two blocks later.
NextBlock == height + 1

\* The batches a proposal has are those of two blocks ahead.
BatchHeight == height + 2

\* An order client asks for the content of the next block.  With no batch in a
\* pool the remainder, or the slice, panics and there is no proposal.
PackTransaction ==
  /\ stage = "serving"
  /\ height < MaxHeight
  /\ \A s \in Shards, k \in {Internal, Cross} : batches[k][s] # <<>>
  /\ proposals' = [proposals EXCEPT ![height + 1] =
                     [s \in Shards |-> PackBatchTrans(BatchHeight, s)]]
  /\ UNCHANGED <<validateTxNum, stage, starting, pool, batches, validated, commit,
                 relaying>>

-----------------------------------------------------------------------------
(* Windows: PackValidateTrans.                                             *)

\* The remainder of Go, which has the sign of the dividend: with an empty table
\* h is -1.
Remainder(a, n) == IF a >= 0 THEN a % n ELSE -((-a) % n)

Start(h, s) == Remainder(h * validateTxNum, pool[Internal][s])

\* Mutant: the end of the last window wraps around to 0.
WrappedEnd(h, s) == ((h + 1) * validateTxNum) % pool[Internal][s]

End(h, s) ==
  LET e == ((h + 1) * validateTxNum) % pool[Internal][s] IN
  IF e = 0 THEN pool[Internal][s] ELSE e

\* Mutant: windows have their last transaction in common with the next.
Overlapping(h, s) == (Start(h, s) + 1)..(End(h, s) + 1)

Window(h, s) == (Start(h, s) + 1)..End(h, s)

\* The slice expressions of PackValidateTrans are legal.
Sliceable(h, s) ==
  0 <= Start(h, s) /\ Start(h, s) <= End(h, s) /\ End(h, s) <= pool[Cross][s]

\* The newest validateTxNum relays, if there are that many.
RelayWindow(s) ==
  LET n == pool[Relay][s] IN
  IF n >= validateTxNum THEN (n - validateTxNum + 1)..n ELSE {}

-----------------------------------------------------------------------------
(* PackValidTx.                                                            *)

\* Mutant: the window of the next block.
NextWindow == height

\* The window of the block that was committed last.
ValidHeight == height - 1

\* An execution client of shard s asks what to execute.  With an empty table it is
\* handed nothing, and where the slice expression panics it gets no answer.  The
\* relays, the newest at this moment, are in no property here.
PackValidTx(s) ==
  /\ stage = "serving"
  /\ height >= 1 => Sliceable(ValidHeight, s)
  /\ LET w == IF height >= 1 THEN Window(ValidHeight, s) ELSE {} IN
     validated' = [shard |-> s, read |-> height, answered |-> FALSE, height |-> 0,
                   internal |-> w, cross |-> w]
  /\ UNCHANGED <<validateTxNum, stage, starting, pool, batches, proposals, commit,
                 relaying>>

\* The handler makes its answer: GetHeight() again.
AnswerValidTx ==
  /\ validated.answered = FALSE
  /\ validated' = [validated EXCEPT !.answered = TRUE, !.height = height]
  /\ UNCHANGED <<validateTxNum, stage, starting, pool, batches, proposals, commit,
                 relaying>>

-----------------------------------------------------------------------------
(* The commit of a block: packTx4ServerUpdate and the reset of the rounds. *)

\* The row of the block, whose content is what was handed out, is inserted in the
\* table; if that fails it is lost, and the block is executed nevertheless.
Commit ==
  /\ stage = "serving"
  /\ committer = "idle"
  /\ commits < MaxHeight
  /\ proposals[height + 1] # Nothing
  /\ \/ height' = height + 1
     \/ DBFaults /\ UNCHANGED height
  /\ commits'   = commits + 1
  /\ heightOf'  = [heightOf EXCEPT ![commits'] = height']
  /\ committer' = "packing"
  /\ current'   = 1
  /\ UNCHANGED <<validateTxNum, stage, starting, pool, batches, handed,
                 executed, relayed, panicked, mark, relaying>>

NextShard(l) ==
  IF current < ShardNum
  THEN current' = current + 1 /\ UNCHANGED committer
  ELSE current' = 1 /\ committer' = l

\* One iteration of packTx4ServerUpdate.
PackShard ==
  LET h == height - 1 IN
  /\ committer = "packing"
  /\ Sliceable(h, current)
  /\ executed' = [executed EXCEPT ![commits][current] =
                    [internal |-> Window(h, current), cross |-> Window(h, current)]]
  /\ relayed' = [relayed EXCEPT ![current] = RelayWindow(current)]
  /\ NextShard("resetting")
  /\ UNCHANGED <<validateTxNum, stage, starting, pool, batches, height, commits,
                 heightOf, handed, panicked, mark, relaying>>

\* A slice expression panics: nothing is executed, no round is reset.
PackPanics ==
  /\ committer = "packing"
  /\ ~Sliceable(height - 1, current)
  /\ executed'  = [executed EXCEPT ![commits] = Nothing]
  /\ relayed'   = [s \in Shards |-> {}]
  /\ panicked'  = panicked \cup {height}
  /\ committer' = "idle"
  /\ current'   = 1
  /\ UNCHANGED <<validateTxNum, stage, starting, pool, batches, height, commits,
                 heightOf, handed, mark, relaying>>

\* The round of a shard starts anew when its lock is free.
ResetShard ==
  /\ committer = "resetting"
  /\ upload[current] # "writing"
  /\ upload' = [upload EXCEPT ![current] = "open"]
  /\ mark'   = [mark EXCEPT ![current] = pool[Relay][current]]
  /\ NextShard("idle")
  /\ UNCHANGED <<validateTxNum, stage, starting, pool, batches, height, commits,
                 heightOf, handed, executed, relayed, panicked, index, toWrite,
                 relayList>>

-----------------------------------------------------------------------------
(* CollectRoot, from the quorum on: lines 374-398.                         *)

\* Mutant: ValidEnd is not looked at.
NotWriting(s) == upload[s] # "writing"

IsOpen(s) == upload[s] = "open"

\* Before block 1 there are no transactions to execute, hence no relays.
StartRelays(s) ==
  /\ stage = "serving"
  /\ height >= 1
  /\ IsOpen(s)
  /\ \E n \in RelayNums : toWrite' = [toWrite EXCEPT ![s] = n]
  /\ upload' = [upload EXCEPT ![s] = "writing"]
  /\ UNCHANGED <<validateTxNum, stage, starting, pool, batches, handed, commit,
                 index, relayList>>

\* Mutant: the list is not made anew after a batch has been stored.
KeptList(list) == list

NewList(list) == {}

\* One iteration of the loop at 377-393.
WriteRelay(s) ==
  LET list   == relayList[s] \cup {<<s, pool[Relay][s] + 1>>}
      closes == index[s] % validateTxNum = 0
  IN
  /\ upload[s] = "writing"
  /\ toWrite[s] > 0
  /\ \/ /\ closes
        /\ batches'   = [batches EXCEPT ![Relay][s] = Append(@, list)]
        /\ relayList' = [relayList EXCEPT ![s] = NewList(list)]
     \/ /\ ~closes
        /\ relayList' = [relayList EXCEPT ![s] = list]
        /\ UNCHANGED batches
  /\ pool'    = [pool EXCEPT ![Relay][s] = @ + 1]
  /\ index'   = [index EXCEPT ![s] = @ + 1]
  /\ toWrite' = [toWrite EXCEPT ![s] = @ - 1]
  /\ UNCHANGED <<validateTxNum, stage, starting, handed, commit, upload>>

\* What the list still has is in no batch.
EndRelays(s) ==
  /\ upload[s] = "writing"
  /\ toWrite[s] = 0
  /\ upload'    = [upload EXCEPT ![s] = "closed"]
  /\ index'     = [index EXCEPT ![s] = 0]
  /\ relayList' = [relayList EXCEPT ![s] = {}]
  /\ UNCHANGED <<validateTxNum, stage, starting, pool, batches, handed, commit,
                 toWrite>>

-----------------------------------------------------------------------------
Next ==
  \/ Generate \/ PackTransaction \/ AnswerValidTx
  \/ Commit \/ PackShard \/ PackPanics \/ ResetShard
  \/ \E s \in Active : PackValidTx(s)
  \/ \E s \in Active : StartRelays(s) \/ WriteRelay(s) \/ EndRelays(s)

Spec == Init /\ [][Next]_vars

-----------------------------------------------------------------------------
Txs == Shards \X Nat

Content(S) == [internal : SUBSET S, cross : SUBSET S]

TypeOK ==
  /\ validateTxNum \in ValidateTxNums
  /\ stage \in {"starting", "serving"}
  /\ kind \in {Internal, Cross}
  /\ shard \in Shards
  /\ translist \subseteq Txs
  /\ pool \in [Kinds -> [Shards -> Nat]]
  /\ batches \in [Kinds -> [Shards -> Seq(SUBSET Txs)]]
  /\ height \in 0..MaxHeight
  /\ proposals \in [Heights -> [Shards -> Content(Txs)]]
  /\ validated \in [shard : Shards, read : 0..height, answered : BOOLEAN,
                    height : 0..height, internal : SUBSET Nat, cross : SUBSET Nat]
  /\ commits \in height..MaxHeight
  /\ heightOf \in [0..MaxHeight -> 0..height]
  /\ committer \in {"idle", "packing", "resetting"}
  /\ current \in Shards
  /\ executed \in [Heights -> [Shards -> Content(Nat)]]
  /\ \A n \in Heights, s \in Shards :
       /\ executed[n][s].internal \subseteq 1..pool[Internal][s]
       /\ executed[n][s].cross    \subseteq 1..pool[Cross][s]
  /\ relayed \in [Shards -> SUBSET Nat]
  /\ \A s \in Shards : relayed[s] \subseteq 1..pool[Relay][s]
  /\ panicked \subseteq 0..height
  /\ mark \in [Shards -> Nat]
  /\ upload \in [Shards -> {"open", "writing", "closed"}]
  /\ index \in [Shards -> Nat]
  /\ toWrite \in [Shards -> Nat]
  /\ relayList \in [Shards -> SUBSET Txs]

\* The pools can be cut in windows, as with the defaults of setup.go.
Divides == ShardNum = 2 /\ TxNum % validateTxNum = 0

InShard(s, w) == {s} \X w

(* If ValidateTxNum divides the pools, batch b that was stored at start has
   exactly the transactions the commits execute as window b: the counting loop
   of initializeTransactions and the remainders of PackValidateTrans agree, for
   every shard and both kinds, so that what is proposed can be executed. *)
BatchesAreWindows ==
  stage = "serving" /\ Divides =>
    \A s \in Shards, k \in {Internal, Cross} :
      /\ Len(batches[k][s]) = TxNum \div validateTxNum
      /\ \A b \in 1..Len(batches[k][s]) :
           batches[k][s][b] = InShard(s, Window(b - 1, s))

Packed(m) == m < commits \/ (m = commits /\ committer \in {"idle", "resetting"})

(* A commit executes what was proposed two blocks before the newest block in the
   table, of both kinds and in every shard: the +2 of PackTransaction, the +1 of
   the proposal's height and the -1 of packTx4ServerUpdate form one pipeline, also
   where the windows wrap around.  The newest block is the committed one; only if
   its row was lost it is the block before, whose content is executed again. *)
ExecutedWasProposed ==
  Divides =>
    \A m \in 1..commits, s \in Shards :
      LET n == heightOf[m] IN
      Packed(m) /\ n >= 3 =>
        /\ proposals[n - 2][s].internal = InShard(s, executed[m][s].internal)
        /\ proposals[n - 2][s].cross    = InShard(s, executed[m][s].cross)

(* An execution client is handed the very transactions that are executed by the
   commit of the block whose height it is told, whether the handler packs them
   before, while or after the committing goroutine does with a height of its own.
   If a block was inserted while the request was handled it is told a later height
   (line 347), and the transactions are those of the block that was the newest when
   the request was made: never those of a block it is not told of yet.  (Its relays
   may differ from those of the commit.) *)
ValidatedIsExecuted ==
  LET v == validated IN
  v.answered /\ v.internal # {} =>
    /\ v.read <= v.height
    /\ \A m \in 1..commits :
         LET e == executed[m][v.shard] IN
         heightOf[m] = v.read /\ e.internal # {} =>
           e.internal = v.internal /\ e.cross = v.cross

Times(s, i) == Cardinality({m \in Heights : i \in executed[m][s].internal})

\* Blocks whose row was not inserted.
LostRows == commits - height

(* No transaction of the pool is executed twice before all others of its shard
   have been executed once, and so on: windows neither overlap nor leave gaps.
   Only a lost row has a window executed once more. *)
EvenlyExecuted ==
  Divides /\ committer # "packing" =>
    \A s \in Shards : \A i, j \in 1..pool[Internal][s] :
      Times(s, i) <= Times(s, j) + 1 + LostRows

(* If ValidateTxNum divides the pool, the commit of a block panics in a slice
   expression only while the table is empty, that is when the rows of this block
   and of all before it were lost (window -1); otherwise it may at any height, and
   the command line accepts any ValidateTxNum. *)
WindowsArePackable == Divides => panicked \subseteq {0}

(* No relay transaction is in two batches, and no batch of relays is larger than
   the others, although the first of an upload has one element and its list is
   cut by the index, not by its length. *)
RelayBatchesAreDisjoint ==
  \A s \in Shards :
    LET b == batches[Relay][s] IN
    \A i \in 1..Len(b) :
      /\ Cardinality(b[i]) <= validateTxNum
      /\ \A j \in 1..Len(b) : i # j => b[i] \cap b[j] = {}

\* Relays of s that have been written in its round.
NewRelays(s) == (mark[s] + 1)..pool[Relay][s]

(* If no upload has more relays than a window, a commit that finds at least a
   window of relays in the pool of a shard leaves out none that was written there
   in the round it ends: the window is the newest relays, with or without some that
   have been executed before, and nothing ties it to a round but ValidEnd, which
   lets one upload write in a round, and the reset, which waits for an upload that
   is writing.  (A pool with less than a window has none executed, and when it has
   one its oldest relays may be left out for ever, as may those that are written
   between the packing and the reset of a shard.) *)
NewRelaysAreExecuted ==
  [][\A s \in Shards :
       /\ PackShard /\ current = s
       /\ pool[Relay][s] >= validateTxNum
       /\ \A n \in RelayNums : n <= validateTxNum
       => NewRelays(s) \subseteq relayed'[s]]_vars

-----------------------------------------------------------------------------
(* The inductive invariant behind the properties above.                    *)

Before(k, s) == k < kind \/ (k = kind /\ s < shard)
After(k, s)  == k > kind \/ (k = kind /\ s > shard)

\* The pools are filled one after the other.
FillInv ==
  /\ stage = "starting" =>
       /\ kind = Cross => ShardNum = 2
       /\ pool[kind][shard] < TxNum
       /\ \A k \in {Internal, Cross}, s \in Shards :
            /\ Before(k, s) => pool[k][s] = TxNum
            /\ After(k, s)  => pool[k][s] = 0
  /\ stage = "serving" =>
       \A s \in Shards : /\ pool[Internal][s] = TxNum
                         /\ pool[Cross][s] = IF ShardNum = 2 THEN TxNum ELSE 0

\* The b-th validateTxNum transactions of a pool.
Chunk(s, b) == InShard(s, ((b - 1) * validateTxNum + 1)..(b * validateTxNum))

\* Transactions of a kind that come before those of shard s, and with those it has.
Ahead(s)   == (s - 1) * TxNum
Made(k, s) == Ahead(s) + pool[k][s]

\* A batch is stored with each validateTxNum-th transaction of a kind, whatever the
\* shard: both kinds have the same number of batches in a shard.
SizeInv ==
  /\ \A k \in {Internal, Cross}, s \in Shards :
       Len(batches[k][s]) = (Made(k, s) \div validateTxNum) - (Ahead(s) \div validateTxNum)
  /\ stage = "starting" =>
       /\ IsFiniteSet(translist)
       /\ Cardinality(translist) = Made(kind, shard) % validateTxNum
       /\ \A t \in translist : t[1] < shard \/ (t[1] = shard /\ t[2] <= pool[kind][shard])

\* The batches are the chunks of what is in the pool, and translist is the rest.
BatchInv ==
  Divides =>
    /\ \A k \in {Internal, Cross}, s \in Shards : \A b \in 1..Len(batches[k][s]) :
         batches[k][s][b] = Chunk(s, b)
    /\ stage = "starting" =>
         translist = InShard(shard,
           (Len(batches[kind][shard]) * validateTxNum + 1)..pool[kind][shard])

WindowOf(h, s) == [internal |-> Window(h, s), cross |-> Window(h, s)]

Empty == [internal |-> {}, cross |-> {}]

\* A commit adds at most one row to the table.
RowsInv ==
  /\ heightOf[0] = 0 /\ heightOf[commits] = height
  /\ \A m \in 1..commits : heightOf[m] \in {heightOf[m - 1], heightOf[m - 1] + 1}

\* What is handed out or executed is the window of its block, whoever packs it.
WindowInv ==
  /\ stage = "starting" => /\ height = 0 /\ commits = 0 /\ committer = "idle"
                           /\ validated.internal = {}
  /\ committer # "idle" => commits >= 1
  /\ \A m \in Heights, s \in Shards :
       executed[m][s].internal # {} =>
         m <= commits /\ executed[m][s] = WindowOf(heightOf[m] - 1, s)
  /\ validated.internal # {} =>
       LET w == Window(validated.read - 1, validated.shard) IN
       validated.internal = w /\ validated.cross = w
  /\ validated.answered => validated.read <= validated.height

\* Commits that have packed shard s.
PackedOf(s) == IF committer = "packing" /\ s >= current THEN commits - 1 ELSE commits

Parts == TxNum \div validateTxNum

\* What commit m executes of shard s if the pools can be cut.
Executes(m, s) ==
  IF Sliceable(heightOf[m] - 1, s) THEN WindowOf(heightOf[m] - 1, s) ELSE Empty

\* If the pools can be cut, no block is left out.
PipelineInv ==
  Divides =>
    /\ panicked \subseteq {0}
    /\ \A n \in Heights :
         /\ n <= height => proposals[n] # Nothing
         /\ proposals[n] # Nothing =>
              \A s \in Shards :
                /\ proposals[n][s].internal = Chunk(s, 1 + ((n + 1) % Parts))
                /\ proposals[n][s].cross    = Chunk(s, 1 + ((n + 1) % Parts))
    /\ \A m \in Heights, s \in Shards :
         executed[m][s] = IF m <= PackedOf(s) THEN Executes(m, s) ELSE Empty

\* Times transaction i has been executed by the first m blocks in the table.
Due(i, m) ==
  (m \div Parts) + (IF (i - 1) \div validateTxNum < m % Parts THEN 1 ELSE 0)

\* Blocks in the table, and lost ones, of which shard s has been packed.
RowsOf(s) == heightOf[PackedOf(s)]
LostOf(s) == PackedOf(s) - RowsOf(s)

TimesInv ==
  Divides => \A s \in Shards : \A i \in 1..TxNum :
    /\ Due(i, RowsOf(s)) <= Times(s, i)
    /\ Times(s, i) <= Due(i, RowsOf(s)) + LostOf(s)

\* The list of an upload is disjoint from the batches, and shorter than one.
RelayInv ==
  \A s \in Shards :
    /\ relayList[s] \subseteq InShard(s, 1..pool[Relay][s])
    /\ IsFiniteSet(relayList[s])
    /\ Cardinality(relayList[s]) =
         IF index[s] = 0 THEN 0 ELSE (index[s] - 1) % validateTxNum
    /\ \A i \in 1..Len(batches[Relay][s]) :
         /\ batches[Relay][s][i] \subseteq InShard(s, 1..pool[Relay][s])
         /\ batches[Relay][s][i] \cap relayList[s] = {}

IndInv ==
  /\ TypeOK /\ FillInv /\ SizeInv /\ BatchInv /\ RowsInv /\ WindowInv /\ PipelineInv
  /\ TimesInv /\ RelayInv /\ RelayBatchesAreDisjoint

\* In a round a shard is written the relays of at most one upload: what
\* NewRelaysAreExecuted rests on, besides the types.
RoundInv ==
  \A s \in Shards :
    /\ mark[s] <= pool[Relay][s]
    /\ upload[s] = "open" => pool[Relay][s] = mark[s]
    /\ upload[s] # "open" => (pool[Relay][s] - mark[s]) + toWrite[s] \in RelayNums
=============================================================================
