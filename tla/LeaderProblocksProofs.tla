----------------------- MODULE LeaderProblocksProofs -----------------------
(***************************************************************************)
(* Proofs about LeaderProblocks, for every committee size, number of       *)
(* shards, set of clients and number of rounds.                            *)
(***************************************************************************)
EXTENDS LeaderProblocks, FiniteSetTheorems, TLAPS

\* NoClient, the value of a free lock.
USE DEF Unlocked

-----------------------------------------------------------------------------
(* The operators of the model.                                             *)

LEMMA CurrentTally ==
  ASSUME TypeOK
  PROVE  /\ Current \in Nat \ {0}
         /\ \A i \in 1..Current : tallies[i] \in [Problocks -> Nat]
BY DEF TypeOK, Current

LEMMA AddVoteType ==
  ASSUME NEW m \in [Problocks -> Nat], NEW p \in Problocks
  PROVE  AddVote(m, p) \in [Problocks -> Nat]
BY DEF AddVote

LEMMA MakeBlockType ==
  ASSUME NEW p \in Problocks, NEW n \in Nat
  PROVE  /\ MakeBlock(p, n) \in BlockRecords
         /\ MakeBlock(p, n).vote = n
         /\ MakeBlock(p, n).height = p.height
         /\ ProblockOf(MakeBlock(p, n)) = p
BY DEF MakeBlock, BlockRecords, Problocks, ProblockOf

-----------------------------------------------------------------------------
(* Type correctness.                                                       *)

LEMMA CountVoteType ==
  ASSUME TypeOK, NEW c \in Clients, CountVote(c), request[c] \in Problocks
  PROVE  /\ tallies' \in Seq([Problocks -> Nat])
         /\ Len(tallies') = Current
         /\ Current' = Current
         /\ voted' \subseteq Clients \X Problocks
         /\ \A i \in 1..Current, p \in Problocks :
              tallies'[i][p] = tallies[i][p]
                               + (IF i = captured[c] /\ p = request[c] THEN 1 ELSE 0)
<1>1. captured[c] \in 1..Current
  BY DEF TypeOK
<1>2. tallies[captured[c]] \in [Problocks -> Nat]
  BY <1>1, CurrentTally
<1>3. AddVote(tallies[captured[c]], request[c]) \in [Problocks -> Nat]
  BY <1>2, AddVoteType
<1>4. tallies' = [tallies EXCEPT ![captured[c]] = AddVote(tallies[captured[c]], request[c])]
  BY DEF CountVote
<1>5. tallies' \in Seq([Problocks -> Nat]) /\ Len(tallies') = Len(tallies)
  BY <1>1, <1>3, <1>4 DEF TypeOK, Current
<1>6. voted' \subseteq Clients \X Problocks
  BY DEF CountVote, TypeOK
<1>7. ASSUME NEW i \in 1..Current, NEW p \in Problocks
      PROVE  tallies'[i][p] = tallies[i][p]
                              + (IF i = captured[c] /\ p = request[c] THEN 1 ELSE 0)
  <2>1. tallies[i] \in [Problocks -> Nat]
    BY CurrentTally
  <2>2. CASE i = captured[c]
    BY <1>1, <1>2, <1>4, <2>1, <2>2 DEF AddVote, TypeOK, Current
  <2>3. CASE i # captured[c]
    BY <1>1, <1>4, <2>1, <2>3 DEF TypeOK, Current
  <2>4. QED
    BY <2>2, <2>3
<1>8. QED
  BY <1>5, <1>6, <1>7 DEF Current

LEMMA GetHeightType ==
  ASSUME TypeOK, TableInv
  PROVE  GetHeight \in Nat
BY DEF TypeOK, TableInv, GetHeight, BlockRecords, Heights

LEMMA InitTypes == Init => TypeOK /\ RequestInv /\ TableInv
<1> SUFFICES ASSUME Init PROVE TypeOK /\ RequestInv /\ TableInv
  OBVIOUS
<1>1. EmptyTally \in [Problocks -> Nat]
  BY DEF EmptyTally
<1>2. tallies \in Seq([Problocks -> Nat]) /\ Current = 1
  BY <1>1 DEF Init, Current
<1>3. TypeOK
  BY <1>2, ConstantsAssumption DEF Init, TypeOK, PCs, Answers
<1>4. RequestInv /\ TableInv
  BY DEF Init, RequestInv, TableInv
<1>5. QED
  BY <1>3, <1>4

LEMMA RegisterTypes ==
  ASSUME TypeOK, RequestInv, TableInv, NEW c \in Clients, Register(c)
  PROVE  TypeOK' /\ RequestInv' /\ TableInv'
<1> USE DEF Register, handler, ledgers
<1>1. TypeOK'
  BY DEF TypeOK, Current
<1>2. RequestInv' /\ TableInv'
  BY DEF RequestInv, TableInv
<1>3. QED
  BY <1>1, <1>2

LEMMA UploadTypes ==
  ASSUME TypeOK, RequestInv, TableInv, NEW c \in Clients, Upload(c)
  PROVE  TypeOK' /\ RequestInv' /\ TableInv'
<1>1. PICK p \in Problocks :
        /\ request'  = [request EXCEPT ![c] = p]
        /\ uploaded' = [uploaded EXCEPT ![c] = p.height]
  BY DEF Upload
<1>2. p.height \in 0..MaxHeight
  BY ConstantsAssumption DEF Problocks, Heights
<1>3. Current \in 1..Current
  BY CurrentTally
<1>4. TypeOK'
  BY <1>1, <1>2, <1>3 DEF Upload, TypeOK, ledgers, PCs, Current
<1>5. RequestInv'
  BY <1>1 DEF Upload, TypeOK, RequestInv
<1>6. TableInv'
  BY DEF Upload, TableInv, ledgers
<1>7. QED
  BY <1>4, <1>5, <1>6

LEMMA AnswerTypes ==
  ASSUME TypeOK, RequestInv, TableInv, NEW c \in Clients, Acknowledge(c) \/ Refuse(c)
  PROVE  TypeOK' /\ RequestInv' /\ TableInv'
<1>1. CountVote(c) /\ request[c] \in Problocks
  BY DEF Acknowledge, Refuse, CountVote, RequestInv
<1>2. /\ tallies' \in Seq([Problocks -> Nat])
      /\ Current' = Current
      /\ voted' \subseteq Clients \X Problocks
  BY <1>1, CountVoteType
<1>3. PICK a \in Answers : Return(c, a)
  BY DEF Acknowledge, Refuse, Answers
<1>4. UNCHANGED <<committee, nextShard, leaderLock, chain, blocks, applied>>
  BY DEF Acknowledge, Refuse, CountVote, ledgers
<1>5. TypeOK'
  BY <1>2, <1>3, <1>4 DEF Return, TypeOK, PCs
<1>6. RequestInv' /\ TableInv'
  BY <1>3, <1>4 DEF Return, RequestInv, TableInv, TypeOK
<1>7. QED
  BY <1>5, <1>6

\* What AppendToChain appends: the winner of the current tally.
LEMMA AppendedBlock ==
  ASSUME TypeOK, RequestInv, TableInv, NEW c \in Clients, AppendToChain(c)
  PROVE  \E p \in Problocks :
           /\ tallies'[Current][p] \in Nat
           /\ tallies'[Current][p] >= LeaderQuorum
           /\ p.height = GetHeight + 1
           /\ chain' = Append(chain, MakeBlock(p, tallies'[Current][p]))
<1>1. CountVote(c) /\ request[c] \in Problocks
  BY DEF AppendToChain, CountVote, RequestInv
<1>2. tallies'[Current] \in [Problocks -> Nat]
  BY <1>1, CountVoteType, CurrentTally
<1>3. PICK p \in Leading(tallies'[Current]) :
        /\ Accepts(tallies'[Current], p)
        /\ chain' = Append(chain, MakeBlock(p, tallies'[Current][p]))
  BY DEF AppendToChain
<1>4. p \in Problocks
  BY <1>3 DEF Leading
<1>5. tallies'[Current][p] \in Nat
  BY <1>2, <1>4
<1>6. tallies'[Current][p] >= LeaderQuorum /\ p.height = GetHeight + 1
  BY <1>3, <1>4, <1>5, MakeBlockType DEF Accepts, VerifyBlock
<1>7. QED
  BY <1>3, <1>4, <1>5, <1>6

LEMMA AppendTypes ==
  ASSUME TypeOK, RequestInv, TableInv, NEW c \in Clients, AppendToChain(c)
  PROVE  TypeOK' /\ RequestInv' /\ TableInv'
<1>1. CountVote(c) /\ request[c] \in Problocks
  BY DEF AppendToChain, CountVote, RequestInv
<1>2. /\ tallies' \in Seq([Problocks -> Nat])
      /\ Current' = Current
      /\ voted' \subseteq Clients \X Problocks
  BY <1>1, CountVoteType
<1>3. PICK b \in BlockRecords : chain' = Append(chain, b)
  BY AppendedBlock, MakeBlockType
<1>4. /\ UNCHANGED <<committee, nextShard, uploaded, request, captured, answer, blocks, applied>>
      /\ leaderLock' = c
      /\ pc' = [pc EXCEPT ![c] = "appended"]
  BY DEF AppendToChain, CountVote
<1>5. chain' \in Seq(BlockRecords)
  BY <1>3 DEF TypeOK
<1>6. TypeOK'
  BY <1>2, <1>4, <1>5 DEF TypeOK, PCs
<1>7. RequestInv' /\ TableInv'
  BY <1>4 DEF RequestInv, TableInv, TypeOK
<1>8. QED
  BY <1>6, <1>7

LEMMA InsertTypes ==
  ASSUME TypeOK, RequestInv, TableInv, CommitInv, NEW c \in Clients, InsertRow(c)
  PROVE  TypeOK' /\ RequestInv' /\ TableInv'
<1> DEFINE top == chain[Len(chain)]
<1>1. top \in BlockRecords
  BY DEF InsertRow, CommitInv, TypeOK
<1>2. TypeOK' /\ RequestInv'
  BY <1>1 DEF InsertRow, TypeOK, RequestInv, PCs, Current
<1>3. TableInv'
  <2>1. CASE blocks' = blocks
    BY <2>1 DEF TableInv
  <2>2. CASE blocks' = blocks \cup {top}
    <3>1. CASE blocks = {}
      BY <1>1, <2>2, <3>1 DEF TableInv, BlockRecords, Heights
    <3>2. CASE blocks # {}
      <4>1. PICK b \in blocks : \A d \in blocks : d.height <= b.height
        BY <3>2 DEF TableInv
      <4>2. \A d \in blocks \cup {top} : d.height \in Nat
        BY <1>1 DEF TypeOK, BlockRecords, Heights
      <4>3. CASE top.height <= b.height
        BY <2>2, <4>1, <4>3 DEF TableInv
      <4>4. CASE ~(top.height <= b.height)
        <5>1. \A d \in blocks' : d.height <= top.height
          BY <2>2, <4>1, <4>2, <4>4
        <5>2. QED
          BY <2>2, <5>1 DEF TableInv
      <4>5. QED
        BY <4>3, <4>4
    <3>3. QED
      BY <3>1, <3>2
  <2>3. QED
    BY <2>1, <2>2 DEF InsertRow
<1>4. QED
  BY <1>2, <1>3

LEMMA ExecuteTypes ==
  ASSUME TypeOK, RequestInv, TableInv, NEW c \in Clients,
         Execute(c) \/ ExecutePanics(c) \/ ResetShard(c)
  PROVE  TypeOK' /\ RequestInv' /\ TableInv'
<1>1. CASE Execute(c)
  <2>1. Window \in Nat
    BY <1>1, GetHeightType DEF Execute, Window
  <2>2. applied' \in Seq(Nat) /\ nextShard' \in 1..ShardNum
    BY <1>1, <2>1, ConstantsAssumption DEF Execute, TypeOK
  <2>3. TypeOK'
    BY <1>1, <2>2 DEF Execute, TypeOK, PCs, Current
  <2>4. RequestInv' /\ TableInv'
    BY <1>1 DEF Execute, RequestInv, TableInv, TypeOK
  <2>5. QED
    BY <2>3, <2>4
<1>2. CASE ExecutePanics(c)
  <2>1. TypeOK'
    BY <1>2 DEF ExecutePanics, Return, TypeOK, PCs, Answers, ledgers, Current
  <2>2. RequestInv' /\ TableInv'
    BY <1>2 DEF ExecutePanics, Return, RequestInv, TableInv, TypeOK, ledgers
  <2>3. QED
    BY <2>1, <2>2
<1>3. CASE ResetShard(c)
  <2>1. EmptyTally \in [Problocks -> Nat]
    BY DEF EmptyTally
  <2>2. tallies' \in Seq([Problocks -> Nat]) /\ Current' = Current + 1
    BY <1>3, <2>1 DEF ResetShard, NewTallies, TypeOK, Current
  <2>3. captured \in [Clients -> 1..Current']
    BY <2>2 DEF TypeOK
  <2>4. UNCHANGED <<committee, uploaded, captured, chain, blocks, applied, voted>>
    BY <1>3 DEF ResetShard, Return, handler, ledgers
  <2>5. CASE ~LastShard
    <3>1. nextShard' \in 1..ShardNum
      BY <1>3, <2>5, ConstantsAssumption DEF ResetShard, LastShard, TypeOK
    <3>2. UNCHANGED <<pc, request, answer, leaderLock>>
      BY <1>3, <2>5 DEF ResetShard, handler
    <3>3. TypeOK'
      BY <2>2, <2>3, <2>4, <3>1, <3>2 DEF TypeOK
    <3>4. RequestInv' /\ TableInv'
      BY <2>4, <3>2 DEF RequestInv, TableInv
    <3>5. QED
      BY <3>3, <3>4
  <2>6. CASE LastShard
    <3>1. Return(c, "onchain") /\ leaderLock' = NoClient /\ UNCHANGED nextShard
      BY <1>3, <2>6 DEF ResetShard
    <3>2. TypeOK'
      BY <2>2, <2>3, <2>4, <3>1 DEF Return, TypeOK, PCs, Answers
    <3>3. RequestInv' /\ TableInv'
      BY <2>4, <3>1 DEF Return, RequestInv, TableInv, TypeOK
    <3>4. QED
      BY <3>2, <3>3
  <2>7. QED
    BY <2>5, <2>6
<1>4. QED
  BY <1>1, <1>2, <1>3
-----------------------------------------------------------------------------
(* LeaderLock.                                                             *)

LEMMA InitLock == Init => LockInv /\ CommitInv
BY ConstantsAssumption DEF Init, LockInv, CommitInv, Holding

LEMMA StepLock ==
  ASSUME TypeOK, RequestInv, TableInv, LockInv, CommitInv, [Next]_vars
  PROVE  LockInv' /\ CommitInv'
<1> USE ConstantsAssumption DEF LockInv, CommitInv, Holding
<1>1. CASE UNCHANGED vars
  BY <1>1 DEF vars, handler, ledgers
<1>2. ASSUME NEW c \in Clients, Register(c)
      PROVE  LockInv' /\ CommitInv'
  BY <1>2 DEF Register, handler, ledgers
<1>3. ASSUME NEW c \in Clients, Upload(c)
      PROVE  LockInv' /\ CommitInv'
  BY <1>3 DEF Upload, TypeOK, ledgers
<1>4. ASSUME NEW c \in Clients, Acknowledge(c) \/ Refuse(c)
      PROVE  LockInv' /\ CommitInv'
  <2>1. /\ pc[c] = "waiting"
        /\ pc' = [pc EXCEPT ![c] = "idle"]
        /\ UNCHANGED <<leaderLock, chain>>
    BY <1>4 DEF Acknowledge, Refuse, CountVote, Return, ledgers
  <2>2. QED
    BY <2>1 DEF TypeOK
<1>5. ASSUME NEW c \in Clients, AppendToChain(c)
      PROVE  LockInv' /\ CommitInv'
  <2>1. /\ leaderLock = NoClient /\ leaderLock' = c
        /\ pc' = [pc EXCEPT ![c] = "appended"]
    BY <1>5 DEF AppendToChain, CountVote
  <2>2. LockInv'
    BY <2>1 DEF TypeOK
  <2>3. PICK b \in BlockRecords : chain' = Append(chain, b)
    BY <1>5, AppendedBlock, MakeBlockType
  <2>4. Len(chain') >= 1
    BY <2>3 DEF TypeOK
  <2>5. QED
    BY <2>2, <2>4
<1>6. ASSUME NEW c \in Clients, InsertRow(c)
      PROVE  LockInv' /\ CommitInv'
  BY <1>6 DEF InsertRow, TypeOK
<1>7. ASSUME NEW c \in Clients, Execute(c)
      PROVE  LockInv' /\ CommitInv'
  BY <1>7 DEF Execute, TypeOK
<1>8. ASSUME NEW c \in Clients, ExecutePanics(c)
      PROVE  LockInv' /\ CommitInv'
  BY <1>8 DEF ExecutePanics, Return, TypeOK, ledgers
<1>9. ASSUME NEW c \in Clients, ResetShard(c)
      PROVE  LockInv' /\ CommitInv'
  <2>1. CASE ~LastShard
    BY <1>9, <2>1 DEF ResetShard, handler, ledgers
  <2>2. CASE LastShard
    BY <1>9, <2>2 DEF ResetShard, Return, TypeOK, ledgers
  <2>3. QED
    BY <2>1, <2>2
<1>10. QED
  BY <1>1, <1>2, <1>3, <1>4, <1>5, <1>6, <1>7, <1>8, <1>9 DEF Next, Handle

LEMMA StepTypes ==
  ASSUME TypeOK, RequestInv, TableInv, CommitInv, [Next]_vars
  PROVE  TypeOK' /\ RequestInv' /\ TableInv'
<1>1. CASE UNCHANGED vars
  <2>1. TypeOK'
    BY <1>1 DEF TypeOK, vars, handler, ledgers, Current
  <2>2. RequestInv' /\ TableInv'
    BY <1>1 DEF RequestInv, TableInv, vars, handler, ledgers
  <2>3. QED
    BY <2>1, <2>2
<1>2. ASSUME NEW c \in Clients, Register(c) \/ Upload(c) \/ Handle(c)
      PROVE  TypeOK' /\ RequestInv' /\ TableInv'
  BY <1>2, RegisterTypes, UploadTypes, AnswerTypes, AppendTypes, InsertTypes,
     ExecuteTypes DEF Handle
<1>3. QED
  BY <1>1, <1>2 DEF Next

-----------------------------------------------------------------------------
(* The chain, the block table and the windows executed.                    *)

\* The table holds the first k blocks, so the height it reports is k.
LEMMA HeightOfTable ==
  ASSUME TypeOK, Chained, Persisted \in 0..Len(chain)
  PROVE  GetHeight = Persisted
<1>1. \A i \in 1..Persisted : chain[i].height = i
  BY DEF Chained, TypeOK
<1>2. CASE Persisted = 0
  BY <1>2 DEF Chained, GetHeight
<1>3. CASE Persisted # 0
  <2> DEFINE top == chain[Persisted]
  <2>1. top \in blocks
    BY <1>3 DEF Chained
  <2>2. \A d \in blocks : d.height <= top.height
    BY <1>1, <1>3 DEF Chained
  <2>3. PICK b \in blocks : /\ \A d \in blocks : d.height <= b.height
                            /\ GetHeight = b.height
    BY <2>1, <2>2 DEF GetHeight
  <2>4. PICK i \in 1..Persisted : b = chain[i]
    BY <2>3 DEF Chained
  <2>5. b.height = i /\ top.height = Persisted
    BY <1>1, <1>3, <2>4
  <2>6. QED
    BY <2>1, <2>3, <2>4, <2>5
<1>4. QED
  BY <1>2, <1>3

\* With the lock free, or its holder resetting, nothing is between append and
\* execution.
LEMMA QuietCounts ==
  ASSUME TypeOK, \A c \in Clients : pc[c] \notin {"appended", "inserted"}
  PROVE  Persisted = Len(chain) /\ Executed = Len(chain) /\ Len(chain) \in Nat
BY DEF Persisted, Executed, TypeOK

LEMMA FreeLock ==
  ASSUME LockInv, leaderLock = NoClient
  PROVE  \A c \in Clients : pc[c] \notin Holding
BY ConstantsAssumption DEF LockInv

LEMMA OnlyHolder ==
  ASSUME LockInv, NEW c \in Clients, pc[c] \in Holding
  PROVE  \A d \in Clients : d # c => pc[d] \notin Holding
BY DEF LockInv

LEMMA AppendedCounts ==
  ASSUME TypeOK, LockInv, CommitInv, NEW c \in Clients, pc[c] = "appended"
  PROVE  /\ Len(chain) \in Nat \ {0}
         /\ Persisted = Len(chain) - 1
         /\ Executed = Len(chain) - 1
<1>1. \A d \in Clients : pc[d] # "inserted"
  BY OnlyHolder DEF Holding
<1>2. Len(chain) \in Nat \ {0}
  BY DEF CommitInv, TypeOK
<1>3. QED
  BY <1>1, <1>2 DEF Persisted, Executed

LEMMA InsertedCounts ==
  ASSUME TypeOK, LockInv, CommitInv, NEW c \in Clients, pc[c] = "inserted"
  PROVE  /\ Len(chain) \in Nat \ {0}
         /\ Persisted = Len(chain)
         /\ Executed = Len(chain) - 1
<1>1. \A d \in Clients : pc[d] # "appended"
  BY OnlyHolder DEF Holding
<1>2. Len(chain) \in Nat \ {0}
  BY DEF CommitInv, TypeOK
<1>3. QED
  BY <1>1, <1>2 DEF Persisted, Executed

\* A step that leaves chain, table and windows alone, and enters or leaves no
\* commit, keeps them matched.
LEMMA ChainedFrame ==
  ASSUME TypeOK, Chained, UNCHANGED <<chain, blocks, applied>>,
         \A d \in Clients : \/ pc'[d] = pc[d]
                            \/ {pc[d], pc'[d]} \cap {"appended", "inserted"} = {}
  PROVE  Chained'
<1>1. /\ (\E d \in Clients : pc'[d] = "appended") <=> (\E d \in Clients : pc[d] = "appended")
      /\ (\E d \in Clients : pc'[d] = "inserted") <=> (\E d \in Clients : pc[d] = "inserted")
  OBVIOUS
<1>2. Persisted' = Persisted /\ Executed' = Executed
  BY <1>1 DEF Persisted, Executed
<1>3. QED
  BY <1>2 DEF Chained

LEMMA AppendChained ==
  ASSUME TypeOK, RequestInv, TableInv, LockInv, Chained,
         NEW c \in Clients, AppendToChain(c)
  PROVE  Chained'
<1>1. /\ leaderLock = NoClient
      /\ pc' = [pc EXCEPT ![c] = "appended"]
      /\ UNCHANGED <<blocks, applied>>
  BY DEF AppendToChain, CountVote
<1>2. Persisted = Len(chain) /\ Executed = Len(chain) /\ Len(chain) \in Nat
  BY <1>1, FreeLock, QuietCounts DEF Holding
<1>3. GetHeight = Len(chain)
  BY <1>2, HeightOfTable
<1>4. PICK b \in BlockRecords : b.height = Len(chain) + 1 /\ chain' = Append(chain, b)
  BY <1>3, AppendedBlock, MakeBlockType
<1>5. /\ Len(chain') = Len(chain) + 1
      /\ \A i \in 1..Len(chain) : chain'[i] = chain[i]
      /\ chain'[Len(chain) + 1] = b
  BY <1>4 DEF TypeOK
<1>6. pc'[c] = "appended" /\ \A d \in Clients : pc'[d] # "inserted"
  BY <1>1, FreeLock DEF TypeOK, Holding
<1>7. Persisted' = Len(chain) /\ Executed' = Len(chain)
  BY <1>2, <1>5, <1>6 DEF Persisted, Executed
<1>8. \A i \in 1..Len(chain') : chain'[i].height = i
  BY <1>2, <1>4, <1>5 DEF Chained
<1>9. blocks' = {chain'[i] : i \in 1..Persisted'}
  BY <1>1, <1>2, <1>5, <1>7 DEF Chained
<1>10. QED
  BY <1>1, <1>2, <1>7, <1>8, <1>9 DEF Chained
LEMMA InsertChained ==
  ASSUME TypeOK, LockInv, CommitInv, Chained, NEW c \in Clients, InsertRow(c),
         blocks' = blocks \cup {chain[Len(chain)]}
  PROVE  Chained'
<1>1. /\ pc[c] = "appended"
      /\ pc' = [pc EXCEPT ![c] = "inserted"]
      /\ blocks' = blocks \cup {chain[Len(chain)]}
      /\ UNCHANGED <<chain, applied>>
  BY DEF InsertRow
<1>2. /\ Len(chain) \in Nat \ {0}
      /\ Persisted = Len(chain) - 1
      /\ Executed = Len(chain) - 1
  BY <1>1, AppendedCounts
<1>3. pc'[c] = "inserted" /\ \A d \in Clients : pc'[d] # "appended"
  BY <1>1, OnlyHolder DEF TypeOK, Holding
<1>4. Persisted' = Len(chain) /\ Executed' = Len(chain) - 1
  BY <1>1, <1>2, <1>3 DEF Persisted, Executed
<1>5. 1..Len(chain) = 1..(Len(chain) - 1) \cup {Len(chain)}
  BY <1>2
<1>6. blocks' = {chain'[i] : i \in 1..Persisted'}
  BY <1>1, <1>2, <1>4, <1>5 DEF Chained
<1>7. QED
  BY <1>1, <1>2, <1>4, <1>6 DEF Chained

LEMMA ExecuteChained ==
  ASSUME TypeOK, LockInv, CommitInv, Chained, NEW c \in Clients, Execute(c)
  PROVE  Chained'
<1>1. /\ pc[c] = "inserted"
      /\ pc' = [pc EXCEPT ![c] = "resetting"]
      /\ applied' = Append(applied, GetHeight - 1)
      /\ UNCHANGED <<chain, blocks>>
  BY DEF Execute, Window
<1>2. /\ Len(chain) \in Nat \ {0}
      /\ Persisted = Len(chain)
      /\ Executed = Len(chain) - 1
  BY <1>1, InsertedCounts
<1>3. \A d \in Clients : pc'[d] \notin {"appended", "inserted"}
  BY <1>1, OnlyHolder DEF TypeOK, Holding
<1>4. Persisted' = Len(chain) /\ Executed' = Len(chain)
  BY <1>1, <1>2, <1>3 DEF Persisted, Executed
<1>5. GetHeight = Len(chain)
  BY <1>2, HeightOfTable
<1>6. /\ applied = [k \in 1..(Len(chain) - 1) |-> k - 1]
      /\ applied \in Seq(Nat)
  BY <1>2 DEF Chained, TypeOK
<1>7. Len(applied) = Len(chain) - 1
  BY <1>2, <1>6
<1>8. applied' = Append(applied, Len(chain) - 1) /\ Len(chain) - 1 \in Nat
  BY <1>1, <1>2, <1>5
<1>9. /\ applied' \in Seq(Nat)
      /\ Len(applied') = Len(chain)
      /\ \A k \in 1..Len(chain) : applied'[k] = k - 1
  BY <1>2, <1>6, <1>7, <1>8
<1>10. applied' = [k \in 1..Len(chain) |-> k - 1]
  BY <1>9
<1>11. QED
  BY <1>1, <1>2, <1>4, <1>10 DEF Chained

LEMMA StepChained ==
  ASSUME TypeOK, RequestInv, TableInv, LockInv, CommitInv, Chained, [Next]_vars,
         \A c \in Clients : InsertRow(c) => blocks' = blocks \cup {chain[Len(chain)]}
  PROVE  Chained'
<1>1. CASE UNCHANGED vars
  BY <1>1, ChainedFrame DEF vars, handler, ledgers
<1>2. ASSUME NEW c \in Clients, Register(c) \/ Upload(c) \/ Acknowledge(c) \/ Refuse(c)
      PROVE  Chained'
  <2>1. UNCHANGED <<chain, blocks, applied>>
    BY <1>2 DEF Register, Upload, Acknowledge, Refuse, ledgers
  <2>2. \/ UNCHANGED pc
        \/ pc[c] = "idle" /\ pc' = [pc EXCEPT ![c] = "waiting"]
        \/ pc[c] = "waiting" /\ pc' = [pc EXCEPT ![c] = "idle"]
    BY <1>2 DEF Register, Upload, Acknowledge, Refuse, CountVote, Return, handler
  <2>3. QED
    BY <2>1, <2>2, ChainedFrame DEF TypeOK
<1>3. ASSUME NEW c \in Clients, ExecutePanics(c)
      PROVE  Chained'
  \* It cannot: the row of the block is in the table.
  <2>1. pc[c] = "inserted" /\ GetHeight = 0
    BY <1>3 DEF ExecutePanics
  <2>2. GetHeight = Len(chain) /\ Len(chain) # 0
    BY <2>1, InsertedCounts, HeightOfTable
  <2>3. QED
    BY <2>1, <2>2
<1>4. ASSUME NEW c \in Clients, ResetShard(c)
      PROVE  Chained'
  <2>1. UNCHANGED <<chain, blocks, applied>>
    BY <1>4 DEF ResetShard, ledgers
  <2>2. \/ UNCHANGED pc
        \/ pc[c] = "resetting" /\ pc' = [pc EXCEPT ![c] = "idle"]
    BY <1>4 DEF ResetShard, Return, handler
  <2>3. QED
    BY <2>1, <2>2, ChainedFrame DEF TypeOK
<1>5. QED
  BY <1>1, <1>2, <1>3, <1>4, AppendChained, InsertChained, ExecuteChained
     DEF Next, Handle

\* What readers of the chain and the table rely on in every step.
Grows ==
  /\ GetHeight <= GetHeight'
  /\ Len(chain) <= Len(chain')
  /\ blocks \subseteq blocks'
  /\ RowLost => RowLost'
  /\ RowLost' => RowLost \/ DBFaults

\* Appending leaves the table, and the number of blocks that should be in it, alone.
LEMMA AppendGrows ==
  ASSUME TypeOK, RequestInv, TableInv, LockInv, GetHeight <= Persisted,
         NEW c \in Clients, AppendToChain(c)
  PROVE  Grows /\ (GetHeight <= Persisted)' /\ NextInv'
<1>1. /\ leaderLock = NoClient
      /\ pc' = [pc EXCEPT ![c] = "appended"]
      /\ UNCHANGED blocks
  BY DEF AppendToChain, CountVote
<1>2. Persisted = Len(chain) /\ Len(chain) \in Nat
  BY <1>1, FreeLock, QuietCounts DEF Holding
<1>3. PICK b \in BlockRecords : b.height = GetHeight + 1 /\ chain' = Append(chain, b)
  BY AppendedBlock, MakeBlockType
<1>4. Len(chain') = Len(chain) + 1 /\ chain'[Len(chain')] = b
  BY <1>3 DEF TypeOK
<1>5. GetHeight' = GetHeight /\ GetHeight \in Nat
  BY <1>1, GetHeightType DEF GetHeight
<1>6. pc'[c] = "appended"
  BY <1>1 DEF TypeOK
<1>7. Persisted' = Len(chain)
  BY <1>2, <1>4, <1>6 DEF Persisted
<1>8. Grows /\ (GetHeight <= Persisted)'
  BY <1>1, <1>2, <1>4, <1>5, <1>7 DEF Grows, RowLost
<1>9. NextInv'
  BY <1>3, <1>4, <1>5 DEF NextInv
<1>10. QED
  BY <1>8, <1>9

\* The insertion makes the height the length of the chain, unless a row is lost.
LEMMA InsertGrows ==
  ASSUME TypeOK, TableInv, LockInv, CommitInv, GetHeight <= Persisted, NextInv,
         NEW c \in Clients, InsertRow(c)
  PROVE  /\ Grows /\ (GetHeight <= Persisted)' /\ NextInv'
         /\ ~RowLost' => blocks' = blocks \cup {chain[Len(chain)]}
<1> DEFINE top == chain[Len(chain)]
<1>1. /\ pc[c] = "appended"
      /\ pc' = [pc EXCEPT ![c] = "inserted"]
      /\ UNCHANGED chain
  BY DEF InsertRow
<1>2. Len(chain) \in Nat \ {0} /\ Persisted = Len(chain) - 1
  BY <1>1, AppendedCounts
<1>3. \A d \in Clients : pc'[d] # "appended"
  BY <1>1, OnlyHolder DEF TypeOK, Holding
<1>4. Persisted' = Len(chain)
  BY <1>1, <1>3 DEF Persisted
<1>5. NextInv'
  BY <1>3 DEF NextInv
<1>6. top.height = GetHeight + 1 /\ top \in BlockRecords
  BY <1>1, <1>2 DEF NextInv, TypeOK
<1>7. GetHeight \in Nat
  BY GetHeightType
<1>8. CASE DBFaults /\ UNCHANGED blocks
  <2>1. GetHeight' = GetHeight
    BY <1>8 DEF GetHeight
  <2>2. QED
    BY <1>1, <1>2, <1>4, <1>5, <1>7, <1>8, <2>1 DEF Grows, RowLost
<1>9. CASE blocks' = blocks \cup {top}
  <2>1. \A d \in blocks : d.height <= GetHeight
    BY DEF TableInv, GetHeight
  <2>2. \A d \in blocks : d.height \in Nat
    BY DEF TypeOK, BlockRecords, Heights
  <2>3. \A d \in blocks' : d.height <= top.height
    BY <1>6, <1>7, <1>9, <2>1, <2>2
  <2>4. PICK b \in blocks' : /\ \A d \in blocks' : d.height <= b.height
                             /\ GetHeight' = b.height
    BY <1>9, <2>3 DEF GetHeight
  <2>5. GetHeight' = top.height
    BY <1>6, <1>7, <1>9, <2>2, <2>3, <2>4
  <2>6. QED
    BY <1>1, <1>2, <1>4, <1>5, <1>6, <1>7, <1>9, <2>5 DEF Grows, RowLost
<1>10. QED
  BY <1>8, <1>9 DEF InsertRow

\* A step that touches neither chain nor table, and enters or leaves no insertion.
LEMMA QuietGrows ==
  ASSUME TypeOK, TableInv, GetHeight <= Persisted, NextInv, UNCHANGED <<chain, blocks>>,
         \A d \in Clients : pc'[d] = "appended" <=> pc[d] = "appended"
  PROVE  Grows /\ (GetHeight <= Persisted)' /\ NextInv'
<1>1. Persisted' = Persisted /\ GetHeight' = GetHeight
  BY DEF Persisted, GetHeight
<1>2. GetHeight \in Nat /\ Len(chain) \in Nat
  BY GetHeightType DEF TypeOK
<1>3. QED
  BY <1>1, <1>2 DEF Grows, RowLost, NextInv

LEMMA StepGrows ==
  ASSUME TypeOK, RequestInv, TableInv, LockInv, CommitInv, NextInv,
         GetHeight <= Persisted, [Next]_vars
  PROVE  Grows /\ (GetHeight <= Persisted)' /\ NextInv'
<1>1. CASE UNCHANGED vars
  BY <1>1, QuietGrows DEF vars, handler, ledgers
<1>2. ASSUME NEW c \in Clients,
             \/ Register(c) \/ Upload(c) \/ Acknowledge(c) \/ Refuse(c)
             \/ Execute(c) \/ ExecutePanics(c) \/ ResetShard(c)
      PROVE  Grows /\ (GetHeight <= Persisted)' /\ NextInv'
  <2>1. UNCHANGED <<chain, blocks>>
    BY <1>2 DEF Register, Upload, Acknowledge, Refuse, Execute, ExecutePanics,
                ResetShard, ledgers
  <2>2. \/ UNCHANGED pc
        \/ \E v \in PCs \ {"appended"} : pc[c] # "appended" /\ pc' = [pc EXCEPT ![c] = v]
    BY <1>2 DEF Register, Upload, Acknowledge, Refuse, CountVote, Execute,
                ExecutePanics, ResetShard, Return, handler, PCs
  <2>3. QED
    BY <2>1, <2>2, QuietGrows DEF TypeOK
<1>3. QED
  BY <1>1, <1>2, AppendGrows, InsertGrows DEF Next, Handle

\* A row is lost only when its insertion fails, and until then the chain is matched.
LEMMA StepMatch ==
  ASSUME TypeOK, RequestInv, TableInv, LockInv, CommitInv, NextInv, ChainMatchesTable,
         [Next]_vars
  PROVE  ChainMatchesTable' /\ NextInv'
<1>1. Grows /\ (GetHeight <= Persisted)' /\ NextInv'
  BY StepGrows DEF ChainMatchesTable
<1>2. RowLost' => DBFaults
  BY <1>1 DEF Grows, ChainMatchesTable
<1>3. ASSUME ~RowLost'
      PROVE  Chained'
  <2>1. Chained
    BY <1>1, <1>3 DEF Grows, ChainMatchesTable
  <2>2. \A c \in Clients : InsertRow(c) => blocks' = blocks \cup {chain[Len(chain)]}
    BY <1>3, InsertGrows DEF ChainMatchesTable
  <2>3. QED
    BY <2>1, <2>2, StepChained
<1>4. QED
  BY <1>1, <1>2, <1>3 DEF ChainMatchesTable

LEMMA InitChained == Init => Chained /\ ChainMatchesTable /\ NextInv
<1> SUFFICES ASSUME Init PROVE Chained /\ ChainMatchesTable /\ NextInv
  OBVIOUS
<1>1. Persisted = 0 /\ Executed = 0 /\ Len(chain) = 0
  BY DEF Init, Persisted, Executed
<1>2. blocks = {chain[i] : i \in 1..Persisted}
  BY <1>1 DEF Init
<1>3. applied = [k \in 1..Executed |-> k - 1]
  BY <1>1 DEF Init
<1>4. Chained
  BY <1>1, <1>2, <1>3 DEF Chained
<1>5. ~RowLost /\ GetHeight <= Persisted /\ NextInv
  BY <1>1 DEF Init, RowLost, GetHeight, NextInv
<1>6. QED
  BY <1>4, <1>5 DEF ChainMatchesTable

-----------------------------------------------------------------------------
(* Votes.                                                                  *)

LEMMA FiniteVoters ==
  ASSUME NEW p
  PROVE  IsFiniteSet(Voters(p)) /\ Cardinality(Voters(p)) \in Nat
<1>1. Voters(p) \in SUBSET Clients
  BY DEF Voters
<1>2. QED
  BY <1>1, ConstantsAssumption, FS_Subset, FS_CardinalityType

\* A client that has not voted for the problock it is about to be counted for
\* adds one voter to it, and none to the others.
LEMMA VotersAfterVote ==
  ASSUME NEW c \in Clients, NEW p \in Problocks, voted' = voted \cup {<<c, p>>},
         <<c, p>> \notin voted
  PROVE  \A q \in Problocks :
           Cardinality(Voters(q)') = Cardinality(Voters(q)) + (IF q = p THEN 1 ELSE 0)
<1> SUFFICES ASSUME NEW q \in Problocks
             PROVE  Cardinality(Voters(q)')
                      = Cardinality(Voters(q)) + (IF q = p THEN 1 ELSE 0)
  OBVIOUS
<1>1. CASE q = p
  <2>1. Voters(q)' = Voters(q) \cup {c} /\ c \notin Voters(q)
    BY <1>1 DEF Voters
  <2>2. QED
    BY <1>1, <2>1, FiniteVoters, FS_AddElement
<1>2. CASE q # p
  <2>1. Voters(q)' = Voters(q)
    BY <1>2 DEF Voters
  <2>2. QED
    BY <1>2, <2>1, FiniteVoters
<1>3. QED
  BY <1>1, <1>2

LEMMA VotersGrow ==
  ASSUME voted \subseteq voted', NEW p
  PROVE  Cardinality(Voters(p)) <= Cardinality(Voters(p)')
<1>1. Voters(p) \subseteq Voters(p)' /\ Voters(p)' \subseteq Clients
  BY DEF Voters
<1>2. IsFiniteSet(Voters(p)')
  BY <1>1, ConstantsAssumption, FS_Subset
<1>3. QED
  BY <1>1, <1>2, FS_Subset

\* The client of a handler that counts its vote has not voted for the problock.
LEMMA FreshVote ==
  ASSUME ~Resend, RequestInv, VotedInv, TypeOK, NEW c \in Clients, CountVote(c)
  PROVE  request[c] \in Problocks /\ <<c, request[c]>> \notin voted
<1>1. /\ pc[c] = "waiting"
      /\ request[c] \in Problocks
      /\ request[c].height = uploaded[c]
  BY DEF CountVote, RequestInv
<1>2. <<c, request[c]>> \in voted => uploaded[c] < uploaded[c]
  BY <1>1 DEF VotedInv
<1>3. uploaded[c] \in Int
  BY DEF TypeOK
<1>4. QED
  BY <1>1, <1>2, <1>3

LEMMA StepVoted ==
  ASSUME ~Resend, TypeOK, RequestInv, VotedInv, [Next]_vars
  PROVE  VotedInv'
<1> USE DEF VotedInv
<1>1. CASE UNCHANGED vars
  BY <1>1 DEF vars, handler
<1>2. ASSUME NEW c \in Clients, Upload(c)
      PROVE  VotedInv'
  <2>1. PICK p \in Problocks :
          /\ p.height > uploaded[c] \/ MayRepeat(c, p)
          /\ uploaded' = [uploaded EXCEPT ![c] = p.height]
    BY <1>2 DEF Upload
  <2>2. p.height > uploaded[c]
    BY <2>1 DEF MayRepeat
  <2>3. pc' = [pc EXCEPT ![c] = "waiting"] /\ UNCHANGED voted
    BY <1>2 DEF Upload
  <2>4. \A d \in Clients : uploaded[d] \in Int /\ \A q \in Problocks : q.height \in Int
    BY DEF TypeOK, Problocks, Heights
  <2>5. QED
    BY <2>1, <2>2, <2>3, <2>4 DEF TypeOK
<1>3. ASSUME NEW c \in Clients, CountVote(c), UNCHANGED uploaded,
             \E to \in {"idle", "appended"} : pc' = [pc EXCEPT ![c] = to]
      PROVE  VotedInv'
  <2>1. request[c].height = uploaded[c] /\ voted' = voted \cup {<<c, request[c]>>}
    BY <1>3 DEF CountVote, RequestInv
  <2>2. \A d \in Clients : uploaded[d] \in Int
    BY DEF TypeOK
  <2>3. QED
    BY <1>3, <2>1, <2>2 DEF TypeOK
<1>4. ASSUME NEW c \in Clients, Acknowledge(c) \/ Refuse(c) \/ AppendToChain(c)
      PROVE  VotedInv'
  BY <1>3, <1>4 DEF Acknowledge, Refuse, AppendToChain, Return
<1>5. ASSUME NEW c \in Clients, \/ Register(c) \/ InsertRow(c) \/ Execute(c)
                                \/ ExecutePanics(c) \/ ResetShard(c)
      PROVE  VotedInv'
  <2>1. UNCHANGED <<uploaded, voted>>
    BY <1>5 DEF Register, InsertRow, Execute, ExecutePanics, ResetShard, Return, handler
  <2>2. \A d \in Clients : pc'[d] = "waiting" => pc[d] = "waiting"
    BY <1>5 DEF Register, InsertRow, Execute, ExecutePanics, ResetShard, Return, handler,
                TypeOK
  <2>3. QED
    BY <2>1, <2>2
<1>6. QED
  BY <1>1, <1>2, <1>4, <1>5 DEF Next, Handle

LEMMA CountTally ==
  ASSUME ~Resend, TypeOK, RequestInv, VotedInv, TallyInv, NEW c \in Clients, CountVote(c)
  PROVE  TallyInv'
<1>1. request[c] \in Problocks /\ <<c, request[c]>> \notin voted
  BY FreshVote
<1>2. voted' = voted \cup {<<c, request[c]>>}
  BY DEF CountVote
<1>3. ASSUME NEW i \in 1..Current, NEW p \in Problocks
      PROVE  tallies'[i][p] <= Cardinality(Voters(p)')
  <2>1. tallies[i][p] \in Nat /\ Cardinality(Voters(p)) \in Nat
    BY CurrentTally, FiniteVoters
  <2>2. tallies[i][p] <= Cardinality(Voters(p))
    BY DEF TallyInv
  <2>3. tallies'[i][p] = tallies[i][p]
                           + (IF i = captured[c] /\ p = request[c] THEN 1 ELSE 0)
    BY <1>1, CountVoteType
  <2>4. Cardinality(Voters(p)')
          = Cardinality(Voters(p)) + (IF p = request[c] THEN 1 ELSE 0)
    BY <1>1, <1>2, VotersAfterVote
  <2>5. QED
    BY <2>1, <2>2, <2>3, <2>4
<1>4. Current' = Current
  BY <1>1, CountVoteType
<1>5. QED
  BY <1>3, <1>4 DEF TallyInv

LEMMA StepTally ==
  ASSUME ~Resend, TypeOK, RequestInv, VotedInv, TallyInv, [Next]_vars
  PROVE  TallyInv'
<1>1. ASSUME UNCHANGED <<tallies, voted>>
      PROVE  TallyInv'
  BY <1>1 DEF TallyInv, Current, Voters
<1>2. ASSUME NEW c \in Clients, ResetShard(c)
      PROVE  TallyInv'
  <2>1. tallies' = Append(tallies, EmptyTally) /\ UNCHANGED voted
    BY <1>2 DEF ResetShard, NewTallies
  <2>2. EmptyTally \in [Problocks -> Nat]
    BY DEF EmptyTally
  <2>3. /\ Current' = Current + 1
        /\ \A i \in 1..Current : tallies'[i] = tallies[i]
        /\ tallies'[Current + 1] = EmptyTally
    BY <2>1, <2>2 DEF TypeOK, Current
  <2>4. ASSUME NEW i \in 1..Current', NEW p \in Problocks
        PROVE  tallies'[i][p] <= Cardinality(Voters(p)')
    <3>1. Voters(p)' = Voters(p) /\ Cardinality(Voters(p)) \in Nat
      BY <2>1, FiniteVoters DEF Voters
    <3>2. CASE i = Current + 1
      BY <2>3, <3>1, <3>2 DEF EmptyTally
    <3>3. CASE i \in 1..Current
      BY <2>3, <3>1, <3>3 DEF TallyInv
    <3>4. QED
      BY <2>3, <3>2, <3>3, CurrentTally
  <2>5. QED
    BY <2>4 DEF TallyInv
<1>3. ASSUME NEW c \in Clients, Register(c) \/ Upload(c) \/ Handle(c)
      PROVE  TallyInv'
  <2>1. CASE Acknowledge(c) \/ Refuse(c) \/ AppendToChain(c)
    BY <2>1, CountTally DEF Acknowledge, Refuse, AppendToChain
  <2>2. CASE Register(c) \/ Upload(c) \/ InsertRow(c) \/ Execute(c) \/ ExecutePanics(c)
    BY <2>2, <1>1 DEF Register, Upload, InsertRow, Execute, ExecutePanics
  <2>3. CASE ResetShard(c)
    BY <2>3, <1>2
  <2>4. QED
    BY <1>3, <2>1, <2>2, <2>3 DEF Handle
<1>4. QED
  BY <1>1, <1>3 DEF Next, vars
-----------------------------------------------------------------------------
(* Every block has as many voters as its header says.                      *)

LEMMA VotedOnlyGrows == [Next]_vars => voted \subseteq voted'
BY DEF Next, Handle, vars, Register, Upload, Acknowledge, Refuse, AppendToChain, CountVote,
       InsertRow, Execute, ExecutePanics, ResetShard

LEMMA StepBacked ==
  ASSUME ~Resend, TypeOK, RequestInv, TableInv, VotedInv, TallyInv, VotesAreDistinctVoters,
         [Next]_vars
  PROVE  VotesAreDistinctVoters'
<1>1. ASSUME NEW i \in 1..Len(chain), chain'[i] = chain[i]
      PROVE  Backed(i)'
  <2>1. PICK q : q = ProblockOf(chain[i])
    OBVIOUS
  <2>2. ProblockOf(chain[i])' = q
    BY <1>1, <2>1 DEF ProblockOf
  <2>3. Voters(ProblockOf(chain[i]))' = Voters(q)'
    BY <2>2 DEF Voters
  <2>4. Cardinality(Voters(q)) <= Cardinality(Voters(q)')
    BY VotedOnlyGrows, VotersGrow
  <2>5. Cardinality(Voters(q)) \in Nat
    BY FiniteVoters
  <2>6. Voters(q)' \in SUBSET Clients
    BY DEF Voters
  <2>7. Cardinality(Voters(q)') \in Nat
    BY <2>6, ConstantsAssumption, FS_Subset, FS_CardinalityType
  <2>8. chain[i] \in BlockRecords
    BY DEF TypeOK
  <2>9. chain[i].vote \in Nat
    BY <2>8 DEF BlockRecords
  <2>10. chain[i].vote >= LeaderQuorum /\ chain[i].vote <= Cardinality(Voters(q))
    BY <2>1 DEF VotesAreDistinctVoters, Backed
  <2>11. QED
    BY <1>1, <2>3, <2>4, <2>5, <2>7, <2>9, <2>10 DEF Backed, LeaderQuorum
<1>2. CASE UNCHANGED chain
  <2>1. \A i \in 1..Len(chain) : Backed(i)'
    BY <1>1, <1>2
  <2>2. QED
    BY <1>2, <2>1 DEF VotesAreDistinctVoters
<1>3. ASSUME NEW c \in Clients, AppendToChain(c)
      PROVE  VotesAreDistinctVoters'
  <2>1. PICK p \in Problocks :
          /\ tallies'[Current][p] \in Nat
          /\ tallies'[Current][p] >= LeaderQuorum
          /\ chain' = Append(chain, MakeBlock(p, tallies'[Current][p]))
    BY <1>3, AppendedBlock
  <2> DEFINE b == MakeBlock(p, tallies'[Current][p])
  <2>2. b \in BlockRecords /\ b.vote = tallies'[Current][p] /\ ProblockOf(b) = p
    BY <2>1, MakeBlockType
  <2>3. /\ Len(chain') = Len(chain) + 1
        /\ \A i \in 1..Len(chain) : chain'[i] = chain[i]
        /\ chain'[Len(chain) + 1] = b
    BY <2>1, <2>2 DEF TypeOK
  <2>4. CountVote(c) /\ request[c] \in Problocks
    BY <1>3 DEF AppendToChain, CountVote, RequestInv
  <2>5. TallyInv' /\ Current' = Current
    BY <2>4, CountTally, CountVoteType
  <2>6. tallies'[Current][p] <= Cardinality(Voters(p)')
    BY <2>5, CurrentTally DEF TallyInv
  <2>7. ASSUME NEW i \in 1..Len(chain')
        PROVE  Backed(i)'
    <3>1. CASE i = Len(chain) + 1
      <4>1. chain'[i] = b
        BY <2>3, <3>1
      <4>2. ProblockOf(chain[i])' = p
        BY <2>2, <4>1 DEF ProblockOf
      <4>3. Voters(ProblockOf(chain[i]))' = Voters(p)'
        BY <4>2 DEF Voters
      <4>4. QED
        BY <2>1, <2>2, <2>6, <4>1, <4>3 DEF Backed, LeaderQuorum
    <3>2. CASE i \in 1..Len(chain)
      BY <1>1, <2>3, <3>2
    <3>3. QED
      BY <2>3, <3>1, <3>2 DEF TypeOK
  <2>8. QED
    BY <2>7 DEF VotesAreDistinctVoters
<1>4. [Next]_vars => UNCHANGED chain \/ \E c \in Clients : AppendToChain(c)
  BY DEF Next, Handle, vars, ledgers, Register, Upload, Acknowledge, Refuse, InsertRow,
         Execute, ExecutePanics, ResetShard
<1>5. QED
  BY <1>2, <1>3, <1>4

LEMMA InitVotes == Init => VotedInv /\ TallyInv /\ VotesAreDistinctVoters
<1> SUFFICES ASSUME Init PROVE VotedInv /\ TallyInv /\ VotesAreDistinctVoters
  OBVIOUS
<1>1. VotedInv /\ VotesAreDistinctVoters
  BY DEF Init, VotedInv, VotesAreDistinctVoters
<1>2. \A p : Cardinality(Voters(p)) \in Nat
  BY FiniteVoters
<1>3. Current = 1 /\ tallies[1] = EmptyTally
  BY DEF Init, Current
<1>4. TallyInv
  BY <1>2, <1>3 DEF TallyInv, EmptyTally
<1>5. QED
  BY <1>1, <1>4

-----------------------------------------------------------------------------
(* The handlers implement the abstract ledger.                             *)

\* The proposals on the chain: what the refinement shows of it.
Proposed == [i \in 1..Len(chain) |-> ProblockOf(chain[i])]

LEMMA ProblockOfBlock ==
  ASSUME NEW b \in BlockRecords
  PROVE  ProblockOf(b) \in Problocks
BY DEF BlockRecords, ProblockOf, Problocks

LEMMA ProposedType ==
  ASSUME TypeOK
  PROVE  Proposed \in Seq(Problocks) /\ Len(Proposed) = Len(chain)
<1>1. Len(chain) \in Nat /\ \A i \in 1..Len(chain) : ProblockOf(chain[i]) \in Problocks
  BY ProblockOfBlock DEF TypeOK
<1>2. Proposed \in [1..Len(chain) -> Problocks]
  BY <1>1 DEF Proposed
<1>3. QED
  BY <1>1, <1>2

LEMMA SeqIsFunction ==
  ASSUME NEW S, NEW s \in Seq(S)
  PROVE  s \in [1..Len(s) -> S]
OBVIOUS

LEMMA ProposedAppend ==
  ASSUME TypeOK, NEW b \in BlockRecords, chain' = Append(chain, b)
  PROVE  Proposed' = Append(Proposed, ProblockOf(b))
<1>1. /\ Len(chain) \in Nat
      /\ Len(chain') = Len(chain) + 1
      /\ \A i \in 1..Len(chain) : chain'[i] = chain[i]
      /\ chain'[Len(chain) + 1] = b
  BY DEF TypeOK
<1>2. ProblockOf(b) \in Problocks
  BY ProblockOfBlock
<1>3. Proposed' = [i \in 1..(Len(chain) + 1) |-> ProblockOf(chain'[i])]
  BY <1>1 DEF Proposed, ProblockOf
<1>4. /\ Append(Proposed, ProblockOf(b)) \in Seq(Problocks)
      /\ Len(Append(Proposed, ProblockOf(b))) = Len(chain) + 1
      /\ \A i \in 1..Len(chain) : Append(Proposed, ProblockOf(b))[i] = Proposed[i]
      /\ Append(Proposed, ProblockOf(b))[Len(chain) + 1] = ProblockOf(b)
  BY <1>1, <1>2, ProposedType
<1>5. \A i \in 1..Len(chain) : Proposed[i] = ProblockOf(chain'[i])
  BY <1>1 DEF Proposed, ProblockOf
<1>6. \A i \in 1..(Len(chain) + 1) :
        Append(Proposed, ProblockOf(b))[i] = ProblockOf(chain'[i])
  BY <1>1, <1>4, <1>5
<1>7. Append(Proposed, ProblockOf(b)) \in [1..(Len(chain) + 1) -> Problocks]
  BY <1>4, SeqIsFunction
<1>8. QED
  BY <1>3, <1>6, <1>7

\* The instance brings its own copy of FiniteSets.
LEMMA SameCardinality == \A S : L!Cardinality(S) = Cardinality(S)
BY DEF L!Cardinality, Cardinality

LEMMA InitLedger == Init => L!Init
BY DEF Init, L!Init

LEMMA StepLedger ==
  ASSUME ~Resend, TypeOK, RequestInv, TableInv, VotedInv, TallyInv, [Next]_vars,
         \A c \in Clients : AppendToChain(c) => GetHeight = Len(chain)
  PROVE  [L!Next]_(L!vars)
<1>1. ASSUME UNCHANGED <<voted, chain>>
      PROVE  UNCHANGED L!vars
  BY <1>1 DEF L!vars, ProblockOf
<1>2. ASSUME NEW c \in Clients, CountVote(c)
      PROVE  L!Vote(c, request[c]) /\ request[c] \in L!Proposals
  <2>1. request[c] \in Problocks /\ <<c, request[c]>> \notin voted
    BY <1>2, FreshVote
  <2>2. QED
    BY <1>2, <2>1 DEF CountVote, L!Vote, L!Proposals, Problocks
<1>3. ASSUME NEW c \in Clients, Acknowledge(c) \/ Refuse(c)
      PROVE  L!Next
  <2>1. CountVote(c) /\ UNCHANGED chain
    BY <1>3 DEF Acknowledge, Refuse, ledgers
  <2>2. QED
    BY <1>2, <2>1 DEF L!Next, ProblockOf
<1>4. ASSUME NEW c \in Clients, AppendToChain(c)
      PROVE  L!Next
  <2>1. CountVote(c) /\ request[c] \in Problocks
    BY <1>4 DEF AppendToChain, CountVote, RequestInv
  <2>2. PICK p \in Problocks :
          /\ tallies'[Current][p] \in Nat
          /\ tallies'[Current][p] >= LeaderQuorum
          /\ p.height = GetHeight + 1
          /\ chain' = Append(chain, MakeBlock(p, tallies'[Current][p]))
    BY <1>4, AppendedBlock
  <2>3. GetHeight = Len(chain) /\ Len(chain) \in Nat
    BY <1>4 DEF TypeOK
  <2>4. TallyInv' /\ Current' = Current
    BY <2>1, CountTally, CountVoteType
  <2>5. tallies'[Current][p] <= Cardinality(Voters(p)')
    BY <2>4, CurrentTally DEF TallyInv
  <2>6. Voters(p)' \in SUBSET Clients
    BY DEF Voters
  <2>7. Cardinality(Voters(p)') \in Nat
    BY <2>6, ConstantsAssumption, FS_Subset, FS_CardinalityType
  <2>8. Cardinality(Voters(p)') >= LeaderQuorum
    BY <2>2, <2>5, <2>7, ConstantsAssumption DEF LeaderQuorum
  <2>9. Proposed' = Append(Proposed, p)
    BY <2>2, MakeBlockType, ProposedAppend
  <2>10. p.height = Len(Proposed) + 1
    BY <2>2, <2>3, ProposedType
  <2>11. L!Commit(p)
    <3>1. L!VotersFor(p)' = Voters(p)'
      BY DEF L!VotersFor, Voters
    <3>2. L!Cardinality(L!VotersFor(p)') >= LeaderQuorum
      BY <2>8, <3>1, SameCardinality
    <3>3. QED
      BY <2>9, <2>10, <3>2 DEF L!Commit, Proposed
  <2>12. p \in L!Proposals
    BY DEF L!Proposals, Problocks
  <2>13. QED
    BY <1>2, <2>1, <2>11, <2>12 DEF L!Next
<1>5. ASSUME NEW c \in Clients, \/ Register(c) \/ Upload(c) \/ InsertRow(c) \/ Execute(c)
                                \/ ExecutePanics(c) \/ ResetShard(c)
      PROVE  UNCHANGED L!vars
  BY <1>1, <1>5 DEF Register, Upload, InsertRow, Execute, ExecutePanics, ResetShard, ledgers
<1>6. CASE UNCHANGED vars
  BY <1>1, <1>6 DEF vars, ledgers
<1>7. QED
  BY <1>3, <1>4, <1>5, <1>6 DEF Next, Handle

\* Every step preserves the inductive invariant.
LEMMA StepInd ==
  ASSUME IndInv, [Next]_vars
  PROVE  IndInv'
<1>1. TypeOK' /\ RequestInv' /\ TableInv' /\ LockInv' /\ CommitInv'
  BY StepTypes, StepLock DEF IndInv
<1>2. ChainMatchesTable' /\ NextInv'
  BY StepMatch DEF IndInv
<1>3. CASE ~Resend
  BY <1>1, <1>2, <1>3, StepVoted, StepTally, StepBacked DEF IndInv
<1>4. CASE Resend
  BY <1>1, <1>2, <1>4 DEF IndInv, VotedInv, TallyInv, VotesAreDistinctVoters
<1>5. QED
  BY <1>3, <1>4

-----------------------------------------------------------------------------
(* Committees, and the maps their votes are in.                            *)

LEMMA StepCounts ==
  ASSUME [Next]_vars
  PROVE  UNCHANGED <<tallies, voted>> \/ (\E c \in Clients : CountVote(c) \/ ResetShard(c))
BY DEF Next, Handle, vars, Register, Upload, Acknowledge, Refuse, AppendToChain, InsertRow,
       Execute, ExecutePanics

\* A committee that is small and not early stays so.
LEMMA CommitteeFrame ==
  ASSUME MembersInv, NEW low \in Nat, NEW high \in Nat,
         GetHeight = low, GetHeight' = high, low <= high,
         UNCHANGED committee, NEW h \in Heights
  PROVE  /\ Cardinality(committee'[h]) <= OrderClientNum
         /\ committee'[h] # {} => h <= GetHeight' + 1
<1>1. committee'[h] = committee[h] /\ h \in Int
  BY DEF Heights
<1>2. /\ Cardinality(committee[h]) <= OrderClientNum
      /\ committee[h] # {} => h <= low + 1
  BY DEF MembersInv
<1>3. committee[h] # {} => h <= high + 1
  BY <1>1, <1>2
<1>4. QED
  BY <1>1, <1>2, <1>3

\* Nobody waits for a vote in a committee it is not a member of.
LEMMA MembersFrame ==
  ASSUME MembersInv, NEW low \in Nat, NEW high \in Nat,
         GetHeight = low, GetHeight' = high, low <= high,
         UNCHANGED committee,
         \A c \in Clients : pc'[c] = "waiting" => pc[c] = "waiting" /\ request'[c] = request[c],
         \A c \in Clients, p \in Problocks :
           <<c, p>> \in voted' => <<c, p>> \in voted \/ c \in committee[p.height]
  PROVE  MembersInv'
<1>1. ASSUME NEW h \in Heights
      PROVE  /\ Cardinality(committee'[h]) <= OrderClientNum
             /\ committee'[h] # {} => h <= GetHeight' + 1
  BY CommitteeFrame
<1>2. QED
  BY <1>1 DEF MembersInv

LEMMA RegisterMembers ==
  ASSUME TypeOK, TableInv, MembersInv, NEW c \in Clients, Register(c)
  PROVE  MembersInv'
<1>1. /\ GetHeight + 1 \in Heights
      /\ Cardinality(committee[GetHeight + 1]) < OrderClientNum
      /\ c \notin committee[GetHeight + 1]
      /\ committee' = [committee EXCEPT ![GetHeight + 1] = committee[GetHeight + 1] \cup {c}]
      /\ UNCHANGED <<pc, request, voted, blocks>>
  BY DEF Register, handler, ledgers
<1>2. GetHeight' = GetHeight /\ GetHeight \in Nat
  BY <1>1, GetHeightType DEF GetHeight
<1>3. ASSUME NEW h \in Heights
      PROVE  /\ Cardinality(committee'[h]) <= OrderClientNum
             /\ committee'[h] # {} => h <= GetHeight' + 1
  <2>1. CASE h = GetHeight + 1
    <3>1. committee'[h] = committee[h] \cup {c} /\ committee[h] \in SUBSET Clients
      BY <1>1, <2>1 DEF TypeOK
    <3>2. IsFiniteSet(committee[h])
      BY <3>1, ConstantsAssumption, FS_Subset
    <3>3. Cardinality(committee[h]) \in Nat
          /\ Cardinality(committee'[h]) = Cardinality(committee[h]) + 1
      BY <1>1, <2>1, <3>1, <3>2, FS_AddElement, FS_CardinalityType
    <3>4. QED
      BY <1>1, <1>2, <2>1, <3>3, ConstantsAssumption
  <2>2. CASE h # GetHeight + 1
    <3>1. committee'[h] = committee[h]
      BY <1>1, <2>2 DEF TypeOK
    <3>2. QED
      BY <1>2, <3>1 DEF MembersInv
  <2>3. QED
    BY <2>1, <2>2
<1>4. \A h \in Heights : committee[h] \subseteq committee'[h]
  BY <1>1 DEF TypeOK
<1>5. ASSUME NEW d \in Clients, pc'[d] = "waiting"
      PROVE  d \in committee'[request'[d].height]
  <2>1. d \in committee[request[d].height]
    BY <1>1, <1>5 DEF MembersInv
  <2>2. QED
    BY <1>1, <1>4, <2>1 DEF TypeOK
<1>6. ASSUME NEW d \in Clients, NEW p \in Problocks, <<d, p>> \in voted'
      PROVE  d \in committee'[p.height]
  <2>1. d \in committee[p.height] /\ p.height \in Heights
    BY <1>1, <1>6 DEF MembersInv, Problocks
  <2>2. QED
    BY <1>4, <2>1
<1>7. QED
  BY <1>3, <1>5, <1>6 DEF MembersInv

LEMMA StepMembers ==
  ASSUME TypeOK, RequestInv, TableInv, GetHeight' \in Nat, GetHeight <= GetHeight',
         MembersInv, [Next]_vars
  PROVE  MembersInv'
<1>1. GetHeight \in Nat
  BY GetHeightType
<1>2. ASSUME NEW c \in Clients, Upload(c)
      PROVE  MembersInv'
  <2>1. PICK p \in Problocks :
          c \in committee[p.height] /\ request' = [request EXCEPT ![c] = p]
    BY <1>2 DEF Upload
  <2>2. pc' = [pc EXCEPT ![c] = "waiting"] /\ UNCHANGED <<committee, voted, blocks>>
    BY <1>2 DEF Upload, ledgers
  <2>3. GetHeight' = GetHeight
    BY <2>2 DEF GetHeight
  <2>4. \A d \in Clients : pc'[d] = "waiting" => d \in committee[request'[d].height]
    BY <2>1, <2>2 DEF MembersInv, TypeOK
  <2>5. QED
    BY <2>2, <2>3, <2>4 DEF MembersInv
<1>3. ASSUME NEW c \in Clients, CountVote(c), pc[c] = "waiting",
             \E to \in PCs \ {"waiting"} : pc' = [pc EXCEPT ![c] = to],
             \A d \in Clients \ {c} : request'[d] = request[d]
      PROVE  MembersInv'
  <2>1. /\ voted' = voted \cup {<<c, request[c]>>} /\ UNCHANGED committee
        /\ c \in committee[request[c].height]
    BY <1>3 DEF CountVote, MembersInv
  <2>2. QED
    BY <1>1, <1>3, <2>1, MembersFrame DEF TypeOK
<1>4. ASSUME NEW c \in Clients, Acknowledge(c) \/ Refuse(c) \/ AppendToChain(c)
      PROVE  MembersInv'
  <2>1. /\ CountVote(c) /\ pc[c] = "waiting"
        /\ \/ pc' = [pc EXCEPT ![c] = "idle"] /\ request' = [request EXCEPT ![c] = NoProblock]
           \/ pc' = [pc EXCEPT ![c] = "appended"] /\ UNCHANGED request
    BY <1>4 DEF Acknowledge, Refuse, AppendToChain, Return, CountVote
  <2>2. \A d \in Clients \ {c} : request'[d] = request[d]
    BY <2>1 DEF TypeOK
  <2>3. \E to \in PCs \ {"waiting"} : pc' = [pc EXCEPT ![c] = to]
    BY <2>1 DEF PCs
  <2>4. QED
    BY <1>3, <2>1, <2>2, <2>3
<1>5. ASSUME NEW c \in Clients, \/ InsertRow(c) \/ Execute(c)
                                \/ ExecutePanics(c) \/ ResetShard(c)
      PROVE  MembersInv'
  <2>1. UNCHANGED <<committee, voted>>
    BY <1>5 DEF InsertRow, Execute, ExecutePanics, ResetShard
  <2>2. \A d \in Clients : pc'[d] = "waiting" => pc[d] = "waiting" /\ request'[d] = request[d]
    BY <1>5 DEF InsertRow, Execute, ExecutePanics, ResetShard, Return, handler, TypeOK
  <2>3. QED
    BY <1>1, <2>1, <2>2, MembersFrame
<1>6. CASE UNCHANGED vars
  BY <1>1, <1>6, MembersFrame DEF vars, handler
<1>7. QED
  BY <1>2, <1>4, <1>5, <1>6, RegisterMembers DEF Next, Handle

LEMMA StepOneVote ==
  ASSUME ~Resend, TypeOK, RequestInv, VotedInv, OneVoteInv, [Next]_vars
  PROVE  OneVoteInv'
<1>1. CASE UNCHANGED voted
  BY <1>1 DEF OneVoteInv
<1>2. ASSUME NEW c \in Clients, CountVote(c)
      PROVE  OneVoteInv'
  <2>1. /\ voted' = voted \cup {<<c, request[c]>>} /\ pc[c] = "waiting"
        /\ request[c].height = uploaded[c] /\ uploaded[c] \in Int
    BY <1>2 DEF CountVote, RequestInv, TypeOK
  <2>2. \A p \in Problocks : <<c, p>> \in voted => p.height < uploaded[c]
    BY <2>1 DEF VotedInv
  <2>3. \A p \in Problocks : p.height \in Int
    BY DEF Problocks, Heights
  <2>4. QED
    BY <2>1, <2>2, <2>3 DEF OneVoteInv
<1>3. QED
  BY <1>1, <1>2, StepCounts DEF ResetShard


LEMMA StepPair ==
  ASSUME ~Resend, TypeOK, RequestInv, VotedInv, TallyInv, PairInv, [Next]_vars
  PROVE  PairInv'
<1>1. CASE UNCHANGED <<tallies, voted>>
  BY <1>1 DEF PairInv, Current, Voters
<1>2. ASSUME NEW c \in Clients, CountVote(c)
      PROVE  PairInv'
  <2>1. request[c] \in Problocks /\ <<c, request[c]>> \notin voted
    BY <1>2, FreshVote
  <2>2. voted' = voted \cup {<<c, request[c]>>}
    BY <1>2 DEF CountVote
  <2>3. ASSUME NEW i \in 1..Current, NEW j \in 1..Current, NEW p \in Problocks, i # j
        PROVE  tallies'[i][p] + tallies'[j][p] <= Cardinality(Voters(p)')
    <3>1. /\ tallies[i][p] \in Nat /\ tallies[j][p] \in Nat
          /\ Cardinality(Voters(p)) \in Nat
      BY CurrentTally, FiniteVoters
    <3>2. tallies[i][p] + tallies[j][p] <= Cardinality(Voters(p))
      BY <2>3 DEF PairInv
    <3>3. /\ tallies'[i][p] = tallies[i][p]
                                + (IF i = captured[c] /\ p = request[c] THEN 1 ELSE 0)
          /\ tallies'[j][p] = tallies[j][p]
                                + (IF j = captured[c] /\ p = request[c] THEN 1 ELSE 0)
      BY <1>2, <2>1, CountVoteType
    <3>4. Cardinality(Voters(p)')
            = Cardinality(Voters(p)) + (IF p = request[c] THEN 1 ELSE 0)
      BY <2>1, <2>2, VotersAfterVote
    <3>5. QED
      BY <2>3, <3>1, <3>2, <3>3, <3>4
  <2>4. Current' = Current
    BY <1>2, <2>1, CountVoteType
  <2>5. QED
    BY <2>3, <2>4 DEF PairInv
<1>3. ASSUME NEW c \in Clients, ResetShard(c)
      PROVE  PairInv'
  <2>1. tallies' = Append(tallies, EmptyTally) /\ UNCHANGED voted
    BY <1>3 DEF ResetShard, NewTallies
  <2>2. EmptyTally \in [Problocks -> Nat]
    BY DEF EmptyTally
  <2>3. /\ Current' = Current + 1 /\ Current \in Nat
        /\ \A i \in 1..Current : tallies'[i] = tallies[i]
        /\ tallies'[Current + 1] = EmptyTally
    BY <2>1, <2>2 DEF TypeOK, Current
  <2>4. ASSUME NEW i \in 1..Current', NEW j \in 1..Current', NEW p \in Problocks, i # j
        PROVE  tallies'[i][p] + tallies'[j][p] <= Cardinality(Voters(p)')
    <3>1. Voters(p)' = Voters(p) /\ Cardinality(Voters(p)) \in Nat
      BY <2>1, FiniteVoters DEF Voters
    <3>2. EmptyTally[p] = 0
      BY DEF EmptyTally
    <3>3. \A k \in 1..Current : tallies[k][p] \in Nat /\ tallies[k][p] <= Cardinality(Voters(p))
      BY CurrentTally DEF TallyInv
    <3>4. CASE i = Current + 1
      <4>1. j \in 1..Current
        BY <2>3, <2>4, <3>4
      <4>2. tallies'[i][p] = 0 /\ tallies'[j][p] = tallies[j][p]
        BY <2>3, <3>2, <3>4, <4>1
      <4>3. QED
        BY <3>1, <3>3, <4>1, <4>2
    <3>5. CASE j = Current + 1
      <4>1. i \in 1..Current
        BY <2>3, <2>4, <3>5
      <4>2. tallies'[j][p] = 0 /\ tallies'[i][p] = tallies[i][p]
        BY <2>3, <3>2, <3>5, <4>1
      <4>3. QED
        BY <3>1, <3>3, <4>1, <4>2
    <3>6. CASE i \in 1..Current /\ j \in 1..Current
      <4>1. tallies'[i][p] = tallies[i][p] /\ tallies'[j][p] = tallies[j][p]
        BY <2>3, <3>6
      <4>2. tallies[i][p] + tallies[j][p] <= Cardinality(Voters(p))
        BY <2>4, <3>6 DEF PairInv
      <4>3. QED
        BY <3>1, <4>1, <4>2
    <3>7. QED
      BY <2>3, <3>4, <3>5, <3>6
  <2>5. QED
    BY <2>4 DEF PairInv
<1>4. QED
  BY <1>1, <1>2, <1>3, StepCounts

\* A vote more for p is a vote more in all.
LEMMA AddVoteTotal ==
  ASSUME NEW m \in [Problocks -> Nat], NEW p \in Problocks, IsFiniteSet(VotesIn(m))
  PROVE  /\ IsFiniteSet(VotesIn(AddVote(m, p)))
         /\ TotalOf(m) \in Nat
         /\ TotalOf(AddVote(m, p)) = TotalOf(m) + 1
<1> DEFINE n == m[p] + 1
<1>1. m[p] \in Nat /\ n \in Nat
  OBVIOUS
<1>2. AddVote(m, p) = [m EXCEPT ![p] = n]
  BY DEF AddVote
<1>3. \A q \in Problocks : AddVote(m, p)[q] = IF q = p THEN n ELSE m[q]
  BY <1>2
<1>4. 1..n = (1..m[p]) \cup {n} /\ n \notin 1..m[p]
  BY <1>1
<1> HIDE DEF n
<1>5. VotesIn(AddVote(m, p)) = VotesIn(m) \cup {<<p, n>>}
  <2>1. ASSUME NEW v \in VotesIn(AddVote(m, p))
        PROVE  v \in VotesIn(m) \cup {<<p, n>>}
    <3>1. PICK q \in Problocks : v \in {q} \X (1..AddVote(m, p)[q])
      BY <2>1 DEF VotesIn
    <3>2. CASE q = p
      <4>1. v \in {p} \X (1..n)
        BY <1>3, <3>1, <3>2
      <4>2. v \in {p} \X (1..m[p]) \/ v = <<p, n>>
        BY <1>4, <4>1
      <4>3. QED
        BY <4>2 DEF VotesIn
    <3>3. CASE q # p
      BY <1>3, <3>1, <3>3 DEF VotesIn
    <3>4. QED
      BY <3>2, <3>3
  <2>2. ASSUME NEW v \in VotesIn(m) \cup {<<p, n>>}
        PROVE  v \in VotesIn(AddVote(m, p))
    <3>1. CASE v = <<p, n>>
      <4>1. v \in {p} \X (1..AddVote(m, p)[p])
        BY <1>3, <1>4, <3>1
      <4>2. QED
        BY <4>1 DEF VotesIn
    <3>2. CASE v \in VotesIn(m)
      <4>1. PICK q \in Problocks : v \in {q} \X (1..m[q])
        BY <3>2 DEF VotesIn
      <4>2. 1..m[q] \subseteq 1..AddVote(m, p)[q]
        BY <1>3, <1>4
      <4>3. v \in {q} \X (1..AddVote(m, p)[q])
        BY <4>1, <4>2
      <4>4. QED
        BY <4>3 DEF VotesIn
    <3>3. QED
      BY <2>2, <3>1, <3>2
  <2>3. QED
    BY <2>1, <2>2
<1>6. <<p, n>> \notin VotesIn(m)
  BY <1>4 DEF VotesIn
<1>7. QED
  BY <1>5, <1>6, FS_AddElement, FS_CardinalityType DEF TotalOf

LEMMA EmptyTotal == IsFiniteSet(VotesIn(EmptyTally)) /\ TotalOf(EmptyTally) = 0
<1>1. VotesIn(EmptyTally) = {}
  BY DEF VotesIn, EmptyTally
<1>2. QED
  BY <1>1, FS_EmptySet DEF TotalOf


\* A handler that counts a vote counts a new one.
LEMMA CountTotal ==
  ASSUME ~Resend, TypeOK, RequestInv, VotedInv, TotalInv, NEW c \in Clients, CountVote(c)
  PROVE  /\ IsFiniteSet(voted') /\ Cardinality(voted') = Cardinality(voted) + 1
         /\ Cardinality(voted) \in Nat /\ Current' = Current
         /\ \A i \in 1..Current : /\ IsFiniteSet(VotesIn(tallies'[i]))
                                  /\ TotalOf(tallies'[i]) \in Nat
                                  /\ TotalOf(tallies'[i]) <= Cardinality(voted')
<1>1. request[c] \in Problocks /\ <<c, request[c]>> \notin voted
  BY FreshVote
<1>2. voted' = voted \cup {<<c, request[c]>>} /\ IsFiniteSet(voted)
  BY DEF CountVote, TotalInv
<1>3. /\ IsFiniteSet(voted') /\ Cardinality(voted') = Cardinality(voted) + 1
      /\ Cardinality(voted) \in Nat
  BY <1>1, <1>2, FS_AddElement, FS_CardinalityType
<1>4. ASSUME NEW i \in 1..Current
      PROVE  /\ IsFiniteSet(VotesIn(tallies'[i]))
             /\ TotalOf(tallies'[i]) \in Nat
             /\ TotalOf(tallies'[i]) <= Cardinality(voted')
  <2>1. tallies[i] \in [Problocks -> Nat]
    BY CurrentTally
  <2>2. IsFiniteSet(VotesIn(tallies[i])) /\ TotalOf(tallies[i]) <= Cardinality(voted)
    BY DEF TotalInv
  <2>3. TotalOf(tallies[i]) \in Nat
    BY <2>2, FS_CardinalityType DEF TotalOf
  <2>4. tallies'[i] = IF i = captured[c] THEN AddVote(tallies[i], request[c]) ELSE tallies[i]
    BY DEF CountVote, TypeOK, Current
  <2>5. CASE i = captured[c]
    <3>1. tallies'[i] = AddVote(tallies[i], request[c])
      BY <2>4, <2>5
    <3>2. /\ IsFiniteSet(VotesIn(AddVote(tallies[i], request[c])))
          /\ TotalOf(AddVote(tallies[i], request[c])) = TotalOf(tallies[i]) + 1
      BY <1>1, <2>1, <2>2, AddVoteTotal
    <3>3. QED
      BY <1>3, <2>2, <2>3, <3>1, <3>2
  <2>6. CASE i # captured[c]
    BY <1>3, <2>2, <2>3, <2>4, <2>6
  <2>7. QED
    BY <2>5, <2>6
<1>5. Current' = Current
  BY <1>1, CountVoteType
<1>6. QED
  BY <1>3, <1>4, <1>5

LEMMA StepTotal ==
  ASSUME ~Resend, TypeOK, RequestInv, VotedInv, TotalInv, [Next]_vars
  PROVE  TotalInv'
<1>1. ASSUME UNCHANGED <<tallies, voted, chain>>
      PROVE  TotalInv'
  BY <1>1 DEF TotalInv, Current
<1>2. ASSUME NEW c \in Clients, CountVote(c), UNCHANGED chain
      PROVE  TotalInv'
  <2>1. chain # <<>> => OrderClientNum <= Cardinality(voted)
    BY DEF TotalInv
  <2>2. chain' # <<>> => OrderClientNum <= Cardinality(voted')
    BY <1>2, <2>1, CountTotal, ConstantsAssumption
  <2>3. QED
    BY <1>2, <2>2, CountTotal DEF TotalInv
<1>3. ASSUME NEW c \in Clients, AppendToChain(c)
      PROVE  TotalInv'
  <2>1. CountVote(c) /\ OrderClientNum <= TotalOf(tallies'[captured[c]])
        /\ captured[c] \in 1..Current
    BY <1>3 DEF AppendToChain, Complete, TypeOK
  <2>2. TotalOf(tallies'[captured[c]]) <= Cardinality(voted')
        /\ TotalOf(tallies'[captured[c]]) \in Nat /\ Cardinality(voted') \in Nat
    BY <2>1, CountTotal
  <2>3. OrderClientNum <= Cardinality(voted')
    BY <2>1, <2>2, ConstantsAssumption
  <2>4. QED
    BY <2>1, <2>3, CountTotal DEF TotalInv
<1>4. ASSUME NEW c \in Clients, ResetShard(c)
      PROVE  TotalInv'
  <2>1. tallies' = Append(tallies, EmptyTally) /\ UNCHANGED <<voted, chain>>
    BY <1>4 DEF ResetShard, NewTallies, ledgers
  <2>2. EmptyTally \in [Problocks -> Nat]
    BY DEF EmptyTally
  <2>3. /\ Current' = Current + 1 /\ Current \in Nat
        /\ \A i \in 1..Current : tallies'[i] = tallies[i]
        /\ tallies'[Current + 1] = EmptyTally
    BY <2>1, <2>2 DEF TypeOK, Current
  <2>4. Cardinality(voted) \in Nat
    BY FS_CardinalityType DEF TotalInv
  <2>5. ASSUME NEW i \in 1..Current'
        PROVE  /\ IsFiniteSet(VotesIn(tallies'[i]))
               /\ TotalOf(tallies'[i]) <= Cardinality(voted)
    <3>1. CASE i = Current + 1
      BY <2>3, <2>4, <3>1, EmptyTotal
    <3>2. CASE i \in 1..Current
      <4>1. tallies'[i] = tallies[i]
        BY <2>3, <3>2
      <4>2. IsFiniteSet(VotesIn(tallies[i])) /\ TotalOf(tallies[i]) <= Cardinality(voted)
        BY <3>2 DEF TotalInv
      <4>3. QED
        BY <4>1, <4>2
    <3>3. QED
      BY <2>3, <3>1, <3>2
  <2>6. chain' # <<>> => OrderClientNum <= Cardinality(voted')
    BY <2>1 DEF TotalInv
  <2>7. QED
    BY <2>1, <2>5, <2>6 DEF TotalInv
<1>5. ASSUME NEW c \in Clients, Acknowledge(c) \/ Refuse(c)
      PROVE  TotalInv'
  BY <1>2, <1>5 DEF Acknowledge, Refuse, ledgers
<1>6. ASSUME NEW c \in Clients, \/ Register(c) \/ Upload(c) \/ InsertRow(c) \/ Execute(c)
                                \/ ExecutePanics(c)
      PROVE  TotalInv'
  BY <1>1, <1>6 DEF Register, Upload, InsertRow, Execute, ExecutePanics, ledgers
<1>7. CASE UNCHANGED vars
  BY <1>1, <1>7 DEF vars, ledgers
<1>8. QED
  BY <1>3, <1>4, <1>5, <1>6, <1>7 DEF Next, Handle

\* Votes in a map stay there.
LEMMA TalliesGrow ==
  ASSUME TypeOK, RequestInv, [Next]_vars
  PROVE  /\ Current <= Current'
         /\ \A k \in 1..Current, p \in Problocks : tallies[k][p] <= tallies'[k][p]
<1>1. /\ Current \in Nat
      /\ \A k \in 1..Current, p \in Problocks : tallies[k][p] \in Nat
  BY CurrentTally
<1>2. CASE UNCHANGED tallies
  <2>1. Current' = Current
    BY <1>2 DEF Current
  <2>2. ASSUME NEW k \in 1..Current, NEW p \in Problocks
        PROVE  tallies[k][p] <= tallies'[k][p]
    BY <1>1, <1>2
  <2>3. QED
    BY <1>1, <2>1, <2>2
<1>3. ASSUME NEW c \in Clients, CountVote(c)
      PROVE  /\ Current <= Current'
             /\ \A k \in 1..Current, p \in Problocks : tallies[k][p] <= tallies'[k][p]
  <2>1. request[c] \in Problocks
    BY <1>3 DEF CountVote, RequestInv
  <2>2. /\ Current' = Current
        /\ \A k \in 1..Current, p \in Problocks :
             tallies'[k][p] = tallies[k][p]
                              + (IF k = captured[c] /\ p = request[c] THEN 1 ELSE 0)
    BY <1>3, <2>1, CountVoteType
  <2>3. ASSUME NEW k \in 1..Current, NEW p \in Problocks
        PROVE  tallies[k][p] <= tallies'[k][p]
    BY <1>1, <2>2
  <2>4. QED
    BY <1>1, <2>2, <2>3
<1>4. ASSUME NEW c \in Clients, ResetShard(c)
      PROVE  /\ Current <= Current'
             /\ \A k \in 1..Current, p \in Problocks : tallies[k][p] <= tallies'[k][p]
  <2>1. tallies' = Append(tallies, EmptyTally)
    BY <1>4 DEF ResetShard, NewTallies
  <2>2. EmptyTally \in [Problocks -> Nat]
    BY DEF EmptyTally
  <2>3. Current' = Current + 1 /\ \A i \in 1..Current : tallies'[i] = tallies[i]
    BY <2>1, <2>2 DEF TypeOK, Current
  <2>4. QED
    BY <1>1, <2>3
<1>5. QED
  BY <1>2, <1>3, <1>4, StepCounts


\* Those votes stay in their map, which closes when the commit ends.
LEMMA TalliedFrame ==
  ASSUME TypeOK, TypeOK', RequestInv, [Next]_vars,
         NEW i \in 1..Len(chain), Tallied(i), chain'[i] = chain[i],
         \/ Current < Current'
         \/ leaderLock' # NoClient
         \/ GetHeight' = 0
         \/ UNCHANGED <<leaderLock, blocks>>
  PROVE  Tallied(i)'
<1>1. PICK k \in 1..Current :
        /\ tallies[k][ProblockOf(chain[i])] >= LeaderQuorum
        /\ k < Current \/ leaderLock # NoClient \/ GetHeight = 0
  BY DEF Tallied
<1>2. PICK p \in Problocks : p = ProblockOf(chain[i])
  BY ProblockOfBlock DEF TypeOK
<1>3. ProblockOf(chain[i])' = p
  BY <1>2 DEF ProblockOf
<1>4. Current \in Nat /\ Current' \in Nat /\ tallies[k][p] \in Nat /\ LeaderQuorum \in Nat
  <2>1. LeaderQuorum \in Nat
    BY ConstantsAssumption DEF LeaderQuorum
  <2>2. Current \in Nat /\ Current' \in Nat
    BY DEF TypeOK
  <2>3. QED
    BY <1>2, <2>1, <2>2, CurrentTally
<1>5. Current <= Current' /\ tallies[k][p] <= tallies'[k][p]
  BY <1>2, TalliesGrow
<1>6. k \in 1..Current'
  BY <1>4, <1>5
<1>7. tallies'[k][p] \in Nat
  BY <1>6 DEF TypeOK, Current
<1>8. tallies'[k][p] >= LeaderQuorum
  BY <1>1, <1>2, <1>4, <1>5, <1>7
<1>9. k < Current' \/ leaderLock' # NoClient \/ GetHeight' = 0
  <2>1. CASE Current < Current'
    BY <1>4, <2>1
  <2>2. CASE UNCHANGED <<leaderLock, blocks>>
    <3>1. GetHeight' = GetHeight
      BY <2>2 DEF GetHeight
    <3>2. k < Current => k < Current'
      BY <1>4, <1>5
    <3>3. QED
      BY <1>1, <2>2, <3>1, <3>2
  <2>3. QED
    BY <2>1, <2>2
<1>10. QED
  BY <1>3, <1>6, <1>8, <1>9 DEF Tallied

LEMMA StepTallied ==
  ASSUME TypeOK, TypeOK', RequestInv, TableInv, LockInv, TalliedInv, [Next]_vars
  PROVE  TalliedInv'
<1>1. ASSUME UNCHANGED chain,
             \/ Current < Current'
             \/ leaderLock' # NoClient
             \/ GetHeight' = 0
             \/ UNCHANGED <<leaderLock, blocks>>
      PROVE  TalliedInv'
  <2>1. ASSUME NEW i \in 1..Len(chain)
        PROVE  Tallied(i)'
    <3>1. Tallied(i) /\ chain'[i] = chain[i]
      BY <1>1 DEF TalliedInv
    <3>2. QED
      BY <1>1, <3>1, TalliedFrame
  <2>2. QED
    BY <1>1, <2>1 DEF TalliedInv
<1>2. ASSUME NEW c \in Clients, AppendToChain(c)
      PROVE  TalliedInv'
  <2>1. PICK p \in Problocks :
          /\ tallies'[Current][p] \in Nat
          /\ tallies'[Current][p] >= LeaderQuorum
          /\ chain' = Append(chain, MakeBlock(p, tallies'[Current][p]))
    BY <1>2, AppendedBlock
  <2>2. PICK b \in BlockRecords : ProblockOf(b) = p /\ chain' = Append(chain, b)
    BY <2>1, MakeBlockType
  <2>3. /\ Len(chain') = Len(chain) + 1 /\ Len(chain) \in Nat
        /\ \A i \in 1..Len(chain) : chain'[i] = chain[i]
        /\ chain'[Len(chain) + 1] = b
    <3>1. chain \in Seq(BlockRecords)
      BY DEF TypeOK
    <3>2. QED
      BY <2>2, <3>1
  <2>4. leaderLock' = c /\ c # NoClient
    BY <1>2, ConstantsAssumption DEF AppendToChain
  <2>5. Current' = Current /\ Current \in Nat \ {0}
    <3>1. CountVote(c) /\ request[c] \in Problocks
      BY <1>2 DEF AppendToChain, CountVote, RequestInv
    <3>2. QED
      BY <3>1, CountVoteType, CurrentTally
  <2>6. ASSUME NEW i \in 1..Len(chain')
        PROVE  Tallied(i)'
    <3>1. CASE i \in 1..Len(chain)
      <4>1. Tallied(i) /\ chain'[i] = chain[i]
        BY <2>3, <3>1 DEF TalliedInv
      <4>2. QED
        BY <2>4, <3>1, <4>1, TalliedFrame
    <3>2. CASE i = Len(chain) + 1
      <4>1. ProblockOf(chain[i])' = p
        BY <2>2, <2>3, <3>2 DEF ProblockOf
      <4>2. Current \in 1..Current'
        BY <2>5
      <4>3. QED
        BY <2>1, <2>4, <2>5, <4>1, <4>2 DEF Tallied
    <3>3. QED
      BY <2>3, <3>1, <3>2
  <2>7. QED
    BY <2>6 DEF TalliedInv
<1>3. ASSUME NEW c \in Clients, InsertRow(c)
      PROVE  TalliedInv'
  <2>1. pc[c] \in Holding /\ UNCHANGED <<leaderLock, chain>>
    BY <1>3 DEF InsertRow, Holding
  <2>2. leaderLock' = c /\ c # NoClient
    BY <2>1, ConstantsAssumption DEF LockInv
  <2>3. QED
    BY <1>1, <2>1, <2>2
<1>4. ASSUME NEW c \in Clients, ExecutePanics(c)
      PROVE  TalliedInv'
  <2>1. GetHeight = 0 /\ UNCHANGED <<chain, blocks>>
    BY <1>4 DEF ExecutePanics, ledgers
  <2>2. GetHeight' = 0
    BY <2>1 DEF GetHeight
  <2>3. QED
    BY <1>1, <2>1, <2>2
<1>5. ASSUME NEW c \in Clients, ResetShard(c)
      PROVE  TalliedInv'
  <2>1. tallies' = Append(tallies, EmptyTally) /\ UNCHANGED chain
    BY <1>5 DEF ResetShard, NewTallies, ledgers
  <2>2. EmptyTally \in [Problocks -> Nat]
    BY DEF EmptyTally
  <2>3. Current' = Current + 1 /\ Current \in Nat
    BY <2>1, <2>2 DEF TypeOK, Current
  <2>4. Current < Current'
    BY <2>3
  <2>5. QED
    BY <1>1, <2>1, <2>4
<1>6. ASSUME NEW c \in Clients, \/ Register(c) \/ Upload(c) \/ Acknowledge(c) \/ Refuse(c)
                                \/ Execute(c)
      PROVE  TalliedInv'
  BY <1>1, <1>6 DEF Register, Upload, Acknowledge, Refuse, Execute, ledgers
<1>7. CASE UNCHANGED vars
  BY <1>1, <1>7 DEF vars, ledgers
<1>8. QED
  BY <1>2, <1>3, <1>4, <1>5, <1>6, <1>7 DEF Next, Handle

\* Before the first row is in the table, everybody who may vote has voted once a
\* block is on the chain.
LEMMA NobodyLeft ==
  ASSUME ~Resend, TypeOK, RequestInv, VotedInv, MembersInv, OneVoteInv, TotalInv,
         GetHeight = 0, chain # <<>>, NEW c \in Clients, pc[c] = "waiting"
  PROVE  FALSE
<1>1. /\ request[c] \in Problocks /\ request[c].height = uploaded[c]
      /\ c \in committee[request[c].height]
  BY DEF RequestInv, MembersInv
<1>2. \A p \in Problocks : committee[p.height] # {} => p.height = 1
  <2> TAKE p \in Problocks
  <2>1. p.height \in Heights /\ p.height \in Int /\ p.height >= 1
    BY DEF Problocks, Heights
  <2>2. committee[p.height] # {} => p.height <= 0 + 1
    BY <2>1 DEF MembersInv
  <2>3. QED
    BY <2>1, <2>2
<1>3. request[c].height = 1 /\ 1 \in Heights
  BY <1>1, <1>2 DEF Problocks
<1>4. \A v \in voted : /\ v[1] \in Clients /\ v[2] \in Problocks /\ v = <<v[1], v[2]>>
                       /\ v[2].height = 1 /\ v[1] \in committee[1]
  <2> TAKE v \in voted
  <2>1. v[1] \in Clients /\ v[2] \in Problocks /\ v = <<v[1], v[2]>>
    BY DEF TypeOK
  <2>2. v[1] \in committee[v[2].height]
    BY <2>1 DEF MembersInv
  <2>3. QED
    BY <1>2, <2>1, <2>2
<1> DEFINE voter == [v \in voted |-> v[1]]
<1>5. voter \in Injection(voted, committee[1])
  <2>1. voter \in [voted -> committee[1]]
    BY <1>4
  <2>2. ASSUME NEW v \in voted, NEW w \in voted, v[1] = w[1]
        PROVE  v = w
    <3>1. {<<v[1], v[2]>>, <<v[1], w[2]>>} \subseteq voted
      BY <1>4, <2>2
    <3>2. v[2] = w[2]
      BY <1>4, <3>1 DEF OneVoteInv
    <3>3. QED
      BY <1>4, <2>2, <3>2
  <2>3. QED
    BY <2>1, <2>2 DEF Injection, IsInjective
<1>6. IsFiniteSet(committee[1]) /\ Cardinality(committee[1]) <= OrderClientNum
  <2>1. committee[1] \in SUBSET Clients
    BY <1>3 DEF TypeOK
  <2>2. QED
    BY <1>3, <2>1, ConstantsAssumption, FS_Subset DEF MembersInv
<1>7. OrderClientNum <= Cardinality(voted) /\ IsFiniteSet(voted)
  BY DEF TotalInv
<1> HIDE DEF voter
<1>8. Cardinality(voted) <= Cardinality(committee[1])
  BY <1>5, <1>6, FS_Injection
<1>9. Cardinality(voted) \in Nat /\ Cardinality(committee[1]) \in Nat
  BY <1>6, <1>7, FS_CardinalityType
<1>10. Cardinality(voted) = Cardinality(committee[1])
  BY <1>6, <1>7, <1>8, <1>9, ConstantsAssumption
<1>11. voter \in Surjection(voted, committee[1])
  BY <1>5, <1>6, <1>10, FS_Injection
<1>12. c \in committee[1]
  BY <1>1, <1>3
<1>13. PICK v \in voted : voter[v] = c
  BY <1>11, <1>12 DEF Surjection
<1>14. v[1] = c
  BY <1>13 DEF voter
<1>15. <<c, v[2]>> \in voted /\ v[2] \in Problocks /\ v[2].height = 1
  BY <1>4, <1>14
<1>16. v[2].height < uploaded[c]
  BY <1>15 DEF VotedInv
<1>17. QED
  BY <1>1, <1>3, <1>15, <1>16


\* A block is appended at the height after the last one, even when rows are lost:
\* the votes for a height that is on the chain leave no second quorum for it.
LEMMA NextHeightOnly ==
  ASSUME ~Resend, QuorumsIntersect, IndInv, QuorumInv, MembersInv', OneVoteInv', PairInv',
         NEW c \in Clients, AppendToChain(c)
  PROVE  GetHeight = Len(chain)
<1> USE DEF IndInv, QuorumInv
<1>1. /\ CountVote(c) /\ leaderLock = NoClient /\ pc[c] = "waiting"
      /\ request[c] \in Problocks /\ UNCHANGED committee
  BY DEF AppendToChain, CountVote, RequestInv
<1>2. GetHeight <= Len(chain) /\ Len(chain) \in Nat /\ GetHeight \in Nat
  BY <1>1, FreeLock, QuietCounts, GetHeightType DEF Holding, ChainMatchesTable
<1>3. PICK p \in Problocks :
        /\ tallies'[Current][p] \in Nat
        /\ tallies'[Current][p] >= LeaderQuorum
        /\ p.height = GetHeight + 1
  BY AppendedBlock
<1>4. SUFFICES ASSUME GetHeight < Len(chain)
               PROVE  FALSE
  BY <1>2
<1>5. PICK i \in 1..Len(chain) : i = GetHeight + 1
  BY <1>2, <1>4
<1>6. PICK b \in Problocks : b = ProblockOf(chain[i]) /\ b.height = p.height
  <2>1. chain[i] \in BlockRecords /\ chain[i].height = i
    <3>1. chain \in Seq(BlockRecords)
      BY DEF TypeOK
    <3>2. \A k \in 1..Len(chain) : chain[k].height = k
      BY DEF HeightsInv
    <3>3. i \in 1..Len(chain)
      BY <1>5
    <3>4. chain[i] \in BlockRecords
      BY <3>1, <3>3
    <3>5. QED
      BY <3>2, <3>3, <3>4
  <2>2. ProblockOf(chain[i]) \in Problocks /\ ProblockOf(chain[i]).height = chain[i].height
    BY <2>1, ProblockOfBlock DEF ProblockOf
  <2>3. QED
    BY <1>3, <1>5, <2>1, <2>2
<1>7. /\ LeaderQuorum \in Nat /\ OrderClientNum \in Nat
      /\ 2 * LeaderQuorum > OrderClientNum
  BY ConstantsAssumption DEF LeaderQuorum, QuorumsIntersect
<1>8. chain # <<>>
  BY <1>2, <1>4
<1>9. GetHeight # 0
  BY <1>1, <1>8, NobodyLeft
<1>10. PICK k \in 1..Current : k < Current /\ tallies[k][b] >= LeaderQuorum
  BY <1>1, <1>6, <1>9 DEF TalliedInv, Tallied
<1>11. /\ Current \in 1..Current /\ Current' = Current /\ k # Current
       /\ tallies[k][b] \in Nat /\ tallies'[k][b] \in Nat
       /\ tallies[k][b] <= tallies'[k][b]
  <2>1. Current \in Nat \ {0} /\ tallies[k][b] \in Nat
    BY CurrentTally
  <2>2. /\ Current' = Current
        /\ tallies'[k][b] = tallies[k][b] + (IF k = captured[c] /\ b = request[c] THEN 1 ELSE 0)
    BY <1>1, CountVoteType
  <2>3. QED
    BY <1>10, <2>1, <2>2
<1> DEFINE U == committee'[p.height]
           S == {d \in Clients : <<d, b>> \in voted'}
           T == {d \in Clients : <<d, p>> \in voted'}
<1>12. p.height \in Heights
  BY DEF Problocks
<1>13. IsFiniteSet(U) /\ Cardinality(U) <= OrderClientNum /\ Cardinality(U) \in Nat
  <2>1. U \in SUBSET Clients
    BY <1>1, <1>12 DEF TypeOK
  <2>2. IsFiniteSet(U)
    BY <2>1, ConstantsAssumption, FS_Subset
  <2>3. QED
    BY <1>12, <2>2, FS_CardinalityType DEF MembersInv
<1>14. S \subseteq U /\ T \subseteq U
  BY <1>6 DEF MembersInv
<1>15. /\ Cardinality(S) \in Nat /\ Cardinality(T) \in Nat
       /\ Cardinality(S) <= Cardinality(U) /\ Cardinality(T) <= Cardinality(U)
  BY <1>13, <1>14, FS_Subset, FS_CardinalityType
<1>16. S = Voters(b)' /\ T = Voters(p)'
  BY DEF Voters
<1>17. CASE b = p
  <2>1. tallies'[k][p] + tallies'[Current][p] <= Cardinality(T)
    BY <1>11, <1>16 DEF PairInv
  <2>2. tallies'[k][p] >= LeaderQuorum
    BY <1>7, <1>10, <1>11, <1>17
  <2> HIDE DEF T, U, S
  <2>3. tallies'[k][p] \in Nat
    BY <1>11, <1>17
  <2>4. QED
    BY <1>3, <1>7, <1>13, <1>15, <2>1, <2>2, <2>3
<1>18. CASE b # p
  <2>1. S \cap T = {}
    <3> SUFFICES ASSUME NEW d \in S \cap T PROVE FALSE
      OBVIOUS
    <3>1. d \in Clients /\ {<<d, b>>, <<d, p>>} \subseteq voted'
      OBVIOUS
    <3>2. QED
      BY <1>6, <1>18, <3>1 DEF OneVoteInv
  <2>2. TallyInv'
    BY <1>1, CountTally
  <2>3. tallies'[k][b] <= Cardinality(S) /\ tallies'[Current][p] <= Cardinality(T)
    BY <1>11, <1>16, <2>2 DEF TallyInv
  <2> HIDE DEF S, T, U
  <2>4. Cardinality(S) + Cardinality(T) > Cardinality(U)
    <3>1. LeaderQuorum <= Cardinality(S)
      BY <1>7, <1>10, <1>11, <1>15, <2>3
    <3>2. LeaderQuorum <= Cardinality(T)
      BY <1>3, <1>7, <1>15, <2>3
    <3>3. QED
      BY <1>7, <1>13, <1>15, <3>1, <3>2
  <2>5. QED
    BY <1>13, <1>14, <2>1, <2>4, FS_MajoritiesIntersect
<1>19. QED
  BY <1>17, <1>18

LEMMA StepHeights ==
  ASSUME IndInv, QuorumInv, MembersInv', ~Resend => OneVoteInv' /\ PairInv', [Next]_vars
  PROVE  HeightsInv'
<1> SUFFICES ASSUME ~Resend, QuorumsIntersect
             PROVE  \A i \in 1..Len(chain') : chain'[i].height = i
  BY DEF HeightsInv, QuorumsIntersect, LeaderQuorum
<1>1. chain \in Seq(BlockRecords) /\ \A i \in 1..Len(chain) : chain[i].height = i
  BY DEF IndInv, TypeOK, QuorumInv, HeightsInv
<1>2. CASE UNCHANGED chain
  BY <1>1, <1>2
<1>3. ASSUME NEW c \in Clients, AppendToChain(c)
      PROVE  \A i \in 1..Len(chain') : chain'[i].height = i
  <2>1. GetHeight = Len(chain)
    BY <1>3, NextHeightOnly
  <2>2. PICK p \in Problocks :
          /\ tallies'[Current][p] \in Nat
          /\ p.height = GetHeight + 1
          /\ chain' = Append(chain, MakeBlock(p, tallies'[Current][p]))
    BY <1>3, AppendedBlock DEF IndInv
  <2>3. PICK b \in BlockRecords : b.height = Len(chain) + 1 /\ chain' = Append(chain, b)
    BY <2>1, <2>2, MakeBlockType
  <2>4. QED
    BY <1>1, <2>3
<1>4. [Next]_vars => UNCHANGED chain \/ \E c \in Clients : AppendToChain(c)
  BY DEF Next, Handle, vars, ledgers, Register, Upload, Acknowledge, Refuse, InsertRow,
         Execute, ExecutePanics, ResetShard
<1>5. QED
  BY <1>2, <1>3, <1>4

LEMMA StepQuorum ==
  ASSUME IndInv, IndInv', QuorumInv, [Next]_vars
  PROVE  QuorumInv'
<1> USE DEF QuorumInv
<1>1. MembersInv'
  <2>1. Grows
    BY StepGrows DEF IndInv, ChainMatchesTable
  <2>2. GetHeight' \in Nat
    <3>1. \A b \in blocks' : b.height \in Nat
      BY DEF IndInv, TypeOK, BlockRecords, Heights
    <3>2. blocks' # {} => \E b \in blocks' : \A d \in blocks' : d.height <= b.height
      BY DEF IndInv, TableInv
    <3>3. QED
      BY <3>1, <3>2 DEF GetHeight
  <2>3. QED
    BY <2>1, <2>2, StepMembers DEF Grows, IndInv
<1>2. ~Resend => OneVoteInv' /\ PairInv' /\ TotalInv'
  BY StepOneVote, StepPair, StepTotal DEF IndInv
<1>3. Resend => OneVoteInv' /\ PairInv' /\ TotalInv'
  BY DEF OneVoteInv, PairInv, TotalInv
<1>4. TalliedInv'
  BY StepTallied DEF IndInv
<1>5. HeightsInv'
  BY <1>1, <1>2, StepHeights
<1>6. QED
  BY <1>1, <1>2, <1>3, <1>4, <1>5

LEMMA InitQuorum == Init => QuorumInv
<1> SUFFICES ASSUME Init PROVE QuorumInv
  OBVIOUS
<1>1. MembersInv
  BY FS_EmptySet, ConstantsAssumption DEF Init, MembersInv, Heights
<1>2. OneVoteInv /\ TalliedInv /\ HeightsInv
  BY DEF Init, OneVoteInv, TalliedInv, HeightsInv
<1>3. Current = 1 /\ tallies[1] = EmptyTally
  BY DEF Init, Current
<1>4. PairInv
  BY <1>3 DEF PairInv
<1>5. TotalInv
  BY <1>3, EmptyTotal, FS_EmptySet DEF Init, TotalInv
<1>6. QED
  BY <1>1, <1>2, <1>4, <1>5 DEF QuorumInv

-----------------------------------------------------------------------------
(* The theorems.                                                           *)

(* The inductive invariant: it ties the lock to the handlers between append and
   return, the table to the chain, and every tally to the clients that voted. *)
THEOREM IndInvariant == Spec => []IndInv
<1>1. Init => IndInv
  BY InitTypes, InitLock, InitChained, InitVotes DEF IndInv
<1>2. IndInv /\ [Next]_vars => IndInv'
  BY StepInd
<1>3. QED
  BY <1>1, <1>2, PTL DEF Spec

(* Every variable stays in its type: in particular a handler always holds a map
   that exists and executes a window that starts at a non-negative index. *)
THEOREM TypeCorrect == Spec => []TypeOK
<1>1. IndInv => TypeOK
  BY DEF IndInv
<1>2. QED
  BY <1>1, IndInvariant, PTL

(* As long as no insertion has failed, chain, table and executed windows agree in
   every state: the chain has no gap and no fork, and each window has been
   executed once, in order.  Nothing else makes them differ. *)
THEOREM ChainIsTable == Spec => []ChainMatchesTable
<1>1. IndInv => ChainMatchesTable
  BY DEF IndInv
<1>2. QED
  BY <1>1, IndInvariant, PTL

(* When clients do not repeat uploads, the votes of every block on the chain are
   those of different clients that all voted for it, a quorum at least. *)
THEOREM BlocksHaveQuorum == Spec => []VotesAreDistinctVoters
<1>1. IndInv => VotesAreDistinctVoters
  BY DEF IndInv
<1>2. QED
  BY <1>1, IndInvariant, PTL

(* The votes behind the quorums: a vote is in one map, cast by a member of the
   committee that votes once for a height, and the votes that committed a block are
   in a map that is closed by the time another block can be committed. *)
THEOREM QuorumInvariant == Spec => []QuorumInv
<1>1. IndInv /\ IndInv' /\ QuorumInv /\ [Next]_vars => QuorumInv'
  BY StepQuorum
<1>2. QED
  BY <1>1, InitQuorum, IndInvariant, PTL DEF Spec

\* A block is appended only while the table has all the blocks of the chain.
LEMMA AppendToFullTable ==
  ASSUME ~Resend, ~DBFaults \/ QuorumsIntersect, IndInv, QuorumInv, QuorumInv',
         NEW c \in Clients, AppendToChain(c)
  PROVE  GetHeight = Len(chain) /\ ~RowLost
<1>1. leaderLock = NoClient
  BY DEF AppendToChain, CountVote
<1>2. Persisted = Len(chain) /\ Len(chain) \in Nat
  BY <1>1, FreeLock, QuietCounts DEF Holding, IndInv
<1>3. CASE ~DBFaults
  BY <1>2, <1>3, HeightOfTable DEF IndInv, ChainMatchesTable, RowLost
<1>4. CASE QuorumsIntersect
  <2>1. GetHeight = Len(chain)
    BY <1>4, NextHeightOnly DEF QuorumInv
  <2>2. QED
    BY <1>2, <2>1 DEF RowLost
<1>5. QED
  BY <1>3, <1>4

(* A chain ahead of its table is never extended: the height the table waits for is
   on the chain, its committee has voted, and no second quorum of it is left in any
   map, neither for another problock nor for the same one. *)
THEOREM LostRowIsTheEnd == Spec => LostRowEndsChain
<1>1. ASSUME IndInv, QuorumInv, QuorumInv', [Next]_vars
      PROVE  [~Resend /\ QuorumsIntersect /\ RowLost => UNCHANGED chain]_vars
  <2>1. [Next]_vars => UNCHANGED chain \/ \E c \in Clients : AppendToChain(c)
    BY DEF Next, Handle, vars, ledgers, Register, Upload, Acknowledge, Refuse, InsertRow,
           Execute, ExecutePanics, ResetShard
  <2>2. QED
    BY <1>1, <2>1, AppendToFullTable
<1>2. QED
  BY <1>1, IndInvariant, QuorumInvariant, PTL DEF Spec, LostRowEndsChain

(* When clients do not repeat uploads, and the table does not fail or quorums
   intersect, the handlers of the server implement the abstract ledger: blocks are
   appended one height at a time, each with a quorum of votes for it, whatever the
   interleaving of the handlers and however many maps votes were lost in. *)
THEOREM HandlersImplementLedger ==
  ASSUME ~Resend, ~DBFaults \/ QuorumsIntersect
  PROVE  Spec => ImplementsLedger
<1>1. ASSUME IndInv, QuorumInv, QuorumInv', [Next]_vars
      PROVE  [L!Next]_(L!vars)
  <2>1. \A c \in Clients : AppendToChain(c) => GetHeight = Len(chain)
    BY <1>1, AppendToFullTable
  <2>2. QED
    BY <1>1, <2>1, StepLedger DEF IndInv
<1>2. QED
  BY <1>1, InitLedger, IndInvariant, QuorumInvariant, PTL DEF Spec, ImplementsLedger, L!Spec
=============================================================================
