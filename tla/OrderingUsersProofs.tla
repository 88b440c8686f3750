------------------------- MODULE OrderingUsersProofs -------------------------
(***************************************************************************)
(* Proofs about the modules that build on LeaderProblocks: ChainReaders,   *)
(* for any number of clients, readers, shards and rounds, and Rounds, for  *)
(* any number of order clients, execution clients, shards and rounds.  In  *)
(* both, insertions may fail.                                              *)
(***************************************************************************)
EXTENDS ChainReaders, Rounds, LeaderProblocksProofs

\* The proofs about the state roots, for the roots in Rounds.
RP == INSTANCE RootVotesProofs WITH
        Clients <- ExecClients, height <- GetHeight, committer <- Committer,
        pc <- rootPc, request <- rootRequest, voted <- rootsVoted

-----------------------------------------------------------------------------
(* Readers: lengths and heights.                                           *)

LEMMA HeightBound ==
  ASSUME TypeOK, TableInv
  PROVE  GetHeight \in 0..MaxHeight
BY ConstantsAssumption DEF TypeOK, TableInv, GetHeight, BlockRecords, Heights

\* Lengths and heights are numbers, and the chain is at most one block ahead of
\* what the table should have.
LEMMA Lengths ==
  ASSUME ReadersInv
  PROVE  /\ GetHeight \in Nat /\ Len(chain) \in Nat /\ Persisted \in Nat
         /\ GetHeight <= Persisted /\ Persisted <= Len(chain) /\ Len(chain) <= Persisted + 1
         /\ \A r \in Readers : told[r] \in Nat /\ length[r] \in Nat /\ table[r] \in Nat
<1> USE DEF ReadersInv, IndInv
<1>1. GetHeight \in Nat /\ Len(chain) \in Nat
  BY GetHeightType DEF TypeOK
<1>2. Len(chain) >= 1 \/ \A c \in Clients : pc[c] # "appended"
  BY DEF CommitInv
<1>3. \A r \in Readers : told[r] \in Nat /\ length[r] \in Nat /\ table[r] \in Nat
  BY <1>1 DEF ReadersTypeOK
<1>4. QED
  BY <1>1, <1>2, <1>3 DEF ChainMatchesTable, Persisted

\* The height of the table is that of the rows it was told to insert.
LEMMA HeightWithoutLoss ==
  ASSUME ReadersInv, ~RowLost
  PROVE  GetHeight = Persisted /\ Chained
BY Lengths DEF ReadersInv, IndInv, ChainMatchesTable, RowLost

-----------------------------------------------------------------------------
(* A step of the ordering.                                                 *)

LEMMA OrderingStep ==
  ASSUME ReadersInv, [Next]_vars, UNCHANGED readers
  PROVE  ReadersInv'
<1>1. Grows
  BY StepGrows DEF ReadersInv, IndInv, ChainMatchesTable
<1>2. IndInv'
  BY StepInd DEF ReadersInv
<1>3. UNCHANGED <<reader, told, length, table, served>>
  BY DEF readers
<1>4. /\ GetHeight \in Nat /\ Len(chain) \in Nat
      /\ GetHeight' \in Nat /\ Len(chain') \in Nat
  <2>1. GetHeight' \in Nat
    <3>1. TableInv' /\ \A b \in blocks' : b.height \in Nat
      BY <1>2 DEF IndInv, TypeOK, BlockRecords, Heights
    <3>2. CASE blocks' = {}
      BY <3>2 DEF GetHeight
    <3>3. CASE blocks' # {}
      <4>1. PICK b \in blocks' : /\ \A d \in blocks' : d.height <= b.height
                                /\ GetHeight' = b.height
        BY <3>1, <3>3 DEF TableInv, GetHeight
      <4>2. QED
        BY <3>1, <4>1
    <3>4. QED
      BY <3>2, <3>3
  <2>2. Len(chain') \in Nat
    BY <1>2 DEF IndInv, TypeOK
  <2>3. QED
    BY <2>1, <2>2, Lengths
<1>5. ReadersTypeOK'
  BY <1>1, <1>3, <1>4 DEF ReadersInv, ReadersTypeOK, Grows
<1>6. ToldInv' /\ ReadingInv' /\ PanicsOnlyWhenStale'
  BY <1>1, <1>3, <1>4, Lengths
     DEF ReadersInv, ToldInv, ReadingInv, PanicsOnlyWhenStale, Grows
<1>7. BlockIsTheOneAskedFor'
  BY <1>1, <1>3 DEF ReadersInv, BlockIsTheOneAskedFor, Grows
<1>8. SuffixReachesTable'
  BY <1>1, <1>3 DEF ReadersInv, SuffixReachesTable, Consecutive, Grows
<1>9. QED
  BY <1>2, <1>5, <1>6, <1>7, <1>8 DEF ReadersInv

-----------------------------------------------------------------------------
(* What a slice of the chain is.                                           *)

LEMMA SliceOfChain ==
  ASSUME TypeOK, NEW from \in Int, NEW to \in Nat, Legal(from, to, to), to <= Len(chain)
  PROVE  /\ Slice(from, to) \in Seq(BlockRecords)
         /\ Len(Slice(from, to)) = to - from
         /\ \A i \in 1..(to - from) : Slice(from, to)[i] = chain[from + i]
<1>1. from \in Nat /\ to - from \in Nat /\ Len(chain) \in Nat
  BY DEF Legal, TypeOK
<1>2. \A i \in 1..(to - from) : chain[from + i] \in BlockRecords
  BY <1>1 DEF TypeOK
<1>3. Slice(from, to) \in [1..(to - from) -> BlockRecords]
  BY <1>2 DEF Slice
<1>4. QED
  BY <1>1, <1>3 DEF Slice

-----------------------------------------------------------------------------
(* A step of a reader.                                                     *)

\* Each reader by itself.
Served(r) ==
  /\ reader[r] \in {"idle", "told", "reading", "block", "suffix", "panicked"}
  /\ told[r] \in 0..MaxHeight /\ length[r] \in 0..Len(chain) /\ table[r] \in 0..MaxHeight
  /\ served[r] \in Seq(BlockRecords)
  /\ told[r] <= GetHeight
  /\ reader[r] = "reading" => told[r] <= length[r]
  /\ reader[r] = "panicked" => told[r] < 3 /\ 3 <= table[r]

ServedBlock(r) ==
  ~RowLost /\ reader[r] = "block" /\ told[r] >= 1 =>
    \E b \in blocks : b.height = told[r] /\ served[r] = <<b>>

ServedSuffix(r) ==
  ~RowLost /\ reader[r] = "suffix" /\ served[r] # <<>> =>
    /\ Consecutive(served[r])
    /\ served[r][1].height = IF table[r] >= 3 THEN told[r] - 2 ELSE 1
    /\ told[r] <= served[r][Len(served[r])].height
    /\ served[r][Len(served[r])].height <= table[r] + 1


LEMMA EachReader ==
  ASSUME ReadersInv, NEW r \in Readers
  PROVE  Served(r) /\ ServedBlock(r) /\ ServedSuffix(r)
<1>1. Served(r)
  BY DEF ReadersInv, ReadersTypeOK, ToldInv, ReadingInv, PanicsOnlyWhenStale, Served
<1>2. ServedBlock(r)
  BY DEF ReadersInv, BlockIsTheOneAskedFor, ServedBlock
<1>3. ServedSuffix(r)
  BY DEF ReadersInv, SuffixReachesTable, ServedSuffix
<1>4. QED
  BY <1>1, <1>2, <1>3

\* A step of reader r alone preserves the invariant if it does so for r.
LEMMA OneReader ==
  ASSUME ReadersInv, UNCHANGED vars, NEW r \in Readers,
         reader' = [reader EXCEPT ![r] = reader'[r]],
         told'   = [told EXCEPT ![r] = told'[r]],
         length' = [length EXCEPT ![r] = length'[r]],
         table'  = [table EXCEPT ![r] = table'[r]],
         served' = [served EXCEPT ![r] = served'[r]],
         Served(r)', ServedBlock(r)', ServedSuffix(r)'
  PROVE  ReadersInv'
<1>1. IndInv'
  BY StepInd DEF ReadersInv
<1>2. /\ UNCHANGED <<chain, blocks, pc>>
      /\ GetHeight' = GetHeight /\ RowLost' = RowLost
  BY DEF vars, handler, ledgers, GetHeight, RowLost, Persisted
<1>3. ASSUME NEW q \in Readers
      PROVE  Served(q)' /\ ServedBlock(q)' /\ ServedSuffix(q)'
  <2>1. CASE q = r
    BY <2>1
  <2>2. CASE q # r
    <3>1. UNCHANGED <<reader[q], told[q], length[q], table[q], served[q]>>
      BY <2>2 DEF ReadersInv, ReadersTypeOK
    <3>2. Served(q) /\ ServedBlock(q) /\ ServedSuffix(q)
      BY EachReader
    <3>3. QED
      BY <1>2, <3>1, <3>2 DEF Served, ServedBlock, ServedSuffix, Consecutive
  <2>3. QED
    BY <2>1, <2>2
<1>4. ReadersTypeOK'
  <2>1. \A q \in Readers : Served(q)'
    BY <1>3
  <2>2. /\ reader' \in [Readers -> {"idle", "told", "reading", "block", "suffix", "panicked"}]
        /\ told' \in [Readers -> 0..MaxHeight]
        /\ length' \in [Readers -> 0..Len(chain')]
        /\ table' \in [Readers -> 0..MaxHeight]
    BY <1>2, <2>1 DEF Served, ReadersInv, ReadersTypeOK
  <2>3. served' \in [Readers -> Seq(BlockRecords)]
    BY <2>1 DEF Served, ReadersInv, ReadersTypeOK
  <2>4. QED
    BY <2>2, <2>3 DEF ReadersTypeOK
<1>5. ToldInv' /\ ReadingInv' /\ PanicsOnlyWhenStale'
  BY <1>3 DEF ToldInv, ReadingInv, PanicsOnlyWhenStale, Served
<1>6. BlockIsTheOneAskedFor'
  BY <1>3 DEF BlockIsTheOneAskedFor, ServedBlock
<1>7. SuffixReachesTable'
  BY <1>3 DEF SuffixReachesTable, ServedSuffix
<1>8. QED
  BY <1>1, <1>4, <1>5, <1>6, <1>7 DEF ReadersInv

LEMMA AskStep ==
  ASSUME ReadersInv, NEW r \in Readers, AskHeight(r)
  PROVE  ReadersInv'
<1>1. UNCHANGED vars /\ UNCHANGED <<length, table>>
  BY DEF AskHeight
<1>2. /\ told'   = [told EXCEPT ![r] = GetHeight]
      /\ reader' = [reader EXCEPT ![r] = "told"]
      /\ served' = [served EXCEPT ![r] = <<>>]
  BY DEF AskHeight
<1>3. /\ told'[r] = GetHeight /\ reader'[r] = "told" /\ served'[r] = <<>>
      /\ length'[r] = length[r] /\ table'[r] = table[r]
  BY <1>1, <1>2 DEF ReadersInv, ReadersTypeOK
<1>4. GetHeight' = GetHeight /\ chain' = chain
  BY <1>1 DEF vars, ledgers, GetHeight
<1>5. GetHeight \in 0..MaxHeight /\ Served(r)
  BY HeightBound, EachReader DEF ReadersInv, IndInv
<1>6. Served(r)'
  BY <1>3, <1>4, <1>5 DEF Served
<1>7. ServedBlock(r)' /\ ServedSuffix(r)'
  BY <1>3 DEF ServedBlock, ServedSuffix
<1>8. length' = [length EXCEPT ![r] = length'[r]] /\ table' = [table EXCEPT ![r] = table'[r]]
  BY <1>1, <1>3 DEF ReadersInv, ReadersTypeOK
<1>9. QED
  BY <1>1, <1>2, <1>3, <1>6, <1>7, <1>8, OneReader

LEMMA ReadStep ==
  ASSUME ReadersInv, NEW r \in Readers, ReadChain(r)
  PROVE  ReadersInv'
<1>1. UNCHANGED vars /\ UNCHANGED <<told, table, served>>
  BY DEF ReadChain
<1>2. /\ reader[r] = "told"
      /\ length' = [length EXCEPT ![r] = Len(chain)]
      /\ reader' = [reader EXCEPT ![r] = "reading"]
  BY DEF ReadChain, LengthOfChain
<1>3. /\ length'[r] = Len(chain) /\ reader'[r] = "reading"
      /\ told'[r] = told[r] /\ table'[r] = table[r] /\ served'[r] = served[r]
  BY <1>1, <1>2 DEF ReadersInv, ReadersTypeOK
<1>4. GetHeight' = GetHeight /\ chain' = chain
  BY <1>1 DEF vars, ledgers, GetHeight
<1>5. Served(r) /\ told[r] <= Len(chain) /\ Len(chain) \in Nat
  BY EachReader, Lengths DEF Served
<1>6. Served(r)'
  BY <1>3, <1>4, <1>5 DEF Served
<1>7. ServedBlock(r)' /\ ServedSuffix(r)'
  BY <1>3 DEF ServedBlock, ServedSuffix
<1>8. /\ told' = [told EXCEPT ![r] = told'[r]] /\ table' = [table EXCEPT ![r] = table'[r]]
      /\ served' = [served EXCEPT ![r] = served'[r]]
  BY <1>1, <1>3 DEF ReadersInv, ReadersTypeOK
<1>9. QED
  BY <1>1, <1>2, <1>3, <1>6, <1>7, <1>8, OneReader

\* An answer changes reader r and what it is served.
LEMMA AnswerFrame ==
  ASSUME ReadersInv, NEW r \in Readers, NEW kind, NEW from, NEW to, NEW n,
         Answer(r, kind, from, to, n)
  PROVE  /\ reader' = [reader EXCEPT ![r] = reader'[r]]
         /\ served' = [served EXCEPT ![r] = served'[r]]
         /\ Legal(from, to, n) => reader'[r] = kind /\ served'[r] = Slice(from, to)
         /\ ~Legal(from, to, n) => reader'[r] = "panicked" /\ served'[r] = served[r]
BY DEF Answer, ReadersInv, ReadersTypeOK

\* An execution client is served the block below its height, which is in the table.
LEMMA BlockStep ==
  ASSUME ReadersInv, NEW r \in Readers, ServeBlock(r)
  PROVE  ReadersInv'
<1> DEFINE h == told[r]
<1>1. UNCHANGED vars /\ UNCHANGED <<told, length>>
  BY DEF ServeBlock
<1>2. table' = [table EXCEPT ![r] = GetHeight] /\ table'[r] = GetHeight
  BY DEF ServeBlock, ReadersInv, ReadersTypeOK
<1>3. told'[r] = h /\ length'[r] = length[r]
  BY <1>1
<1>4. GetHeight' = GetHeight /\ chain' = chain /\ blocks' = blocks /\ RowLost' = RowLost
  BY <1>1 DEF vars, handler, ledgers, GetHeight, RowLost, Persisted
<1>5. /\ Served(r) /\ h \in Nat /\ h <= GetHeight /\ GetHeight <= Len(chain)
      /\ Len(chain) \in Nat /\ GetHeight \in 0..MaxHeight /\ TypeOK
  BY EachReader, Lengths, HeightBound DEF Served, ReadersInv, IndInv
<1>6. CASE h < 1
  <2>1. Answer(r, "block", 0, 0, 0)
    BY <1>6 DEF ServeBlock
  <2>2. Legal(0, 0, 0)
    BY DEF Legal
  <2>3. /\ reader' = [reader EXCEPT ![r] = reader'[r]]
        /\ served' = [served EXCEPT ![r] = served'[r]]
        /\ reader'[r] = "block" /\ served'[r] = Slice(0, 0)
    BY <2>1, <2>2, AnswerFrame
  <2>4. Slice(0, 0) \in Seq(BlockRecords)
    BY <1>5, <2>2, SliceOfChain
  <2>5. Served(r)' /\ ServedBlock(r)' /\ ServedSuffix(r)'
    BY <1>2, <1>3, <1>4, <1>5, <1>6, <2>3, <2>4 DEF Served, ServedBlock, ServedSuffix
  <2>6. QED
    BY <1>1, <1>2, <1>3, <2>3, <2>5, OneReader DEF ReadersInv, ReadersTypeOK
<1>7. CASE h >= 1
  <2>1. Answer(r, "block", h - 1, h, Len(chain))
    BY <1>5, <1>7 DEF ServeBlock, From
  <2>2. Legal(h - 1, h, Len(chain)) /\ Legal(h - 1, h, h)
    BY <1>5, <1>7 DEF Legal
  <2>3. /\ reader' = [reader EXCEPT ![r] = reader'[r]]
        /\ served' = [served EXCEPT ![r] = served'[r]]
        /\ reader'[r] = "block" /\ served'[r] = Slice(h - 1, h)
    BY <2>1, <2>2, AnswerFrame
  <2>4. /\ Slice(h - 1, h) \in Seq(BlockRecords)
        /\ Len(Slice(h - 1, h)) = 1
        /\ Slice(h - 1, h)[1] = chain[h]
    <3> DEFINE f == h - 1
               S == Slice(f, h)
    <3>1. f \in Int /\ h - f = 1 /\ f + 1 = h /\ h \in Nat /\ h <= Len(chain)
      BY <1>5
    <3>2. TypeOK /\ Legal(f, h, h)
      BY <1>5, <2>2
    <3> HIDE DEF f, h
    <3>3. S \in Seq(BlockRecords) /\ Len(S) = h - f /\ \A i \in 1..(h - f) : S[i] = chain[f + i]
      BY <3>1, <3>2, SliceOfChain
    <3>4. 1 \in 1..(h - f)
      BY <3>1
    <3>5. Len(S) = 1 /\ S[1] = chain[h]
      BY <3>1, <3>3, <3>4
    <3>6. QED
      BY <3>3, <3>5 DEF f
  <2>5. ServedBlock(r)'
    <3>1. SUFFICES ASSUME ~RowLost
                   PROVE  \E b \in blocks : b.height = h /\ served'[r] = <<b>>
      BY <1>3, <1>4 DEF ServedBlock
    <3>2. chain[h] \in blocks /\ chain[h].height = h
      BY <1>5, <1>7, <3>1, HeightWithoutLoss DEF Chained
    <3>3. served'[r] = <<chain[h]>>
      BY <2>3, <2>4
    <3>4. QED
      BY <3>2, <3>3
  <2>6. Served(r)' /\ ServedSuffix(r)'
    BY <1>2, <1>3, <1>4, <1>5, <2>3, <2>4 DEF Served, ServedSuffix
  <2>7. QED
    BY <1>1, <1>2, <1>3, <2>3, <2>5, <2>6, OneReader DEF ReadersInv, ReadersTypeOK
<1>8. QED
  BY <1>5, <1>6, <1>7

\* The first bound of the slice an order client is served, given the table's height.
FirstBound(n, h) == IF n >= 3 THEN h - 3 ELSE 0

\* An order client is served the chain it read, from a bound that is legal unless
\* its height is below three.
LEMMA ChainStep ==
  ASSUME ReadersInv, NEW r \in Readers, ServeChain(r), GetHeight # 0
  PROVE  ReadersInv'
<1> DEFINE h    == told[r]
           to   == length[r]
           from == FirstBound(GetHeight, h)
<1>1. UNCHANGED vars /\ UNCHANGED <<told, length>>
  BY DEF ServeChain
<1>2. table' = [table EXCEPT ![r] = GetHeight] /\ table'[r] = GetHeight
  BY DEF ServeChain, ReadersInv, ReadersTypeOK
<1>3. told'[r] = h /\ length'[r] = to
  BY <1>1
<1>4. GetHeight' = GetHeight /\ chain' = chain /\ blocks' = blocks /\ RowLost' = RowLost
  BY <1>1 DEF vars, handler, ledgers, GetHeight, RowLost, Persisted
<1>5. /\ Served(r) /\ h \in Nat /\ h <= to /\ to \in Nat /\ to <= Len(chain)
      /\ Len(chain) \in Nat /\ GetHeight \in 0..MaxHeight /\ TypeOK
  BY EachReader, Lengths, HeightBound DEF Served, ReadersInv, IndInv, ServeChain
<1>6. from \in Int
  BY <1>5 DEF FirstBound
<1>7. Answer(r, "suffix", from, to, to)
  BY <1>5 DEF ServeChain, FirstBound, FromLastThree, ThreeOrMore
<1>8. /\ reader' = [reader EXCEPT ![r] = reader'[r]]
      /\ served' = [served EXCEPT ![r] = served'[r]]
  BY <1>7, AnswerFrame
<1>9. CASE Legal(from, to, to)
  <2>1. reader'[r] = "suffix" /\ served'[r] = Slice(from, to)
    BY <1>7, <1>9, AnswerFrame
  <2>2. /\ Slice(from, to) \in Seq(BlockRecords)
        /\ Len(Slice(from, to)) = to - from
        /\ \A i \in 1..(to - from) : Slice(from, to)[i] = chain[from + i]
    BY <1>5, <1>6, <1>9, SliceOfChain
  <2>3. Served(r)' /\ ServedBlock(r)'
    BY <1>2, <1>3, <1>4, <1>5, <2>1, <2>2 DEF Served, ServedBlock
  <2>4. ServedSuffix(r)'
    <3>1. SUFFICES ASSUME ~RowLost, served'[r] # <<>>
                   PROVE  /\ Consecutive(served'[r])
                          /\ served'[r][1].height = IF GetHeight >= 3 THEN h - 2 ELSE 1
                          /\ h <= served'[r][Len(served'[r])].height
                          /\ served'[r][Len(served'[r])].height <= GetHeight + 1
      BY <1>2, <1>3, <1>4 DEF ServedSuffix, Consecutive
    <3>2. to - from \in Nat /\ to - from # 0 /\ from \in Nat
      BY <1>5, <1>6, <1>9, <2>1, <2>2, <3>1 DEF Legal
    <3>3. \A i \in 1..(to - from) : served'[r][i].height = from + i
      <4>1. TAKE i \in 1..(to - from)
      <4>2. served'[r][i] = chain[from + i]
        BY <2>1, <2>2
      <4>3. from + i \in 1..Len(chain)
        BY <1>5, <3>2
      <4>4. Chained
        BY <3>1, HeightWithoutLoss
      <4>5. QED
        BY <4>2, <4>3, <4>4 DEF Chained
    <3>4. Len(served'[r]) = to - from
      BY <2>1, <2>2
    <3>5. Consecutive(served'[r])
      <4>1. SUFFICES ASSUME NEW i \in 1..(to - from - 1)
                     PROVE  served'[r][i + 1].height = served'[r][i].height + 1
        BY <3>4 DEF Consecutive
      <4>2. i \in 1..(to - from) /\ i + 1 \in 1..(to - from)
        BY <3>2
      <4>3. served'[r][i + 1].height = from + (i + 1) /\ served'[r][i].height = from + i
        BY <3>3, <4>2
      <4>4. QED
        BY <3>2, <4>3
    <3>6. served'[r][1].height = from + 1 /\ served'[r][to - from].height = to
      <4>1. 1 \in 1..(to - from) /\ to - from \in 1..(to - from)
        BY <3>2
      <4>2. /\ served'[r][1].height = from + 1
            /\ served'[r][to - from].height = from + (to - from)
        BY <3>3, <4>1
      <4>3. from + (to - from) = to
        BY <1>5, <3>2
      <4>4. QED
        BY <4>2, <4>3
    <3>7. to <= GetHeight + 1
      BY <1>5, <3>1, Lengths, HeightWithoutLoss
    <3>8. QED
      BY <1>5, <3>4, <3>5, <3>6, <3>7 DEF FirstBound
  <2>5. QED
    BY <1>1, <1>2, <1>3, <1>8, <2>3, <2>4, OneReader DEF ReadersInv, ReadersTypeOK
<1>10. CASE ~Legal(from, to, to)
  <2>1. reader'[r] = "panicked" /\ served'[r] = served[r]
    BY <1>7, <1>10, AnswerFrame
  <2>2. h < 3 /\ 3 <= GetHeight
    BY <1>5, <1>10 DEF Legal, FirstBound
  <2>3. Served(r)' /\ ServedBlock(r)' /\ ServedSuffix(r)'
    BY <1>2, <1>3, <1>4, <1>5, <2>1, <2>2 DEF Served, ServedBlock, ServedSuffix
  <2>4. QED
    BY <1>1, <1>2, <1>3, <1>8, <2>3, OneReader DEF ReadersInv, ReadersTypeOK
<1>11. QED
  BY <1>9, <1>10

\* With an empty table it is served nothing.
LEMMA NothingStep ==
  ASSUME ReadersInv, NEW r \in Readers, ServeChain(r), GetHeight = 0
  PROVE  ReadersInv'
<1>1. UNCHANGED vars /\ UNCHANGED <<told, length>>
  BY DEF ServeChain
<1>2. table' = [table EXCEPT ![r] = 0] /\ table'[r] = 0
  BY DEF ServeChain, ReadersInv, ReadersTypeOK
<1>3. told'[r] = told[r] /\ length'[r] = length[r]
  BY <1>1
<1>4. GetHeight' = GetHeight /\ chain' = chain
  BY <1>1 DEF vars, ledgers, GetHeight
<1>5. Served(r) /\ length[r] \in Nat /\ TypeOK /\ MaxHeight \in Nat /\ Len(chain) \in Nat
  BY EachReader, Lengths, ConstantsAssumption DEF ReadersInv, IndInv
<1>6. Answer(r, "suffix", 0, 0, length[r]) /\ Legal(0, 0, length[r]) /\ Legal(0, 0, 0)
  BY <1>5 DEF ServeChain, Legal, ThreeOrMore
<1>7. /\ reader' = [reader EXCEPT ![r] = reader'[r]]
      /\ served' = [served EXCEPT ![r] = served'[r]]
      /\ reader'[r] = "suffix" /\ served'[r] = Slice(0, 0)
  BY <1>6, AnswerFrame
<1>8. Slice(0, 0) \in Seq(BlockRecords) /\ Len(Slice(0, 0)) = 0
  BY <1>5, <1>6, SliceOfChain
<1>9. served'[r] = <<>>
  BY <1>7, <1>8
<1>10. Served(r)' /\ ServedBlock(r)' /\ ServedSuffix(r)'
  BY <1>2, <1>3, <1>4, <1>5, <1>7, <1>8, <1>9 DEF Served, ServedBlock, ServedSuffix
<1>11. QED
  BY <1>1, <1>2, <1>3, <1>7, <1>10, OneReader DEF ReadersInv, ReadersTypeOK

-----------------------------------------------------------------------------
(* The theorems.                                                           *)

LEMMA InitReaders == ReadersInit => ReadersInv
<1> SUFFICES ASSUME ReadersInit PROVE ReadersInv
  OBVIOUS
<1>1. IndInv
  BY InitTypes, InitLock, InitChained, InitVotes DEF ReadersInit, IndInv
<1>2. GetHeight \in 0..MaxHeight /\ Len(chain) = 0
  BY <1>1, HeightBound DEF IndInv, ReadersInit, Init
<1>3. <<>> \in Seq(BlockRecords)
  OBVIOUS
<1>4. ReadersTypeOK /\ ToldInv /\ ReadingInv
  BY <1>2, <1>3, ConstantsAssumption DEF ReadersInit, ReadersTypeOK, ToldInv, ReadingInv
<1>5. BlockIsTheOneAskedFor /\ SuffixReachesTable /\ PanicsOnlyWhenStale
  BY DEF ReadersInit, BlockIsTheOneAskedFor, SuffixReachesTable, PanicsOnlyWhenStale
<1>6. QED
  BY <1>1, <1>4, <1>5 DEF ReadersInv

(* The inductive invariant: a reader's height is one the table had, and the chain
   its handler reads is at least that long, because a commit appends to the chain
   before it inserts the row. *)
THEOREM ReadersInvariant == ReadersSpec => []ReadersInv
<1>1. ReadersInv /\ [ReadersNext]_<<vars, readers>> => ReadersInv'
  <2> SUFFICES ASSUME ReadersInv, [ReadersNext]_<<vars, readers>>
               PROVE  ReadersInv'
    OBVIOUS
  <2>1. CASE Next /\ UNCHANGED readers
    BY <2>1, OrderingStep
  <2>2. CASE UNCHANGED <<vars, readers>>
    BY <2>2, OrderingStep
  <2>3. ASSUME NEW r \in Readers, Read(r)
        PROVE  ReadersInv'
    BY <2>3, AskStep, BlockStep, ReadStep, ChainStep, NothingStep DEF Read
  <2>4. QED
    BY <2>1, <2>2, <2>3 DEF ReadersNext
<1>2. QED
  BY <1>1, InitReaders, PTL DEF ReadersSpec

(* An execution client is served the block of the height it was told, and that
   block is in the table, for any number of clients, rounds and readers. *)
THEOREM RightBlock == ReadersSpec => []BlockIsTheOneAskedFor
<1>1. ReadersInv => BlockIsTheOneAskedFor
  BY DEF ReadersInv
<1>2. QED
  BY <1>1, ReadersInvariant, PTL

(* An order client is served consecutive blocks up to its height or beyond, at
   most one of them ahead of the table. *)
THEOREM RightSuffix == ReadersSpec => []SuffixReachesTable
<1>1. ReadersInv => SuffixReachesTable
  BY DEF ReadersInv
<1>2. QED
  BY <1>1, ReadersInvariant, PTL

(* No slice expression panics but for a height below three that is stale. *)
THEOREM OnlyStalePanics == ReadersSpec => []PanicsOnlyWhenStale
<1>1. ReadersInv => PanicsOnlyWhenStale
  BY DEF ReadersInv
<1>2. QED
  BY <1>1, ReadersInvariant, PTL

(* Every variable of the readers stays in its type. *)
THEOREM ReadersTypeCorrect == ReadersSpec => []ReadersTypeOK
<1>1. ReadersInv => ReadersTypeOK
  BY DEF ReadersInv
<1>2. QED
  BY <1>1, ReadersInvariant, PTL

-----------------------------------------------------------------------------
(* Rounds: the ordering and the state roots in it.                         *)

LEMMA RoundsStep == [RoundsNext]_roundsVars => [Next]_vars
BY DEF RoundsNext, roundsVars, EnterRound, UploadProblock, HandleOrder, Order, CommitRow,
       ExecuteRow, Panic, ResetRound, UploadRoot, HandleRoot, StrayRoot, Verify, Next, Handle

(* The handlers of the composition are those of LeaderProblocks: all that has been
   proved of them holds with the state roots in place. *)
THEOREM RoundsAreOrdered == RoundsSpec => Spec
<1>1. RoundsInit => Init
  BY DEF RoundsInit
<1>2. QED
  BY <1>1, RoundsStep, PTL DEF RoundsSpec, Spec

\* The proofs' copies of the actions are those the rounds are made of.
LEMMA SameRoots ==
  /\ RP!Commit <=> R!Commit
  /\ RP!CommitPanics <=> R!CommitPanics
  /\ RP!VerifyShard <=> R!VerifyShard
  /\ RP!MapRace <=> R!MapRace
  /\ RP!StrayPanics <=> R!StrayPanics
  /\ RP!AddTotal <=> R!AddTotal
  /\ RP!ResetShard <=> R!ResetShard
  /\ \A e \in ExecClients : /\ RP!Upload(e) <=> R!Upload(e)
                            /\ RP!Vote(e) <=> R!Vote(e)
                            /\ RP!WriteRelays(e) <=> R!WriteRelays(e)
<1> USE DEF R!handlers, R!round, R!commit, RP!handlers, RP!round, RP!commit
<1>1. RP!Commit <=> R!Commit
  BY DEF R!Commit, RP!Commit
<1>2. RP!CommitPanics <=> R!CommitPanics
  BY DEF R!CommitPanics, RP!CommitPanics
<1>3. RP!VerifyShard <=> R!VerifyShard
  BY DEF R!VerifyShard, RP!VerifyShard, R!HasQuorum, RP!HasQuorum, R!VerifyQuorum,
         RP!VerifyQuorum
<1>4. RP!MapRace <=> R!MapRace
  BY DEF R!MapRace, RP!MapRace, R!CanVote, RP!CanVote, R!HasQuorum, RP!HasQuorum,
         R!VerifyQuorum, RP!VerifyQuorum
<1>5. RP!AddTotal <=> R!AddTotal
  BY DEF R!AddTotal, RP!AddTotal
<1>6. RP!ResetShard <=> R!ResetShard
  BY DEF R!ResetShard, RP!ResetShard, R!ClearVotes, RP!ClearVotes, R!ClearTxNum,
         RP!ClearTxNum, R!NoVotes, RP!NoVotes, R!NotSeen, RP!NotSeen, R!More, RP!More
<1>7. ASSUME NEW e \in ExecClients
      PROVE  /\ RP!Upload(e) <=> R!Upload(e)
             /\ RP!Vote(e) <=> R!Vote(e)
             /\ RP!WriteRelays(e) <=> R!WriteRelays(e)
  <2> USE DEF R!Return, RP!Return
  <2>1. RP!Upload(e) <=> R!Upload(e)
    BY DEF R!Upload, RP!Upload, R!Uploads, RP!Uploads
  <2>2. RP!Vote(e) <=> R!Vote(e)
    BY DEF R!Vote, RP!Vote, R!CanVote, RP!CanVote, R!HasQuorum, RP!HasQuorum,
           R!RootQuorum, RP!RootQuorum
  <2>3. RP!WriteRelays(e) <=> R!WriteRelays(e)
    BY DEF R!WriteRelays, RP!WriteRelays, R!Unlocked, RP!Unlocked
  <2>4. QED
    BY <2>1, <2>2, <2>3
<1>8. RP!StrayPanics <=> R!StrayPanics
  BY DEF R!StrayPanics, RP!StrayPanics
<1>9. QED
  BY <1>1, <1>2, <1>3, <1>4, <1>5, <1>6, <1>7, <1>8

\* The steps of the ordering that the state roots do not see.
LEMMA OrderHidden ==
  ASSUME LockInv, TypeOK, NEW c \in Clients, Order(c) \/ EnterRound(c) \/ UploadProblock(c)
  PROVE  UNCHANGED RP!vars
<1>1. UNCHANGED rootVars /\ UNCHANGED blocks
  BY DEF Order, EnterRound, UploadProblock, Acknowledge, Refuse, AppendToChain, Register,
         Upload, ledgers
<1>2. /\ (\E d \in Clients : pc'[d] = "inserted") <=> (\E d \in Clients : pc[d] = "inserted")
      /\ (\E d \in Clients : pc'[d] = "resetting") <=> (\E d \in Clients : pc[d] = "resetting")
  <2>1. \/ UNCHANGED pc
        \/ pc[c] = "idle" /\ pc' = [pc EXCEPT ![c] = "waiting"]
        \/ pc[c] = "waiting" /\ pc' = [pc EXCEPT ![c] = "idle"]
        \/ pc[c] = "waiting" /\ pc' = [pc EXCEPT ![c] = "appended"]
    BY DEF Order, EnterRound, UploadProblock, Acknowledge, Refuse, AppendToChain, Register,
           Upload, CountVote, Return, handler
  <2>2. \A d \in Clients : \/ pc'[d] = pc[d]
                           \/ {pc[d], pc'[d]} \cap {"inserted", "resetting"} = {}
    BY <2>1 DEF TypeOK
  <2>3. QED
    BY <2>2
<1>3. Committer' = Committer /\ GetHeight' = GetHeight
  BY <1>1, <1>2 DEF Committer, GetHeight
<1>4. QED
  BY <1>1, <1>3 DEF rootVars, RP!vars, RP!handlers, RP!round, RP!commit

LEMMA StepRoots ==
  ASSUME IndInv, [RoundsNext]_roundsVars
  PROVE  [RP!Next]_(RP!vars)
<1>1. CASE UNCHANGED roundsVars
  <2>1. UNCHANGED <<rootVars, pc, blocks>>
    BY <1>1 DEF roundsVars, vars, handler, ledgers
  <2>2. Committer' = Committer /\ GetHeight' = GetHeight
    BY <2>1 DEF Committer, GetHeight
  <2>3. QED
    BY <2>1, <2>2 DEF rootVars, RP!vars, RP!handlers, RP!round, RP!commit
<1>2. ASSUME NEW c \in Clients, Order(c) \/ EnterRound(c) \/ UploadProblock(c)
      PROVE  UNCHANGED RP!vars
  BY <1>2, OrderHidden DEF IndInv
<1>3. ASSUME NEW c \in Clients, CommitRow(c) \/ ExecuteRow(c) \/ Panic(c) \/ ResetRound(c)
      PROVE  RP!Next
  BY <1>3, SameRoots DEF CommitRow, ExecuteRow, Panic, ResetRound, RP!Next, RP!Committing
<1>4. ASSUME NEW e \in ExecClients, UploadRoot(e) \/ HandleRoot(e)
      PROVE  RP!Next
  BY <1>4, SameRoots DEF UploadRoot, HandleRoot, RP!Next
<1>5. CASE StrayRoot \/ Verify
  BY <1>5, SameRoots DEF StrayRoot, Verify, RP!Next, RP!Committing
<1>6. QED
  BY <1>1, <1>2, <1>3, <1>4, <1>5 DEF RoundsNext, HandleOrder

\* RootVotes has one committer, and the rounds are a behaviour of it.
LEMMA RoundsAreRoots == RoundsSpec => RP!Spec
<1>1. RoundsInit => RP!Init
  BY DEF RoundsInit, R!Init, RP!Init, R!NoVotes, RP!NoVotes, R!NotSeen, RP!NotSeen,
         R!Shards, RP!Shards
<1>2. QED
  BY <1>1, StepRoots, RoundsAreOrdered, IndInvariant, PTL DEF RoundsSpec, RP!Spec

-----------------------------------------------------------------------------
(* Rounds: one commit at a time.                                           *)

\* The handler that resets the rounds is where the committer of RootVotes is.
LinkInv == \A c \in Clients : pc[c] = "resetting" => shard = nextShard

LEMMA StepLink ==
  ASSUME IndInv, LinkInv, [RoundsNext]_roundsVars
  PROVE  LinkInv'
<1>1. CASE UNCHANGED <<pc, shard, nextShard>>
  BY <1>1 DEF LinkInv
<1>2. ASSUME NEW c \in Clients, Order(c) \/ EnterRound(c) \/ UploadProblock(c)
      PROVE  LinkInv'
  <2>1. UNCHANGED <<shard, nextShard>>
    BY <1>2 DEF Order, EnterRound, UploadProblock, Acknowledge, Refuse, AppendToChain,
                CountVote, Register, Upload, rootVars
  <2>2. \A d \in Clients : pc'[d] = "resetting" => pc[d] = "resetting"
    BY <1>2 DEF Order, EnterRound, UploadProblock, Acknowledge, Refuse, AppendToChain,
                CountVote, Register, Upload, Return, handler, IndInv, TypeOK
  <2>3. QED
    BY <2>1, <2>2 DEF LinkInv
<1>3. ASSUME NEW c \in Clients, CommitRow(c) \/ Panic(c)
      PROVE  LinkInv'
  <2>1. /\ pc[c] \in Holding
        /\ \E to \in {"inserted", "idle"} : pc' = [pc EXCEPT ![c] = to]
    BY <1>3 DEF CommitRow, Panic, InsertRow, ExecutePanics, Return, Holding
  <2>2. \A d \in Clients : pc'[d] # "resetting"
    BY <2>1, OnlyHolder DEF IndInv, TypeOK, Holding
  <2>3. QED
    BY <2>2 DEF LinkInv
<1>4. ASSUME NEW c \in Clients, ExecuteRow(c)
      PROVE  LinkInv'
  BY <1>4 DEF ExecuteRow, Execute, R!AddTotal, LinkInv
<1>5. ASSUME NEW c \in Clients, ResetRound(c)
      PROVE  LinkInv'
  <2>1. pc[c] = "resetting" /\ shard = nextShard /\ nextShard \in 1..ShardNum
        /\ ShardNum \in Nat
    BY <1>5, ConstantsAssumption DEF ResetRound, ResetShard, LinkInv, IndInv, TypeOK
  <2>2. CASE LastShard
    <3>1. pc' = [pc EXCEPT ![c] = "idle"]
      BY <1>5, <2>2 DEF ResetRound, ResetShard, Return
    <3>2. \A d \in Clients : pc'[d] # "resetting"
      BY <2>1, <3>1, OnlyHolder DEF IndInv, TypeOK, Holding
    <3>3. QED
      BY <3>2 DEF LinkInv
  <2>3. CASE ~LastShard
    <3>1. nextShard' = nextShard + 1
      BY <1>5, <2>3 DEF ResetRound, ResetShard
    <3>2. shard' = shard + 1
      BY <1>5, <2>1, <2>3 DEF ResetRound, R!ResetShard, R!More, LastShard
    <3>3. QED
      BY <2>1, <3>1, <3>2 DEF LinkInv
  <2>4. QED
    BY <2>2, <2>3
<1>6. ASSUME NEW e \in ExecClients, UploadRoot(e) \/ HandleRoot(e)
      PROVE  LinkInv'
  <2>1. UNCHANGED <<pc, nextShard, shard>>
    BY <1>6 DEF UploadRoot, HandleRoot, vars, handler, R!Upload, R!Vote, R!WriteRelays,
                R!commit
  <2>2. QED
    BY <1>1, <2>1
<1>7. CASE StrayRoot \/ Verify
  <2>1. UNCHANGED <<pc, nextShard>>
    BY <1>7 DEF StrayRoot, Verify, vars, handler
  <2>2. UNCHANGED shard \/ Committer = "verifying"
    BY <1>7 DEF StrayRoot, R!StrayPanics, Verify, R!VerifyShard, R!MapRace, R!commit
  <2>3. Committer = "verifying" => \E c \in Clients : pc[c] = "inserted"
    BY DEF Committer
  <2>4. (\E c \in Clients : pc[c] = "inserted") => \A c \in Clients : pc[c] # "resetting"
    BY OnlyHolder DEF IndInv, Holding
  <2>5. QED
    BY <2>1, <2>2, <2>3, <2>4 DEF LinkInv
<1>8. QED
  BY <1>1, <1>2, <1>3, <1>4, <1>5, <1>6, <1>7 DEF RoundsNext, HandleOrder, roundsVars, vars,
     handler, rootVars

(* LeaderLock keeps the committers to one: whoever inserts a row finds no other
   commit under way, and the two loops over the shards, of the problocks and of the
   roots, are at the same shard. *)
THEOREM OneCommit == RoundsSpec => []OneCommitAtATime
<1>1. RoundsInit => LinkInv
  BY DEF RoundsInit, Init, LinkInv
<1>2. IndInv /\ LinkInv /\ [RoundsNext]_roundsVars => LinkInv'
  BY StepLink
<1>3. IndInv /\ LinkInv => OneCommitAtATime
  <2> SUFFICES ASSUME IndInv, LinkInv, NEW c \in Clients
               PROVE  /\ pc[c] = "appended" =>
                           Committer = "idle" /\ chain[Len(chain)].height = GetHeight + 1
                      /\ pc[c] = "resetting" => Committer = "resetting" /\ shard = nextShard
    BY DEF OneCommitAtATime
  <2>1. CASE pc[c] = "appended"
    BY <2>1, OnlyHolder DEF IndInv, NextInv, Committer, Holding
  <2>2. CASE pc[c] = "resetting"
    BY <2>2, OnlyHolder DEF IndInv, LinkInv, Committer, Holding
  <2>3. QED
    BY <2>1, <2>2
<1>4. QED
  BY <1>1, <1>2, <1>3, RoundsAreOrdered, IndInvariant, PTL DEF RoundsSpec

-----------------------------------------------------------------------------
(* Rounds: what is proved of the state roots holds with the ordering in    *)
(* place.                                                                  *)

LEMMA RootsAssumption == RP!ConstantsAssumption
  BY RoundsAssumption
     DEF R!ConstantsAssumption, RP!ConstantsAssumption, R!Shards, RP!Shards, R!Uploads,
         RP!Uploads, R!IsFiniteSet, RP!IsFiniteSet

(* The commits of the ordering are those of one committer: the rounds of the roots
   behave as if it were the only one, whatever the order clients do. *)
THEOREM RoundsAreRootVotes == RoundsSpec => R!Spec
<1>1. RoundsInit => R!Init
  BY DEF RoundsInit
<1>2. RP!Next => R!Next
  BY SameRoots DEF RP!Next, R!Next, RP!Committing, R!Committing
<1>3. UNCHANGED RP!vars => UNCHANGED R!vars
  BY DEF RP!vars, R!vars, RP!handlers, R!handlers, RP!round, R!round, RP!commit, R!commit
<1>4. IndInv /\ [RoundsNext]_roundsVars => [R!Next]_(R!vars)
  BY <1>2, <1>3, StepRoots
<1>5. QED
  BY <1>1, <1>4, RoundsAreOrdered, IndInvariant, PTL DEF RoundsSpec, R!Spec

(* The relay money of a round of a shard is paid out once, also when the commits
   that end the rounds come from concurrent uploads of problocks. *)
THEOREM RoundsPayOnce == RoundsSpec => []R!RelaysOncePerRound
<1>1. RP!RelaysOncePerRound => R!RelaysOncePerRound
  BY DEF RP!RelaysOncePerRound, R!RelaysOncePerRound, RP!Shards, R!Shards
<1>2. QED
  BY <1>1, RoundsAreRoots, RootsAssumption, RP!RelaysWrittenOnce, PTL

(* And every commit settles the payouts of the shards, as module Payouts says. *)
THEOREM RoundsSettlePayouts == RoundsSpec => R!ImplementsPayouts
<1> USE DEF RP!Settled, R!Settled, RP!Verified, R!Verified, RP!Shards, R!Shards, RP!Uploads,
            R!Uploads
<1>1. RP!P!Init => R!P!Init
  BY DEF RP!P!Init, R!P!Init
<1>2. [RP!P!Next]_(RP!P!vars) => [R!P!Next]_(R!P!vars)
  BY DEF RP!P!Next, RP!P!vars, RP!P!Pay, RP!P!Settle, RP!P!Reopen, RP!P!Unsettled,
         R!P!Next, R!P!vars, R!P!Pay, R!P!Settle, R!P!Reopen, R!P!Unsettled
<1>3. QED
  BY <1>1, <1>2, RoundsAreRoots, RootsAssumption, RP!RoundsImplementPayouts, PTL
     DEF RP!ImplementsPayouts, RP!P!Spec, R!ImplementsPayouts, R!P!Spec

(* No number of transactions is counted for two commits of the ordering. *)
THEOREM RoundsCountOnce == RoundsSpec => []R!NoTransactionCountedTwice
<1>1. RP!NoTransactionCountedTwice => R!NoTransactionCountedTwice
  BY DEF RP!NoTransactionCountedTwice, R!NoTransactionCountedTwice, RP!ValidatedTxs,
         R!ValidatedTxs, RP!WrittenTxs, R!WrittenTxs, RP!Transactions, R!Transactions,
         RP!Shards, R!Shards, RP!Cardinality, R!Cardinality
<1>2. QED
  BY <1>1, RoundsAreRoots, RootsAssumption, RP!NoneCountedTwice, PTL

(* The ordering in turn keeps its promises with the roots in place. *)
THEOREM RoundsKeepLedger ==
  /\ RoundsSpec => []ChainMatchesTable
  /\ RoundsSpec => LostRowEndsChain
  BY RoundsAreOrdered, ChainIsTable, LostRowIsTheEnd, PTL
=============================================================================
