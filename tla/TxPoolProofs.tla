---------------------------- MODULE TxPoolProofs ----------------------------
(***************************************************************************)
(* Proofs about TxPool, for pools of any size, any value of ValidateTxNum, *)
(* any numbers of relays and any number of blocks.                         *)
(***************************************************************************)
EXTENDS TxPool, FiniteSetTheorems, TLAPS

-----------------------------------------------------------------------------
(* Division with remainder.                                                *)

LEMMA DivMod ==
  ASSUME NEW i \in Nat, NEW v \in Nat \ {0}
  PROVE  /\ i \div v \in Nat /\ i % v \in 0..(v - 1)
         /\ i = (i \div v) * v + (i % v)
  OBVIOUS

LEMMA Below ==
  ASSUME NEW v \in Nat \ {0}, NEW a \in Int, NEW b \in Int, a < b
  PROVE  a * v + v <= b * v
<1>1. a + 1 <= b
  OBVIOUS
<1>2. (a + 1) * v <= b * v
  BY <1>1
<1>3. (a + 1) * v = a * v + v
  OBVIOUS
<1>4. QED
  BY <1>2, <1>3

LEMMA Unique ==
  ASSUME NEW v \in Nat \ {0}, NEW a \in Int, NEW b \in Int,
         NEW r \in 0..(v - 1), NEW t \in 0..(v - 1), a * v + r = b * v + t
  PROVE  a = b /\ r = t
<1>1. CASE a < b
  <2>1. a * v + v <= b * v
    BY <1>1, Below
  <2>2. QED
    BY <2>1
<1>2. CASE b < a
  <2>1. b * v + v <= a * v
    BY <1>2, Below
  <2>2. QED
    BY <2>1
<1>3. QED
  BY <1>1, <1>2

LEMMA IsDivMod ==
  ASSUME NEW v \in Nat \ {0}, NEW i \in Nat, NEW a \in Int, NEW r \in 0..(v - 1), i = a * v + r
  PROVE  i \div v = a /\ i % v = r
<1>1. /\ i \div v \in Nat /\ i % v \in 0..(v - 1)
      /\ i = (i \div v) * v + (i % v)
  BY DivMod
<1> DEFINE b == i \div v
           t == i % v
<1>2. b \in Int /\ t \in 0..(v - 1) /\ b * v + t = a * v + r
  BY <1>1
<1> HIDE DEF b, t
<1>3. b = a /\ t = r
  BY <1>2, Unique
<1>4. QED
  BY <1>3 DEF b, t

LEMMA NextDivMod ==
  ASSUME NEW v \in Nat \ {0}, NEW i \in Nat
  PROVE  /\ (i + 1) % v = IF i % v = v - 1 THEN 0 ELSE (i % v) + 1
         /\ (i + 1) \div v = IF i % v = v - 1 THEN i \div v + 1 ELSE i \div v
<1> DEFINE a == i \div v
           r == i % v
<1>1. a \in Nat /\ r \in 0..(v - 1) /\ i = a * v + r
  BY DivMod
<1>2. CASE r = v - 1
  <2>1. (a + 1) * v = a * v + v
    BY <1>1
  <2>2. a + 1 \in Int /\ 0 \in 0..(v - 1) /\ i + 1 \in Nat /\ i + 1 = (a + 1) * v + 0
    <3> HIDE DEF a, r
    <3>1. QED
      BY <1>1, <1>2, <2>1
  <2>3. (i + 1) \div v = a + 1 /\ (i + 1) % v = 0
    <3> HIDE DEF a
    <3>1. QED
      BY <2>2, IsDivMod
  <2>4. QED
    BY <1>2, <2>3
<1>3. CASE r # v - 1
  <2>1. a \in Int /\ r + 1 \in 0..(v - 1) /\ i + 1 \in Nat /\ i + 1 = a * v + (r + 1)
    <3> HIDE DEF a, r
    <3>1. QED
      BY <1>1, <1>3
  <2>2. (i + 1) \div v = a /\ (i + 1) % v = r + 1
    <3> HIDE DEF a, r
    <3>1. QED
      BY <2>1, IsDivMod
  <2>3. QED
    BY <1>3, <2>2
<1>4. QED
  BY <1>2, <1>3

LEMMA MulMod ==
  ASSUME NEW v \in Nat \ {0}, NEW q \in Nat \ {0}, NEW h \in Nat
  PROVE  (h * v) % (q * v) = (h % q) * v
<1> DEFINE a == h \div q
           r == h % q
<1>1. a \in Nat /\ r \in 0..(q - 1) /\ h = a * q + r
  BY DivMod
<1> HIDE DEF a, r
<1>2. h * v = a * (q * v) + r * v
  BY <1>1
<1>3. q * v \in Nat \ {0} /\ h * v \in Nat /\ r * v \in Nat
  BY <1>1
<1>4. r * v + v <= q * v
  BY <1>1, Below
<1>5. r * v \in 0..(q * v - 1)
  BY <1>3, <1>4
<1> DEFINE m == q * v
           n == h * v
           s == r * v
<1>6. m \in Nat \ {0} /\ n \in Nat /\ s \in 0..(m - 1) /\ n = a * m + s /\ a \in Int
  BY <1>1, <1>2, <1>3, <1>5
<1> HIDE DEF m, n, s
<1>7. n % m = s
  BY <1>6, IsDivMod
<1>8. QED
  BY <1>7 DEF m, n, s, r

-----------------------------------------------------------------------------
(* Windows of pools that can be cut.                                       *)

LEMMA Numbers ==
  ASSUME IndInv
  PROVE  /\ validateTxNum \in Nat \ {0} /\ TxNum \in Nat \ {0}
         /\ height \in Nat /\ height <= MaxHeight /\ MaxHeight \in Nat
         /\ commits \in Nat /\ height <= commits /\ commits <= MaxHeight
         /\ ShardNum \in {1, 2} /\ Shards \subseteq {1, 2} /\ current \in 1..ShardNum
         /\ stage \in {"starting", "serving"}
         /\ stage = "starting" => height = 0 /\ commits = 0 /\ committer = "idle"
         /\ committer # "idle" => commits >= 1
BY ConstantsAssumption DEF IndInv, TypeOK, Shards, WindowInv

\* The heights of commits and tables, with what follows from them.
LEMMA Rows ==
  ASSUME IndInv
  PROVE  /\ heightOf \in [0..MaxHeight -> Nat] /\ heightOf[0] = 0
         /\ 0 \in 0..MaxHeight /\ commits \in 0..MaxHeight
         /\ \A m \in 0..MaxHeight : heightOf[m] \in Nat /\ heightOf[m] <= height
         /\ heightOf[commits] = height
         /\ \A m \in 1..commits : heightOf[m] \in {heightOf[m - 1], heightOf[m - 1] + 1}
<1>1. heightOf \in [0..MaxHeight -> 0..height]
  BY DEF IndInv, TypeOK
<1>2. height \in Nat /\ commits \in Nat /\ commits <= MaxHeight /\ MaxHeight \in Nat
  BY Numbers
<1>3. QED
  BY <1>1, <1>2 DEF IndInv, RowsInv

\* Pools that can be cut have Parts windows.
LEMMA CutInParts ==
  ASSUME IndInv, Divides
  PROVE  Parts \in Nat \ {0} /\ TxNum = Parts * validateTxNum /\ ShardNum = 2
<1>1. validateTxNum \in Nat \ {0} /\ TxNum \in Nat \ {0}
  BY Numbers
<1>2. TxNum % validateTxNum = 0 /\ ShardNum = 2
  BY DEF Divides
<1>3. Parts \in Nat /\ TxNum = Parts * validateTxNum + 0
  BY <1>1, <1>2, DivMod DEF Parts
<1>4. Parts # 0
  BY <1>1, <1>3
<1>5. QED
  BY <1>1, <1>2, <1>3, <1>4

LEMMA WindowIsChunk ==
  ASSUME IndInv, Divides, stage = "serving", NEW h \in Nat, NEW s \in Shards
  PROVE  /\ h % Parts \in 0..(Parts - 1)
         /\ Window(h, s) = ((h % Parts) * validateTxNum + 1)
                             ..((h % Parts) * validateTxNum + validateTxNum)
         /\ Sliceable(h, s)
<1> DEFINE v == validateTxNum
           q == Parts
           c == h % q
<1>1. v \in Nat \ {0} /\ q \in Nat \ {0} /\ TxNum = q * v /\ ShardNum = 2
  BY Numbers, CutInParts
<1>2. pool[Internal][s] = q * v /\ pool[Cross][s] = q * v
  BY <1>1 DEF IndInv, FillInv
<1>3. c \in 0..(q - 1)
  BY <1>1, DivMod
<1>4. Start(h, s) = c * v
  <2>1. h * v >= 0
    BY <1>1
  <2>2. (h * v) % (q * v) = c * v
    BY <1>1, MulMod
  <2>3. QED
    BY <1>2, <2>1, <2>2 DEF Start, Remainder
<1>5. ((h + 1) * v) % (q * v) = ((h + 1) % q) * v
  <2>1. h + 1 \in Nat
    OBVIOUS
  <2> HIDE DEF v, q
  <2>2. QED
    BY <1>1, <2>1, MulMod
<1>6. (h + 1) % q = IF c = q - 1 THEN 0 ELSE c + 1
  BY <1>1, NextDivMod
<1>7. End(h, s) = c * v + v
  <2>1. CASE c = q - 1
    <3>1. End(h, s) = q * v
      BY <1>1, <1>2, <1>5, <1>6, <2>1 DEF End
    <3>2. q * v = (q - 1) * v + v
      BY <1>1
    <3>3. QED
      BY <2>1, <3>1, <3>2
  <2>2. CASE c # q - 1
    <3>1. ((h + 1) * v) % (q * v) = (c + 1) * v
      BY <1>5, <1>6, <2>2
    <3>2. (c + 1) * v = c * v + v /\ c * v \in Nat
      <4> HIDE DEF c
      <4>1. QED
        BY <1>1, <1>3
    <3>3. c * v + v # 0
      <4> HIDE DEF c
      <4>1. QED
        BY <1>1, <3>2
    <3>4. QED
      BY <1>2, <3>1, <3>2, <3>3 DEF End
  <2>3. QED
    BY <2>1, <2>2
<1>8. c * v \in Nat /\ c * v + v <= q * v
  <2> HIDE DEF c
  <2>1. c * v \in Nat
    BY <1>1, <1>3
  <2>2. c \in Int /\ q \in Int /\ c < q
    BY <1>1, <1>3
  <2>3. QED
    BY <1>1, <2>1, <2>2, Below
<1>9. Window(h, s) = (c * v + 1)..(c * v + v)
  BY <1>4, <1>7 DEF Window
<1>10. Sliceable(h, s)
  <2> HIDE DEF c
  <2>1. 0 <= c * v /\ c * v <= c * v + v
    BY <1>1, <1>8
  <2>2. QED
    BY <1>2, <1>4, <1>7, <1>8, <2>1 DEF Sliceable, c
<1>11. QED
  BY <1>3, <1>9, <1>10

\* Which window transaction i is in.
LEMMA InWindow ==
  ASSUME IndInv, Divides, stage = "serving", NEW h \in Nat, NEW s \in Shards,
         NEW i \in 1..TxNum
  PROVE  /\ (i - 1) \div validateTxNum \in Nat
         /\ (i - 1) \div validateTxNum < Parts
         /\ i \in Window(h, s) <=> (i - 1) \div validateTxNum = h % Parts
<1> DEFINE v == validateTxNum
           q == Parts
           c == h % q
           a == (i - 1) \div v
           r == (i - 1) % v
<1>1. v \in Nat \ {0} /\ q \in Nat \ {0} /\ TxNum = q * v /\ i - 1 \in Nat /\ i <= q * v
  BY Numbers, CutInParts
<1>2. a \in Nat /\ r \in 0..(v - 1) /\ i - 1 = a * v + r
  BY <1>1, DivMod
<1>3. c \in Nat /\ Window(h, s) = (c * v + 1)..(c * v + v)
  <2>1. Window(h, s) = (c * v + 1)..(c * v + v)
    BY WindowIsChunk
  <2>2. c \in Nat
    BY <1>1, DivMod
  <2>3. QED
    BY <2>1, <2>2
<1> HIDE DEF v, q, c, a, r
<1>4. a < q
  <2>1. SUFFICES ASSUME q <= a PROVE FALSE
    BY <1>1, <1>2
  <2>2. q * v <= a * v
    BY <1>1, <1>2, <2>1
  <2>3. QED
    BY <1>1, <1>2, <2>2
<1>5. ASSUME i \in Window(h, s)
      PROVE  a = c
  <2> DEFINE t == i - 1 - c * v
  <2>1. c * v \in Nat
    BY <1>1, <1>3
  <2>2. t \in 0..(v - 1) /\ a * v + r = c * v + t
    BY <1>1, <1>2, <1>3, <1>5, <2>1
  <2> HIDE DEF t
  <2>3. QED
    BY <1>1, <1>2, <1>3, <2>2, Unique
<1>6. ASSUME a = c
      PROVE  i \in Window(h, s)
  <2>1. c * v \in Nat
    BY <1>1, <1>3
  <2>2. i = c * v + r + 1
    BY <1>1, <1>2, <1>6
  <2>3. QED
    BY <1>1, <1>2, <1>3, <2>1, <2>2
<1>7. QED
  BY <1>2, <1>4, <1>5, <1>6 DEF a, c, q, v

\* The next block executes what is in its window once more.
LEMMA DueNext ==
  ASSUME IndInv, Divides, NEW m \in Nat, NEW i \in 1..TxNum,
         (i - 1) \div validateTxNum \in Nat, (i - 1) \div validateTxNum < Parts
  PROVE  /\ Due(i, m) \in Nat
         /\ Due(i, m + 1) =
              Due(i, m) + (IF (i - 1) \div validateTxNum = m % Parts THEN 1 ELSE 0)
<1> DEFINE q == Parts
           a == (i - 1) \div validateTxNum
           d == m \div q
           c == m % q
<1>1. q \in Nat \ {0}
  BY CutInParts
<1>2. d \in Nat /\ c \in 0..(q - 1)
  BY <1>1, DivMod
<1>3. /\ (m + 1) % q = IF c = q - 1 THEN 0 ELSE c + 1
      /\ (m + 1) \div q = IF c = q - 1 THEN d + 1 ELSE d
  BY <1>1, NextDivMod
<1>4. /\ Due(i, m) = d + (IF a < c THEN 1 ELSE 0)
      /\ Due(i, m + 1) = (IF c = q - 1 THEN d + 1 ELSE d)
                           + (IF a < (IF c = q - 1 THEN 0 ELSE c + 1) THEN 1 ELSE 0)
  BY <1>3 DEF Due
<1>5. a \in Nat /\ a < q
  OBVIOUS
<1> HIDE DEF q, a, d, c
<1>6. Due(i, m) \in Nat
  BY <1>2, <1>4, <1>5
<1>7. Due(i, m + 1) = Due(i, m) + (IF a = c THEN 1 ELSE 0)
  <2>1. CASE c = q - 1
    BY <1>1, <1>2, <1>4, <1>5, <2>1
  <2>2. CASE c # q - 1
    BY <1>1, <1>2, <1>4, <1>5, <2>2
  <2>3. QED
    BY <2>1, <2>2
<1>8. QED
  BY <1>6, <1>7 DEF a, c, q

-----------------------------------------------------------------------------
(* What a step leaves alone.                                               *)

LEMMA PoolsFrame ==
  ASSUME IndInv, UNCHANGED <<validateTxNum, stage, starting>>,
         \A k \in {Internal, Cross}, s \in Shards :
           pool'[k][s] = pool[k][s] /\ batches'[k][s] = batches[k][s]
  PROVE  FillInv' /\ SizeInv' /\ BatchInv'
<1>1. kind \in {Internal, Cross} /\ shard \in Shards
  BY DEF IndInv, TypeOK
<1>2. FillInv'
  BY <1>1 DEF IndInv, FillInv, Before, After, starting
<1>3. SizeInv'
  BY <1>1 DEF IndInv, SizeInv, Made, Ahead, starting
<1>4. BatchInv'
  BY <1>1 DEF IndInv, BatchInv, Chunk, InShard, Divides, starting
<1>5. QED
  BY <1>2, <1>3, <1>4

LEMMA RelayFrame ==
  ASSUME IndInv, UNCHANGED <<validateTxNum, index, relayList>>,
         \A s \in Shards :
           pool'[Relay][s] = pool[Relay][s] /\ batches'[Relay][s] = batches[Relay][s]
  PROVE  RelayInv' /\ RelayBatchesAreDisjoint'
<1>1. RelayInv'
  BY DEF IndInv, RelayInv, InShard
<1>2. RelayBatchesAreDisjoint'
  BY DEF IndInv, RelayBatchesAreDisjoint
<1>3. QED
  BY <1>1, <1>2

LEMMA KindsDiffer ==
  /\ Internal \in Kinds /\ Cross \in Kinds /\ Relay \in Kinds
  /\ Internal # Cross /\ Internal # Relay /\ Cross # Relay
  /\ \A k \in Kinds : k \in {Internal, Cross} \/ k = Relay
BY DEF Kinds, Internal, Cross, Relay

LEMMA PoolTypes ==
  ASSUME IndInv
  PROVE  /\ pool \in [Kinds -> [Shards -> Nat]]
         /\ batches \in [Kinds -> [Shards -> Seq(SUBSET Txs)]]
BY DEF IndInv, TypeOK

LEMMA UpdateAt ==
  ASSUME NEW S, NEW f \in [Kinds -> [Shards -> S]], NEW k \in Kinds, NEW s \in Shards,
         NEW e \in S, NEW g, g = [f EXCEPT ![k][s] = e]
  PROVE  /\ g \in [Kinds -> [Shards -> S]]
         /\ \A j \in Kinds, t \in Shards :
              g[j][t] = IF j = k /\ t = s THEN e ELSE f[j][t]
<1>1. g \in [Kinds -> [Shards -> S]]
  OBVIOUS
<1>2. ASSUME NEW j \in Kinds, NEW t \in Shards
      PROVE  g[j][t] = IF j = k /\ t = s THEN e ELSE f[j][t]
  BY SMTT(30)
<1>3. QED
  BY <1>1, <1>2

LEMMA SamePools ==
  ASSUME UNCHANGED validateTxNum,
         \A k \in {Internal, Cross}, s \in Shards : pool'[k][s] = pool[k][s]
  PROVE  \A h \in Int, s \in Shards :
           WindowOf(h, s)' = WindowOf(h, s) /\ Sliceable(h, s)' = Sliceable(h, s)
BY DEF WindowOf, Sliceable, Window, Start, End

\* What the rows and the clients' windows rest on is left alone.
LEMMA WindowFrame ==
  ASSUME IndInv,
         UNCHANGED <<validateTxNum, stage, height, commits, heightOf, executed, validated>>,
         committer' # "idle" => commits >= 1, stage = "starting" => committer' = "idle",
         \A k \in {Internal, Cross}, s \in Shards : pool'[k][s] = pool[k][s]
  PROVE  RowsInv' /\ WindowInv'
<1>1. RowsInv'
  BY DEF IndInv, RowsInv
<1>2. validated.shard \in Shards /\ validated.read - 1 \in Int
  BY Numbers DEF IndInv, TypeOK
<1>3. \A m \in Heights : heightOf[m] - 1 \in Int
  BY Rows DEF Heights
<1>4. \A m \in Heights, s \in Shards :
        WindowOf(heightOf[m] - 1, s)' = WindowOf(heightOf[m] - 1, s)
  BY <1>3 DEF WindowOf, Window, Start, End
<1>5. Window(validated.read - 1, validated.shard)' = Window(validated.read - 1, validated.shard)
  BY <1>2 DEF Window, Start, End
<1>6. QED
  BY <1>1, <1>4, <1>5 DEF IndInv, WindowInv

LEMMA CommitFrame ==
  ASSUME IndInv, UNCHANGED <<validateTxNum, stage, handed, commit>>,
         \A k \in {Internal, Cross}, s \in Shards : pool'[k][s] = pool[k][s]
  PROVE  RowsInv' /\ WindowInv' /\ PipelineInv' /\ TimesInv'
<1>1. UNCHANGED <<panicked, proposals, validated, height, commits, heightOf, committer,
                  current, executed>>
  BY DEF handed, commit
<1>2. RowsInv' /\ WindowInv'
  BY <1>1, Numbers, WindowFrame
<1>3. PipelineInv'
  <2>1. \A m \in Heights, s \in Shards : Executes(m, s)' = Executes(m, s)
    <3>1. \A m \in Heights : heightOf[m] - 1 \in Int
      BY Rows DEF Heights
    <3>2. QED
      BY <1>1, <3>1 DEF Executes, WindowOf, Sliceable, Window, Start, End, Empty
  <2>2. \A s \in Shards : (PackedOf(s))' = PackedOf(s)
    BY <1>1 DEF PackedOf
  <2>3. PipelineInv
    BY DEF IndInv
  <2>4. SUFFICES ASSUME Divides'
                 PROVE  PipelineInv'
    BY DEF PipelineInv
  <2>5. Divides
    BY <2>4 DEF Divides
  <2>6. panicked' \subseteq {0} /\ \A n \in Heights : n <= height' => proposals'[n] # Nothing'
    BY <1>1, <2>3, <2>5 DEF PipelineInv, Nothing
  <2>7. \A n \in Heights : proposals[n] # Nothing =>
          \A s \in Shards :
            /\ proposals[n][s].internal = Chunk(s, 1 + ((n + 1) % Parts))
            /\ proposals[n][s].cross    = Chunk(s, 1 + ((n + 1) % Parts))
    BY <2>3, <2>5 DEF PipelineInv
  <2>8. (\A n \in Heights : proposals[n] # Nothing =>
          \A s \in Shards :
            /\ proposals[n][s].internal = Chunk(s, 1 + ((n + 1) % Parts))
            /\ proposals[n][s].cross    = Chunk(s, 1 + ((n + 1) % Parts)))'
    BY <1>1, <2>7 DEF Nothing, Chunk, InShard, Parts
  <2>9. \A m \in Heights, s \in Shards :
           executed[m][s] = IF m <= PackedOf(s) THEN Executes(m, s) ELSE Empty
    BY <2>3, <2>5 DEF PipelineInv
  <2>10. (\A m \in Heights, s \in Shards :
           executed[m][s] = IF m <= PackedOf(s) THEN Executes(m, s) ELSE Empty)'
    BY <1>1, <2>1, <2>2, <2>9 DEF Empty
  <2>11. QED
    BY <2>6, <2>8, <2>10 DEF PipelineInv
<1>4. TimesInv'
  BY <1>1 DEF IndInv, TimesInv, Divides, Times, Due, Parts, RowsOf, LostOf, PackedOf
<1>5. QED
  BY <1>2, <1>3, <1>4

LEMMA QuietStep ==
  ASSUME IndInv, UNCHANGED vars
  PROVE  IndInv'
<1>1. UNCHANGED <<validateTxNum, stage, starting, pool, batches, handed, commit, relaying>>
  BY DEF vars
<1>2. TypeOK'
  BY <1>1 DEF IndInv, TypeOK, starting, handed, commit, relaying
<1>3. FillInv' /\ SizeInv' /\ BatchInv'
  BY <1>1, PoolsFrame
<1>4. RelayInv' /\ RelayBatchesAreDisjoint'
  BY <1>1, RelayFrame DEF relaying
<1>5. RowsInv' /\ WindowInv' /\ PipelineInv' /\ TimesInv'
  BY <1>1, CommitFrame
<1>6. QED
  BY <1>2, <1>3, <1>4, <1>5 DEF IndInv

-----------------------------------------------------------------------------
(* CollectRoot.                                                            *)

LEMMA StartRelaysStep ==
  ASSUME IndInv, NEW s \in Shards, StartRelays(s)
  PROVE  IndInv'
<1>1. PICK n \in RelayNums : toWrite' = [toWrite EXCEPT ![s] = n]
  BY DEF StartRelays
<1>2. /\ UNCHANGED <<validateTxNum, stage, starting, pool, batches, handed, commit,
                     index, relayList>>
      /\ upload' = [upload EXCEPT ![s] = "writing"]
  BY DEF StartRelays
<1>3. n \in Nat
  BY ConstantsAssumption
<1>4. TypeOK'
  BY <1>1, <1>2, <1>3 DEF IndInv, TypeOK, starting, handed, commit
<1>5. FillInv' /\ SizeInv' /\ BatchInv'
  BY <1>2, PoolsFrame
<1>6. RelayInv' /\ RelayBatchesAreDisjoint'
  BY <1>2, RelayFrame
<1>7. RowsInv' /\ WindowInv' /\ PipelineInv' /\ TimesInv'
  BY <1>2, CommitFrame
<1>8. QED
  BY <1>4, <1>5, <1>6, <1>7 DEF IndInv

LEMMA EndRelaysStep ==
  ASSUME IndInv, NEW s \in Shards, EndRelays(s)
  PROVE  IndInv'
<1>1. /\ UNCHANGED <<validateTxNum, stage, starting, pool, batches, handed, commit, toWrite>>
      /\ upload' = [upload EXCEPT ![s] = "closed"]
      /\ index' = [index EXCEPT ![s] = 0]
      /\ relayList' = [relayList EXCEPT ![s] = {}]
  BY DEF EndRelays
<1>2. TypeOK'
  BY <1>1 DEF IndInv, TypeOK, starting, handed, commit
<1>3. FillInv' /\ SizeInv' /\ BatchInv'
  BY <1>1, PoolsFrame
<1>4. RelayInv'
  <2>1. IsFiniteSet({}) /\ Cardinality({}) = 0
    BY FS_EmptySet
  <2>2. /\ index'[s] = 0 /\ relayList'[s] = {}
        /\ \A t \in Shards : t # s => index'[t] = index[t] /\ relayList'[t] = relayList[t]
    BY <1>1 DEF IndInv, TypeOK
  <2>3. QED
    BY <1>1, <2>1, <2>2 DEF IndInv, RelayInv, InShard
<1>5. RelayBatchesAreDisjoint'
  BY <1>1 DEF IndInv, RelayBatchesAreDisjoint
<1>6. RowsInv' /\ WindowInv' /\ PipelineInv' /\ TimesInv'
  BY <1>1, CommitFrame
<1>7. QED
  BY <1>2, <1>3, <1>4, <1>5, <1>6 DEF IndInv

\* The list of an upload with one more relay is no longer than a batch, and one
\* shorter unless it is stored.
LEMMA ListLength ==
  ASSUME IndInv, NEW s \in Shards, NEW list,
         list = relayList[s] \cup {<<s, pool[Relay][s] + 1>>}
  PROVE  /\ IsFiniteSet(list) /\ Cardinality(list) <= validateTxNum
         /\ list \subseteq InShard(s, 1..(pool[Relay][s] + 1))
         /\ index[s] % validateTxNum # 0 => Cardinality(list) = index[s] % validateTxNum
<1> DEFINE p == pool[Relay][s]
           l == relayList[s]
           i == index[s]
           v == validateTxNum
<1>1. p \in Nat /\ i \in Nat /\ v \in Nat \ {0}
  <2>1. /\ pool \in [Kinds -> [Shards -> Nat]] /\ index \in [Shards -> Nat]
    BY DEF IndInv, TypeOK
  <2>2. pool[Relay] \in [Shards -> Nat]
    BY <2>1 DEF Kinds, Relay
  <2>3. p \in Nat /\ i \in Nat
    BY <2>1, <2>2
  <2>4. v \in Nat \ {0}
    BY Numbers
  <2>5. QED
    BY <2>3, <2>4
<1>2. /\ l \subseteq InShard(s, 1..p) /\ IsFiniteSet(l)
      /\ Cardinality(l) = IF i = 0 THEN 0 ELSE (i - 1) % v
  BY DEF IndInv, RelayInv
<1>3. <<s, p + 1>> \notin l
  BY <1>1, <1>2 DEF InShard
<1>4. IsFiniteSet(list) /\ Cardinality(list) = Cardinality(l) + 1
  BY <1>2, <1>3, FS_AddElement
<1>5. list \subseteq InShard(s, 1..(p + 1))
  BY <1>1, <1>2 DEF InShard
<1> HIDE DEF p, l, i, v
<1>6. CASE i = 0
  <2>1. i % v = 0
    BY <1>1, <1>6
  <2>2. QED
    BY <1>1, <1>2, <1>4, <1>5, <1>6, <2>1 DEF p, i, v
<1>7. CASE i # 0
  <2> DEFINE j == i - 1
  <2>1. j \in Nat /\ j + 1 = i
    BY <1>1, <1>7
  <2> HIDE DEF j
  <2>2. /\ j % v \in 0..(v - 1)
        /\ (j + 1) % v = IF j % v = v - 1 THEN 0 ELSE (j % v) + 1
    BY <1>1, <2>1, DivMod, NextDivMod
  <2>3. Cardinality(list) = (j % v) + 1
    BY <1>2, <1>4, <1>7 DEF j
  <2>4. Cardinality(list) <= v /\ (i % v # 0 => Cardinality(list) = i % v)
    BY <1>1, <2>1, <2>2, <2>3
  <2>5. QED
    BY <1>4, <1>5, <2>4 DEF p, i, v
<1>8. QED
  BY <1>6, <1>7

LEMMA WriteRelayStep ==
  ASSUME IndInv, NEW s \in Shards, WriteRelay(s)
  PROVE  IndInv'
<1> DEFINE p    == pool[Relay][s]
           list == relayList[s] \cup {<<s, p + 1>>}
           b    == batches[Relay][s]
           closes == index[s] % validateTxNum = 0
<1>1. /\ UNCHANGED <<validateTxNum, stage, starting, handed, commit, upload>>
      /\ pool' = [pool EXCEPT ![Relay][s] = @ + 1]
      /\ index' = [index EXCEPT ![s] = @ + 1]
      /\ toWrite[s] > 0
      /\ toWrite' = [toWrite EXCEPT ![s] = @ - 1]
      /\ \/ /\ closes
            /\ batches'   = [batches EXCEPT ![Relay][s] = Append(@, list)]
            /\ relayList' = [relayList EXCEPT ![s] = {}]
         \/ /\ ~closes /\ batches' = batches
            /\ relayList' = [relayList EXCEPT ![s] = list]
  BY DEF WriteRelay, NewList
<1>2. /\ p \in Nat /\ index[s] \in Nat /\ b \in Seq(SUBSET Txs) /\ toWrite[s] \in Nat
      /\ Relay \in Kinds /\ Internal # Relay /\ Cross # Relay
  <2>1. index[s] \in Nat /\ toWrite[s] \in Nat
    BY DEF IndInv, TypeOK
  <2>2. QED
    BY <2>1, KindsDiffer, PoolTypes
<1>3. /\ IsFiniteSet(list) /\ Cardinality(list) <= validateTxNum
      /\ list \subseteq InShard(s, 1..(p + 1))
      /\ ~closes => Cardinality(list) = index[s] % validateTxNum
  BY ListLength
<1>4. list \subseteq Txs
  BY <1>2, <1>3 DEF InShard, Txs
<1> HIDE DEF list, closes
<1>5. /\ pool' \in [Kinds -> [Shards -> Nat]]
      /\ \A k \in {Internal, Cross}, t \in Shards : pool'[k][t] = pool[k][t]
      /\ \A t \in Shards : pool'[Relay][t] = IF t = s THEN p + 1 ELSE pool[Relay][t]
      /\ \A k \in Kinds, t \in Shards : pool[k][t] \in Nat /\ pool[k][t] <= pool'[k][t]
  <2>1. pool' = [pool EXCEPT ![Relay][s] = p + 1] /\ p + 1 \in Nat
    BY <1>1, <1>2
  <2>2. pool \in [Kinds -> [Shards -> Nat]] /\ Relay \in Kinds
    BY <1>2, PoolTypes
  <2>3. /\ pool' \in [Kinds -> [Shards -> Nat]]
        /\ \A k \in Kinds, t \in Shards :
             pool'[k][t] = IF k = Relay /\ t = s THEN p + 1 ELSE pool[k][t]
    BY <2>1, <2>2, UpdateAt
  <2>4. \A k \in Kinds, t \in Shards : pool[k][t] \in Nat
    BY <2>2
  <2>5. \A k \in {Internal, Cross}, t \in Shards : pool'[k][t] = pool[k][t]
    BY <1>2, <2>3, KindsDiffer
  <2>6. ASSUME NEW k \in Kinds, NEW t \in Shards
        PROVE  pool[k][t] \in Nat /\ pool[k][t] <= pool'[k][t]
    <3>1. pool[k][t] \in Nat
      BY <2>4
    <3>2. CASE k = Relay /\ t = s
      BY <1>2, <2>3, <3>1, <3>2
    <3>3. CASE ~(k = Relay /\ t = s)
      BY <2>3, <3>1, <3>3
    <3>4. QED
      BY <3>1, <3>2, <3>3
  <2>7. QED
    BY <1>2, <2>3, <2>5, <2>6
<1>6. /\ batches' \in [Kinds -> [Shards -> Seq(SUBSET Txs)]]
      /\ \A k \in {Internal, Cross}, t \in Shards : batches'[k][t] = batches[k][t]
      /\ \A t \in Shards : t # s => batches'[Relay][t] = batches[Relay][t]
      /\ batches'[Relay][s] = IF closes THEN Append(b, list) ELSE b
  <2>1. Append(b, list) \in Seq(SUBSET Txs)
    BY <1>2, <1>4
  <2>2. QED
    <3>1. CASE closes
      <4>1. batches' = [batches EXCEPT ![Relay][s] = Append(b, list)]
        BY <1>1, <3>1
      <4>2. batches \in [Kinds -> [Shards -> Seq(SUBSET Txs)]] /\ Relay \in Kinds
        BY <1>2, PoolTypes
      <4>3. /\ batches' \in [Kinds -> [Shards -> Seq(SUBSET Txs)]]
            /\ \A k \in Kinds, t \in Shards :
                 batches'[k][t] = IF k = Relay /\ t = s THEN Append(b, list) ELSE batches[k][t]
        BY <2>1, <4>1, <4>2, UpdateAt
      <4>4. QED
        BY <1>2, <3>1, <4>3, KindsDiffer
    <3>2. CASE ~closes
      BY <1>1, <3>2, PoolTypes
    <3>3. QED
      BY <3>1, <3>2
<1>7. /\ relayList' \in [Shards -> SUBSET Txs]
      /\ \A t \in Shards : t # s => relayList'[t] = relayList[t] /\ index'[t] = index[t]
      /\ relayList'[s] = IF closes THEN {} ELSE list
      /\ index'[s] = index[s] + 1
      /\ index' \in [Shards -> Nat] /\ toWrite' \in [Shards -> Nat]
  <2>1. /\ relayList \in [Shards -> SUBSET Txs]
        /\ index \in [Shards -> Nat] /\ toWrite \in [Shards -> Nat]
    BY DEF IndInv, TypeOK
  <2>2. toWrite[s] - 1 \in Nat
    BY <1>1, <1>2
  <2>3. index' \in [Shards -> Nat] /\ toWrite' \in [Shards -> Nat]
    BY <1>1, <1>2, <2>1, <2>2
  <2>4. QED
    BY <1>1, <1>4, <2>1, <2>3
<1>8. TypeOK'
  <2>1. \A n \in Heights, t \in Shards :
          /\ executed[n][t].internal \subseteq 1..pool'[Internal][t]
          /\ executed[n][t].cross    \subseteq 1..pool'[Cross][t]
    BY <1>5 DEF IndInv, TypeOK
  <2>2. \A t \in Shards : relayed[t] \subseteq 1..pool'[Relay][t]
    <3>1. \A t \in Shards : relayed[t] \subseteq 1..pool[Relay][t]
      BY DEF IndInv, TypeOK
    <3>2. \A t \in Shards : /\ pool[Relay][t] \in Nat /\ pool'[Relay][t] \in Nat
                            /\ pool[Relay][t] <= pool'[Relay][t]
      BY <1>2, <1>5
    <3>3. \A t \in Shards : 1..pool[Relay][t] \subseteq 1..pool'[Relay][t]
      BY <3>2
    <3>4. QED
      BY <3>1, <3>3
  <2>3. QED
    BY <1>1, <1>5, <1>6, <1>7, <2>1, <2>2 DEF IndInv, TypeOK, starting, handed, commit
<1>9. FillInv' /\ SizeInv' /\ BatchInv'
  BY <1>1, <1>5, <1>6, PoolsFrame
<1>10. RowsInv' /\ WindowInv' /\ PipelineInv' /\ TimesInv'
  BY <1>1, <1>5, CommitFrame
<1>11. /\ \A i \in 1..Len(b) : b[i] \subseteq InShard(s, 1..p) /\ b[i] \cap relayList[s] = {}
       /\ \A i \in 1..Len(b) : b[i] \cap list = {}
  <2>1. \A i \in 1..Len(b) : b[i] \subseteq InShard(s, 1..p) /\ b[i] \cap relayList[s] = {}
    BY DEF IndInv, RelayInv
  <2>2. <<s, p + 1>> \notin InShard(s, 1..p)
    BY <1>2 DEF InShard
  <2>3. QED
    BY <2>1, <2>2 DEF list
<1>12. InShard(s, 1..p) \subseteq InShard(s, 1..(p + 1))
  BY <1>2 DEF InShard
<1>13. Len(b) \in Nat
  BY <1>2
<1>14. /\ IsFiniteSet(relayList'[s]) /\ relayList'[s] \subseteq InShard(s, 1..(p + 1))
       /\ Cardinality(relayList'[s]) = index[s] % validateTxNum
  <2>1. IsFiniteSet({}) /\ Cardinality({}) = 0
    BY FS_EmptySet
  <2>2. CASE closes
    BY <1>7, <2>1, <2>2 DEF closes
  <2>3. CASE ~closes
    BY <1>3, <1>7, <2>3
  <2>4. QED
    BY <2>2, <2>3
<1>15. \A i \in 1..Len(batches'[Relay][s]) :
         /\ batches'[Relay][s][i] \subseteq InShard(s, 1..(p + 1))
         /\ batches'[Relay][s][i] \cap relayList'[s] = {}
  <2>1. CASE closes
    <3>1. \A i \in 1..Len(b) : Append(b, list)[i] = b[i]
      BY <1>2
    <3>2. Len(Append(b, list)) = Len(b) + 1 /\ Append(b, list)[Len(b) + 1] = list
      BY <1>2
    <3>3. QED
      BY <1>3, <1>6, <1>7, <1>11, <1>12, <1>13, <2>1, <3>1, <3>2
  <2>2. CASE ~closes
    BY <1>6, <1>7, <1>11, <1>12, <2>2
  <2>3. QED
    BY <2>1, <2>2
<1>16. RelayInv'
  <2>1. index[s] + 1 # 0 /\ (index[s] + 1) - 1 = index[s]
    BY <1>2
  <2>2. ASSUME NEW t \in Shards
        PROVE  /\ relayList'[t] \subseteq InShard(t, 1..pool'[Relay][t])
               /\ IsFiniteSet(relayList'[t])
               /\ Cardinality(relayList'[t]) =
                    IF index'[t] = 0 THEN 0 ELSE (index'[t] - 1) % validateTxNum
               /\ \A i \in 1..Len(batches'[Relay][t]) :
                    /\ batches'[Relay][t][i] \subseteq InShard(t, 1..pool'[Relay][t])
                    /\ batches'[Relay][t][i] \cap relayList'[t] = {}
    <3>1. CASE t = s
      BY <1>5, <1>7, <1>14, <1>15, <2>1, <3>1
    <3>2. CASE t # s
      BY <1>5, <1>6, <1>7, <3>2 DEF IndInv, RelayInv
    <3>3. QED
      BY <3>1, <3>2
  <2>3. QED
    BY <1>1, <2>2 DEF RelayInv, InShard
<1>17. RelayBatchesAreDisjoint'
  <2>1. \A i \in 1..Len(b) : /\ Cardinality(b[i]) <= validateTxNum
                             /\ \A j \in 1..Len(b) : i # j => b[i] \cap b[j] = {}
    BY DEF IndInv, RelayBatchesAreDisjoint
  <2>2. ASSUME closes
        PROVE  \A i \in 1..Len(Append(b, list)) :
                 /\ Cardinality(Append(b, list)[i]) <= validateTxNum
                 /\ \A j \in 1..Len(Append(b, list)) :
                      i # j => Append(b, list)[i] \cap Append(b, list)[j] = {}
    <3>1. \A i \in 1..Len(b) : Append(b, list)[i] = b[i]
      BY <1>2
    <3>2. Len(Append(b, list)) = Len(b) + 1 /\ Append(b, list)[Len(b) + 1] = list
      BY <1>2
    <3>3. QED
      BY <1>3, <1>11, <1>13, <2>1, <3>1, <3>2
  <2>3. QED
    BY <1>1, <1>6, <2>1, <2>2 DEF IndInv, RelayBatchesAreDisjoint
<1>18. QED
  BY <1>8, <1>9, <1>10, <1>16, <1>17 DEF IndInv

-----------------------------------------------------------------------------
(* The requests of clients.                                                *)

\* The pipeline of a step that leaves validateTxNum alone, part by part.
Proposed(n) ==
  proposals[n] # Nothing =>
    \A s \in Shards :
      /\ proposals[n][s].internal = Chunk(s, 1 + ((n + 1) % Parts))
      /\ proposals[n][s].cross    = Chunk(s, 1 + ((n + 1) % Parts))

Executed(m) ==
  \A s \in Shards :
    executed[m][s] = IF m <= PackedOf(s) THEN Executes(m, s) ELSE Empty

LEMMA PipelineParts ==
  /\ PipelineInv <=>
       (Divides =>
          /\ panicked \subseteq {0}
          /\ \A n \in Heights : /\ n <= height => proposals[n] # Nothing
                                /\ Proposed(n) /\ Executed(n))
  /\ PipelineInv' <=>
       (Divides' =>
          /\ panicked' \subseteq {0}
          /\ \A n \in Heights : /\ n <= height' => proposals'[n] # Nothing'
                                /\ Proposed(n)' /\ Executed(n)')
BY DEF PipelineInv, Proposed, Executed

\* Windows of pools that stay as they are.
LEMMA SameWindows ==
  ASSUME IndInv, UNCHANGED <<validateTxNum, pool>>
  PROVE  /\ \A h \in Int, s \in Shards :
              WindowOf(h, s)' = WindowOf(h, s) /\ Sliceable(h, s)' = Sliceable(h, s)
         /\ Divides' = Divides /\ Nothing' = Nothing
         /\ \A n \in Heights : proposals'[n] = proposals[n] /\ Proposed(n) => Proposed(n)'
<1>1. \A h \in Int, s \in Shards :
        WindowOf(h, s)' = WindowOf(h, s) /\ Sliceable(h, s)' = Sliceable(h, s)
  BY SamePools
<1>2. QED
  BY <1>1 DEF Divides, Nothing, Proposed, Chunk, InShard, Parts

\* Commits whose height stays as it is.
LEMMA SameExecutes ==
  ASSUME IndInv, UNCHANGED <<validateTxNum, pool>>, NEW m \in Heights, NEW s \in Shards,
         heightOf'[m] = heightOf[m]
  PROVE  Executes(m, s)' = Executes(m, s)
<1>1. heightOf[m] - 1 \in Int
  BY Rows DEF Heights
<1>2. QED
  BY <1>1 DEF Executes, WindowOf, Sliceable, Window, Start, End, Empty

\* Pools that can be cut are cut in batches one by one.
LEMMA SizeWhenCut ==
  ASSUME IndInv, Divides, NEW k \in {Internal, Cross}, NEW s \in Shards
  PROVE  /\ Made(k, s) \in Nat
         /\ Len(batches[k][s]) = pool[k][s] \div validateTxNum
         /\ Made(k, s) % validateTxNum = pool[k][s] % validateTxNum
<1> DEFINE v == validateTxNum
           q == Parts
           p == pool[k][s]
           a == (s - 1) * q
           m == p \div v
           r == p % v
<1>1. v \in Nat \ {0} /\ q \in Nat \ {0} /\ TxNum = q * v
  BY Numbers, CutInParts
<1>2. p \in Nat
  BY KindsDiffer, PoolTypes
<1>3. m \in Nat /\ r \in 0..(v - 1) /\ p = m * v + r
  BY <1>1, <1>2, DivMod
<1>4. a \in Nat /\ Ahead(s) = a * v
  <2>1. s \in {1, 2}
    BY Numbers
  <2> HIDE DEF v, q
  <2>2. CASE s = 1
    BY <1>1, <2>2 DEF Ahead
  <2>3. CASE s = 2
    BY <1>1, <2>3 DEF Ahead
  <2>4. QED
    BY <2>1, <2>2, <2>3
<1>5. Len(batches[k][s]) = ((Ahead(s) + p) \div v) - (Ahead(s) \div v)
  BY DEF IndInv, SizeInv, Made
<1>6. Made(k, s) = Ahead(s) + p
  BY DEF Made
<1> HIDE DEF v, q, p, a, m, r
<1>7. a * v \in Nat /\ a * v = a * v + 0 /\ 0 \in 0..(v - 1) /\ a \in Int
  BY <1>1, <1>4
<1>8. (a * v) \div v = a
  BY <1>1, <1>7, IsDivMod
<1>9. a * v + p \in Nat /\ a * v + p = (a + m) * v + r /\ a + m \in Int
  BY <1>1, <1>2, <1>3, <1>4, <1>7
<1>10. (a * v + p) \div v = a + m /\ (a * v + p) % v = r
  BY <1>1, <1>3, <1>9, IsDivMod
<1>11. Len(batches[k][s]) = m
  BY <1>3, <1>4, <1>5, <1>8, <1>10
<1>12. QED
  BY <1>4, <1>6, <1>9, <1>10, <1>11 DEF p, m, r, v

\* There is a batch for each part, and it is the chunk of the same number.
LEMMA BatchOf ==
  ASSUME IndInv, Divides, stage = "serving", NEW k \in {Internal, Cross}, NEW s \in Shards
  PROVE  /\ Len(batches[k][s]) = Parts
         /\ \A b \in 1..Parts : batches[k][s][b] = Chunk(s, b)
<1>1. ShardNum = 2
  BY CutInParts
<1>2. pool[k][s] = TxNum
  BY <1>1 DEF IndInv, FillInv
<1>3. Len(batches[k][s]) = Parts
  BY <1>2, SizeWhenCut DEF Parts
<1>4. \A b \in 1..Len(batches[k][s]) : batches[k][s][b] = Chunk(s, b)
  BY DEF IndInv, BatchInv
<1>5. QED
  BY <1>3, <1>4

LEMMA PackTransactionStep ==
  ASSUME IndInv, PackTransaction
  PROVE  IndInv'
<1> DEFINE content == [s \in Shards |-> PackBatchTrans(height + 2, s)]
<1>1. /\ stage = "serving" /\ height < MaxHeight
      /\ \A s \in Shards, k \in {Internal, Cross} : batches[k][s] # <<>>
      /\ proposals' = [proposals EXCEPT ![height + 1] = content]
      /\ UNCHANGED <<validateTxNum, stage, starting, pool, batches, validated, commit, relaying>>
  BY DEF PackTransaction, BatchHeight
<1>2. height \in Nat /\ height + 1 \in Heights
  BY <1>1, Numbers DEF Heights
<1>3. content \in [Shards -> Content(Txs)]
  <2>1. ASSUME NEW s \in Shards, NEW k \in {Internal, Cross}
        PROVE  batches[k][s][1 + ((height + 2) % Len(batches[Internal][s]))] \in SUBSET Txs
    <3>1. Len(batches[Internal][s]) = Len(batches[k][s])
      <4>1. pool[Internal][s] = TxNum /\ pool[Cross][s] = IF ShardNum = 2 THEN TxNum ELSE 0
        BY <1>1 DEF IndInv, FillInv
      <4>2. Len(batches[k][s]) = ((Ahead(s) + pool[k][s]) \div validateTxNum)
                                    - (Ahead(s) \div validateTxNum)
        BY DEF IndInv, SizeInv, Made
      <4>3. Len(batches[Internal][s]) = ((Ahead(s) + pool[Internal][s]) \div validateTxNum)
                                           - (Ahead(s) \div validateTxNum)
        BY DEF IndInv, SizeInv, Made
      <4>4. CASE ShardNum = 2
        BY <4>1, <4>2, <4>3, <4>4
      <4>5. CASE ShardNum # 2
        <5>1. pool[Cross][s] = 0
          BY <4>1, <4>5
        <5>2. Len(batches[Cross][s]) = ((Ahead(s) + 0) \div validateTxNum)
                                          - (Ahead(s) \div validateTxNum)
          BY <5>1 DEF IndInv, SizeInv, Made
        <5>3. /\ Ahead(s) + 0 = Ahead(s) /\ Ahead(s) \in Nat
              /\ Ahead(s) \div validateTxNum \in Nat
          <6>1. Ahead(s) + 0 = Ahead(s) /\ Ahead(s) \in Nat
            BY Numbers DEF Ahead
          <6>2. QED
            BY <6>1, Numbers, DivMod
        <5>4. Len(batches[Cross][s]) = 0
          BY <5>2, <5>3
        <5>5. batches[Cross][s] \in Seq(SUBSET Txs) /\ batches[Cross][s] # <<>>
          BY <1>1, KindsDiffer, PoolTypes
        <5>6. QED
          BY <5>4, <5>5
      <4>6. QED
        BY <4>4, <4>5
    <3>2. batches[k][s] \in Seq(SUBSET Txs) /\ batches[k][s] # <<>>
      BY <1>1, KindsDiffer, PoolTypes
    <3>3. Len(batches[k][s]) \in Nat \ {0}
      BY <3>2
    <3>4. (height + 2) % Len(batches[k][s]) \in 0..(Len(batches[k][s]) - 1)
      <4>1. height + 2 \in Nat
        BY <1>2
      <4>2. QED
        BY <3>3, <4>1, DivMod
    <3>5. 1 + ((height + 2) % Len(batches[k][s])) \in 1..Len(batches[k][s])
      BY <3>3, <3>4
    <3>6. QED
      BY <3>1, <3>2, <3>5
  <2>2. QED
    BY <2>1 DEF PackBatchTrans, Content
<1> HIDE DEF content
<1>4. /\ proposals' \in [Heights -> [Shards -> Content(Txs)]]
      /\ \A n \in Heights : proposals'[n] = IF n = height + 1 THEN content ELSE proposals[n]
  BY <1>1, <1>2, <1>3 DEF IndInv, TypeOK
<1>5. TypeOK'
  BY <1>1, <1>4 DEF IndInv, TypeOK, starting, commit, relaying
<1>6. FillInv' /\ SizeInv' /\ BatchInv'
  BY <1>1, PoolsFrame
<1>7. RelayInv' /\ RelayBatchesAreDisjoint'
  BY <1>1, RelayFrame DEF relaying
<1>8. RowsInv' /\ WindowInv'
  BY <1>1, Numbers, WindowFrame DEF commit
<1>9. TimesInv'
  BY <1>1 DEF IndInv, TimesInv, Divides, Times, Due, Parts, RowsOf, LostOf, PackedOf, commit
<1>10. PipelineInv'
  <2>1. UNCHANGED <<panicked, height, commits, heightOf, committer, current, executed>>
    BY <1>1 DEF commit
  <2>2. SUFFICES ASSUME Divides'
                 PROVE  PipelineInv'
    BY PipelineParts
  <2>3. Divides /\ Nothing' = Nothing
    BY <1>1, <2>1, <2>2, SameWindows
  <2>4. \A n \in Heights : /\ n <= height => proposals[n] # Nothing
                           /\ Proposed(n) /\ Executed(n)
    BY <2>3, PipelineParts DEF IndInv
  <2>5. \A n \in Heights : Executed(n)'
    <3>1. \A n \in Heights, t \in Shards : Executes(n, t)' = Executes(n, t)
      BY <1>1, <2>1, SameExecutes
    <3>2. QED
      BY <2>1, <2>4, <3>1 DEF Executed, PackedOf, Empty
  <2>6. \A n \in Heights : n # height + 1 => Proposed(n)'
    BY <1>1, <1>4, <2>1, <2>4, SameWindows
  <2>7. ASSUME NEW n \in Heights, n = height + 1
        PROVE  Proposed(n)'
    <3> DEFINE b == 1 + ((height + 2) % Parts)
    <3>1. b \in 1..Parts
      <4>1. Parts \in Nat \ {0} /\ height + 2 \in Nat
        BY <1>2, <2>3, CutInParts
      <4>2. (height + 2) % Parts \in 0..(Parts - 1)
        BY <4>1, DivMod
      <4>3. QED
        BY <4>1, <4>2
    <3>2. \A s \in Shards, k \in {Internal, Cross} :
            Len(batches[k][s]) = Parts /\ batches[k][s][b] = Chunk(s, b)
      BY <1>1, <2>3, <3>1, BatchOf
    <3>3. \A s \in Shards : content[s].internal = Chunk(s, b) /\ content[s].cross = Chunk(s, b)
      BY <3>2 DEF content, PackBatchTrans
    <3>4. proposals'[n] = content /\ n + 1 = height + 2
      BY <1>2, <1>4, <2>7
    <3>5. QED
      BY <1>1, <2>1, <3>3, <3>4 DEF Proposed, Chunk, InShard, Parts
  <2>8. \A n \in Heights : n <= height' => proposals'[n] # Nothing'
    BY <1>2, <1>4, <2>1, <2>3, <2>4 DEF Heights
  <2>9. panicked' \subseteq {0}
    BY <2>1, <2>3, PipelineParts DEF IndInv
  <2>10. \A n \in Heights : Proposed(n)'
    BY <2>6, <2>7
  <2>11. QED
    BY <2>5, <2>8, <2>9, <2>10, PipelineParts
<1>11. QED
  BY <1>5, <1>6, <1>7, <1>8, <1>9, <1>10 DEF IndInv

\* Requests of execution clients.
LEMMA AskedPipeline ==
  ASSUME IndInv, UNCHANGED <<validateTxNum, pool, proposals, commit>>
  PROVE  PipelineInv'
<1>1. UNCHANGED <<panicked, height, commits, heightOf, committer, current, executed>>
  BY DEF commit
<1>2. SUFFICES ASSUME Divides'
               PROVE  PipelineInv'
  BY PipelineParts
<1>3. Divides /\ Nothing' = Nothing
  BY <1>2, SameWindows
<1>4. panicked \subseteq {0} /\ \A n \in Heights : /\ n <= height => proposals[n] # Nothing
                                                  /\ Proposed(n) /\ Executed(n)
  BY <1>3, PipelineParts DEF IndInv
<1>5. \A n \in Heights, s \in Shards : Executes(n, s)' = Executes(n, s)
  BY <1>1, SameExecutes
<1>6. \A n \in Heights : Executed(n)'
  BY <1>1, <1>4, <1>5 DEF Executed, PackedOf, Empty
<1>7. \A n \in Heights : Proposed(n)'
  BY <1>4, SameWindows
<1>8. QED
  BY <1>1, <1>3, <1>4, <1>6, <1>7, PipelineParts

\* Also window -1, where it can be sliced.
LEMMA WindowInPools ==
  ASSUME IndInv, stage = "serving", NEW h \in Int, h >= -1, NEW s \in Shards, Sliceable(h, s)
  PROVE  /\ Window(h, s) \subseteq 1..pool[Internal][s]
         /\ Window(h, s) \subseteq 1..pool[Cross][s]
         /\ Window(h, s) \subseteq Nat
<1> DEFINE v == validateTxNum
<1>1. v \in Nat \ {0} /\ TxNum \in Nat \ {0} /\ pool[Internal][s] = TxNum
  BY Numbers DEF IndInv, FillInv
<1>2. h * v \in Int /\ (h + 1) * v \in Nat
  BY <1>1
<1>3. ((h + 1) * v) % TxNum \in 0..(TxNum - 1)
  BY <1>1, <1>2, DivMod
<1>4. Start(h, s) \in Int
  <2> DEFINE a == h * v
  <2>1. a \in Int /\ Start(h, s) = Remainder(a, TxNum)
    BY <1>1, <1>2 DEF Start
  <2> HIDE DEF a
  <2>2. QED
    BY <1>1, <2>1 DEF Remainder
<1>5. End(h, s) \in 1..TxNum
  BY <1>1, <1>3 DEF End
<1>6. 0 <= Start(h, s) /\ End(h, s) <= pool[Cross][s] /\ pool[Cross][s] \in Nat
  BY KindsDiffer, PoolTypes DEF Sliceable
<1>7. QED
  BY <1>1, <1>4, <1>5, <1>6 DEF Window

LEMMA PackValidTxStep ==
  ASSUME IndInv, NEW s \in Shards, PackValidTx(s)
  PROVE  IndInv'
<1> DEFINE w == IF height >= 1 THEN Window(height - 1, s) ELSE {}
<1>1. /\ stage = "serving" /\ (height >= 1 => Sliceable(height - 1, s))
      /\ validated' = [shard |-> s, read |-> height, answered |-> FALSE, height |-> 0,
                       internal |-> w, cross |-> w]
      /\ UNCHANGED <<validateTxNum, stage, starting, pool, batches, proposals, commit, relaying>>
  BY DEF PackValidTx, ValidHeight
<1>2. height \in Nat /\ height - 1 \in Int /\ height - 1 >= -1
  BY Numbers
<1>3. w \subseteq Nat
  BY <1>1, <1>2, WindowInPools
<1>4. height' = height /\ height \in 0..height /\ 0 \in 0..height
  BY <1>1, <1>2 DEF commit
<1>5. TypeOK'
  BY <1>1, <1>3, <1>4 DEF IndInv, TypeOK, starting, commit, relaying
<1>6. FillInv' /\ SizeInv' /\ BatchInv'
  BY <1>1, PoolsFrame
<1>7. RelayInv' /\ RelayBatchesAreDisjoint'
  BY <1>1, RelayFrame DEF relaying
<1>8. RowsInv' /\ WindowInv'
  <2>1. UNCHANGED <<height, commits, heightOf, committer, executed, pool>>
    BY <1>1 DEF commit
  <2>2. RowsInv'
    BY <2>1 DEF IndInv, RowsInv
  <2>3. \A m \in Heights, t \in Shards :
          WindowOf(heightOf[m] - 1, t)' = WindowOf(heightOf[m] - 1, t)
    BY <1>1, <2>1 DEF WindowOf, Window, Start, End
  <2>4. (validated.internal # {} =>
          LET x == Window(validated.read - 1, validated.shard) IN
          validated.internal = x /\ validated.cross = x)'
    BY <1>1, <2>1 DEF Window, Start, End
  <2>5. (validated.answered => validated.read <= validated.height)'
    BY <1>1
  <2>6. QED
    BY <1>1, <2>1, <2>2, <2>3, <2>4, <2>5 DEF IndInv, WindowInv
<1>9. TimesInv'
  BY <1>1 DEF IndInv, TimesInv, Divides, Times, Due, Parts, RowsOf, LostOf, PackedOf, commit
<1>10. PipelineInv'
  BY <1>1, AskedPipeline
<1>11. QED
  BY <1>5, <1>6, <1>7, <1>8, <1>9, <1>10 DEF IndInv

LEMMA AnswerValidTxStep ==
  ASSUME IndInv, AnswerValidTx
  PROVE  IndInv'
<1>1. /\ validated' = [validated EXCEPT !.answered = TRUE, !.height = height]
      /\ UNCHANGED <<validateTxNum, stage, starting, pool, batches, proposals, commit, relaying>>
  BY DEF AnswerValidTx
<1>2. height \in Nat /\ height' = height /\ height \in 0..height
  BY <1>1, Numbers DEF commit
<1>3. /\ validated \in [shard : Shards, read : 0..height, answered : BOOLEAN,
                         height : 0..height, internal : SUBSET Nat, cross : SUBSET Nat]
      /\ TypeOK
  BY DEF IndInv, TypeOK
<1>4. /\ validated' \in [shard : Shards, read : 0..height, answered : BOOLEAN,
                         height : 0..height, internal : SUBSET Nat, cross : SUBSET Nat]
      /\ validated'.shard = validated.shard /\ validated'.read = validated.read
      /\ validated'.internal = validated.internal /\ validated'.cross = validated.cross
      /\ validated'.height = height /\ validated.read <= height
  <2>1. validated.read <= height
    BY <1>2, <1>3
  <2>2. validated' = [shard |-> validated.shard, read |-> validated.read, answered |-> TRUE,
                      height |-> height, internal |-> validated.internal,
                      cross |-> validated.cross]
    BY <1>1, <1>3
  <2>3. QED
    BY <1>2, <1>3, <2>1, <2>2
<1>5. TypeOK'
  BY <1>1, <1>2, <1>3, <1>4 DEF TypeOK, starting, commit, relaying
<1>6. FillInv' /\ SizeInv' /\ BatchInv'
  BY <1>1, PoolsFrame
<1>7. RelayInv' /\ RelayBatchesAreDisjoint'
  BY <1>1, RelayFrame DEF relaying
<1>8. RowsInv' /\ WindowInv'
  <2>1. UNCHANGED <<height, commits, heightOf, committer, executed, pool>>
    BY <1>1 DEF commit
  <2>2. RowsInv'
    BY <2>1 DEF IndInv, RowsInv
  <2>3. \A m \in Heights, t \in Shards :
          WindowOf(heightOf[m] - 1, t)' = WindowOf(heightOf[m] - 1, t)
    BY <1>1, <2>1 DEF WindowOf, Window, Start, End
  <2>4. (validated.internal # {} =>
          LET x == Window(validated.read - 1, validated.shard) IN
          validated.internal = x /\ validated.cross = x)'
    BY <1>1, <1>4, <2>1 DEF IndInv, WindowInv, Window, Start, End
  <2>5. (validated.answered => validated.read <= validated.height)'
    BY <1>4
  <2>6. QED
    BY <1>1, <2>1, <2>2, <2>3, <2>4, <2>5 DEF IndInv, WindowInv
<1>9. TimesInv'
  BY <1>1 DEF IndInv, TimesInv, Divides, Times, Due, Parts, RowsOf, LostOf, PackedOf, commit
<1>10. PipelineInv'
  BY <1>1, AskedPipeline
<1>11. QED
  BY <1>5, <1>6, <1>7, <1>8, <1>9, <1>10 DEF IndInv

-----------------------------------------------------------------------------
(* The commit of a block.                                                  *)

\* A step that leaves the windows executed alone, and whose committer has packed the
\* same commits before and after.
LEMMA SamePacked ==
  ASSUME IndInv, UNCHANGED <<validateTxNum, pool, proposals, executed, panicked>>,
         \A s \in Shards : (PackedOf(s))' = PackedOf(s) /\ PackedOf(s) \in 0..commits,
         \A m \in 0..commits : heightOf'[m] = heightOf[m],
         Divides => \A n \in Heights : n <= height' => proposals[n] # Nothing
  PROVE  PipelineInv' /\ TimesInv'
<1>1. TimesInv'
  <2>1. \A s \in Shards : RowsOf(s)' = RowsOf(s) /\ LostOf(s)' = LostOf(s)
    BY DEF RowsOf, LostOf
  <2>2. QED
    BY <2>1 DEF IndInv, TimesInv, Divides, Times, Due, Parts
<1>2. SUFFICES ASSUME Divides'
               PROVE  PipelineInv'
  BY <1>1, PipelineParts
<1>3. Divides /\ Nothing' = Nothing
  BY <1>2 DEF Divides, Nothing
<1>4. panicked \subseteq {0} /\ \A n \in Heights : Proposed(n) /\ Executed(n)
  BY <1>3, PipelineParts DEF IndInv
<1>5. \A n \in Heights : Proposed(n)'
  BY <1>4 DEF Proposed, Nothing, Chunk, InShard, Parts
<1>6. ASSUME NEW m \in Heights
      PROVE  Executed(m)'
  <2>1. ASSUME NEW s \in Shards
        PROVE  executed[m][s] = IF m <= PackedOf(s)' THEN Executes(m, s)' ELSE Empty
    <3>1. executed[m][s] = IF m <= PackedOf(s) THEN Executes(m, s) ELSE Empty
      BY <1>4 DEF Executed
    <3>2. CASE m <= PackedOf(s)
      <4>1. m \in 0..commits
        BY <3>2, Numbers DEF Heights
      <4>2. Executes(m, s)' = Executes(m, s)
        BY <4>1, SameExecutes
      <4>3. QED
        BY <3>1, <4>2
    <3>3. CASE ~(m <= PackedOf(s))
      BY <3>1, <3>3
    <3>4. QED
      BY <3>2, <3>3
  <2>2. QED
    BY <2>1 DEF Executed, Empty
<1>7. QED
  BY <1>3, <1>4, <1>5, <1>6, PipelineParts

\* Whether the row is inserted or lost.
LEMMA CommitStep ==
  ASSUME IndInv, Commit
  PROVE  IndInv'
<1>1. /\ stage = "serving" /\ committer = "idle" /\ commits < MaxHeight
      /\ proposals[height + 1] # Nothing
      /\ height' \in {height, height + 1} /\ commits' = commits + 1
      /\ heightOf' = [heightOf EXCEPT ![commits + 1] = height']
      /\ committer' = "packing" /\ current' = 1
      /\ UNCHANGED <<validateTxNum, stage, starting, pool, batches, handed,
                     executed, relayed, panicked, mark, relaying>>
  BY DEF Commit
<1>2. /\ height \in Nat /\ height' \in 0..MaxHeight /\ MaxHeight \in Nat /\ 1 \in Shards
      /\ commits \in Nat /\ commits' \in height'..MaxHeight /\ height <= height'
      /\ commits + 1 \in 1..MaxHeight
  BY <1>1, Numbers DEF Shards
<1>3. /\ heightOf' \in [0..MaxHeight -> 0..height'] /\ heightOf'[commits + 1] = height'
      /\ \A m \in 0..commits : heightOf'[m] = heightOf[m]
  <2>1. heightOf \in [0..MaxHeight -> 0..height']
    <3>1. 0..height \subseteq 0..height'
      BY <1>2
    <3>2. heightOf \in [0..MaxHeight -> 0..height]
      BY DEF IndInv, TypeOK
    <3>3. QED
      BY <3>1, <3>2
  <2>2. height' \in 0..height' /\ commits + 1 \in 0..MaxHeight
    BY <1>2
  <2>3. \A m \in 0..commits : m \in 0..MaxHeight /\ m # commits + 1
    BY <1>2
  <2>4. QED
    BY <1>1, <2>1, <2>2, <2>3
<1>4. TypeOK'
  <2>1. validated' \in [shard : Shards, read : 0..height', answered : BOOLEAN,
                        height : 0..height', internal : SUBSET Nat, cross : SUBSET Nat]
    <3>1. 0..height \subseteq 0..height'
      BY <1>2
    <3>2. /\ validated' = validated
          /\ validated \in [shard : Shards, read : 0..height, answered : BOOLEAN,
                            height : 0..height, internal : SUBSET Nat, cross : SUBSET Nat]
      BY <1>1 DEF IndInv, TypeOK, handed
    <3>3. QED
      BY <3>1, <3>2
  <2>2. /\ height' \in 0..MaxHeight /\ current' \in Shards
        /\ committer' \in {"idle", "packing", "resetting"}
    BY <1>1, <1>2
  <2>3. UNCHANGED <<validateTxNum, stage, kind, shard, translist, pool, batches, proposals,
                    executed, relayed, panicked, mark, upload, index, toWrite, relayList>>
    BY <1>1 DEF starting, handed, relaying
  <2>4. TypeOK
    BY DEF IndInv
  <2>5. panicked' \subseteq 0..height'
    BY <1>2, <2>3, <2>4 DEF TypeOK
  <2>6. QED
    BY <1>2, <1>3, <2>1, <2>2, <2>3, <2>4, <2>5 DEF TypeOK
<1>5. FillInv' /\ SizeInv' /\ BatchInv'
  BY <1>1, PoolsFrame
<1>6. RelayInv' /\ RelayBatchesAreDisjoint'
  BY <1>1, RelayFrame DEF relaying
<1>7. RowsInv'
  <2>1. /\ heightOf[0] = 0 /\ heightOf[commits] = height
        /\ \A m \in 1..commits : heightOf[m] \in {heightOf[m - 1], heightOf[m - 1] + 1}
    BY Rows
  <2>2. heightOf'[0] = 0 /\ heightOf'[commits] = height
    BY <1>2, <1>3, <2>1
  <2>3. ASSUME NEW m \in 1..(commits + 1)
        PROVE  heightOf'[m] \in {heightOf'[m - 1], heightOf'[m - 1] + 1}
    <3>1. CASE m = commits + 1
      <4>1. m - 1 = commits
        BY <1>2, <3>1
      <4>2. QED
        BY <1>1, <1>3, <2>2, <3>1, <4>1
    <3>2. CASE m # commits + 1
      <4>1. m \in 1..commits /\ m \in 0..commits /\ m - 1 \in 0..commits
        BY <1>2, <3>2
      <4>2. QED
        BY <1>3, <2>1, <4>1
    <3>3. QED
      BY <3>1, <3>2
  <2>4. QED
    BY <1>1, <1>3, <2>2, <2>3 DEF RowsInv
<1>8. WindowInv'
  <2>1. validated.shard \in Shards
    BY DEF IndInv, TypeOK
  <2>2. ASSUME NEW m \in Heights, NEW s \in Shards, executed'[m][s].internal # {}
        PROVE  m <= commits' /\ executed'[m][s] = (WindowOf(heightOf[m] - 1, s))'
    <3>1. m <= commits /\ executed[m][s] = WindowOf(heightOf[m] - 1, s)
      BY <1>1, <2>2 DEF IndInv, WindowInv
    <3>2. m \in 0..commits
      BY <1>2, <3>1 DEF Heights
    <3>3. heightOf'[m] = heightOf[m]
      BY <1>3, <3>2
    <3>4. (WindowOf(heightOf[m] - 1, s))' = WindowOf(heightOf[m] - 1, s)
      BY <1>1, <3>3 DEF WindowOf, Window, Start, End
    <3>5. QED
      BY <1>1, <1>2, <3>1, <3>2, <3>4
  <2>3. (validated.internal # {} =>
          LET w == Window(validated.read - 1, validated.shard) IN
          validated.internal = w /\ validated.cross = w)'
    BY <1>1, <2>1 DEF IndInv, WindowInv, Window, Start, End, handed
  <2>4. (validated.answered => validated.read <= validated.height)'
    BY <1>1 DEF IndInv, WindowInv, handed
  <2>5. commits' >= 1
    BY <1>1, <1>2
  <2>6. QED
    BY <1>1, <2>2, <2>3, <2>4, <2>5 DEF WindowInv
<1>9. PipelineInv' /\ TimesInv'
  <2>1. \A s \in Shards : (PackedOf(s))' = PackedOf(s) /\ PackedOf(s) \in 0..commits
    BY <1>1, <1>2, Numbers DEF PackedOf, Shards
  <2>2. Divides => \A n \in Heights : n <= height => proposals[n] # Nothing
    BY DEF IndInv, PipelineInv
  <2>3. Divides => \A n \in Heights : n <= height' => proposals[n] # Nothing
    BY <1>1, <1>2, <2>2 DEF Heights
  <2>4. QED
    BY <1>1, <1>3, <2>1, <2>3, SamePacked DEF handed
<1>10. QED
  BY <1>4, <1>5, <1>6, <1>7, <1>8, <1>9 DEF IndInv

LEMMA ResetShardStep ==
  ASSUME IndInv, ResetShard
  PROVE  IndInv'
<1>1. /\ committer = "resetting" /\ committer' \in {"resetting", "idle"}
      /\ upload' = [upload EXCEPT ![current] = "open"]
      /\ mark' = [mark EXCEPT ![current] = pool[Relay][current]]
      /\ current' \in Shards
      /\ UNCHANGED <<validateTxNum, stage, starting, pool, batches, height, commits,
                     heightOf, handed, executed, relayed, panicked, index, toWrite,
                     relayList>>
  BY Numbers DEF ResetShard, NextShard, Shards
<1>2. TypeOK'
  <2>1. upload' \in [Shards -> {"open", "writing", "closed"}]
    BY <1>1 DEF IndInv, TypeOK
  <2>2. mark' \in [Shards -> Nat]
    <3>1. current \in Shards => pool[Relay][current] \in Nat
      BY KindsDiffer, PoolTypes
    <3>2. mark \in [Shards -> Nat] /\ current \in Shards
      BY DEF IndInv, TypeOK
    <3>3. QED
      BY <1>1, <3>1, <3>2
  <2>3. QED
    BY <1>1, <2>1, <2>2 DEF IndInv, TypeOK, starting, handed
<1>3. FillInv' /\ SizeInv' /\ BatchInv'
  BY <1>1, PoolsFrame
<1>4. RelayInv' /\ RelayBatchesAreDisjoint'
  BY <1>1, RelayFrame
<1>5. RowsInv' /\ WindowInv'
  <2>1. commits >= 1 /\ stage # "starting"
    BY <1>1, Numbers
  <2>2. QED
    BY <1>1, <2>1, WindowFrame DEF handed
<1>6. PipelineInv' /\ TimesInv'
  <2>1. \A s \in Shards : (PackedOf(s))' = PackedOf(s) /\ PackedOf(s) \in 0..commits
    BY <1>1, Numbers DEF PackedOf
  <2>2. Divides => \A n \in Heights : n <= height' => proposals[n] # Nothing
    BY <1>1 DEF IndInv, PipelineInv
  <2>3. QED
    BY <1>1, <2>1, <2>2, SamePacked DEF handed
<1>7. QED
  BY <1>2, <1>3, <1>4, <1>5, <1>6 DEF IndInv

\* The committer goes on to the next shard, or to l with all shards packed.
LEMMA NextShardPacks ==
  ASSUME IndInv, committer = "packing", NextShard("resetting"), commits' = commits
  PROVE  /\ committer' \in {"packing", "resetting"} /\ current' \in Shards
         /\ \A s \in Shards : PackedOf(s)' = IF s = current THEN commits ELSE PackedOf(s)
         /\ PackedOf(current) = commits - 1
<1>1. current \in 1..ShardNum /\ Shards \subseteq {1, 2} /\ ShardNum \in {1, 2} /\ commits \in Nat
  BY Numbers
<1>2. PackedOf(current) = commits - 1
  BY <1>1 DEF PackedOf
<1>3. CASE current < ShardNum
  <2>1. committer' = "packing" /\ current' = current + 1
    BY <1>3 DEF NextShard
  <2>2. current' \in Shards
    BY <1>1, <1>3, <2>1 DEF Shards
  <2>3. ASSUME NEW s \in Shards
        PROVE  PackedOf(s)' = IF s = current THEN commits ELSE PackedOf(s)
    BY <1>1, <1>3, <2>1 DEF PackedOf, Shards
  <2>4. QED
    BY <1>2, <2>1, <2>2, <2>3
<1>4. CASE ~(current < ShardNum)
  <2>1. committer' = "resetting" /\ current' = 1
    BY <1>4 DEF NextShard
  <2>2. current' \in Shards
    BY <1>1, <2>1 DEF Shards
  <2>3. ASSUME NEW s \in Shards
        PROVE  PackedOf(s)' = IF s = current THEN commits ELSE PackedOf(s)
    BY <1>1, <1>4, <2>1 DEF PackedOf, Shards
  <2>4. QED
    BY <1>2, <2>1, <2>2, <2>3
<1>5. QED
  BY <1>3, <1>4

\* A shard is packed, whether the row of the block was inserted or lost.
LEMMA PackShardStep ==
  ASSUME IndInv, PackShard
  PROVE  IndInv'
<1> DEFINE h == height - 1
           c == current
           w == Window(h, c)
<1>1. /\ committer = "packing" /\ Sliceable(h, c)
      /\ executed' = [executed EXCEPT ![commits][c] = WindowOf(h, c)]
      /\ relayed' = [relayed EXCEPT ![c] = RelayWindow(c)]
      /\ NextShard("resetting")
      /\ UNCHANGED <<validateTxNum, stage, starting, pool, batches, height, commits,
                     heightOf, handed, panicked, mark, relaying>>
  BY DEF PackShard, WindowOf
<1>2. /\ height \in Nat /\ h \in Int /\ h >= -1 /\ commits \in Heights /\ c \in Shards
      /\ stage = "serving" /\ heightOf[commits] = height /\ commits \in Nat
  BY <1>1, Numbers, Rows DEF Heights, Shards
<1>3. w \subseteq 1..pool[Internal][c] /\ w \subseteq 1..pool[Cross][c] /\ w \subseteq Nat
  BY <1>1, <1>2, WindowInPools
<1>4. /\ executed \in [Heights -> [Shards -> Content(Nat)]]
      /\ WindowOf(h, c) \in Content(Nat)
      /\ WindowOf(h, c).internal = w /\ WindowOf(h, c).cross = w
  BY <1>3 DEF IndInv, TypeOK, Content, WindowOf
<1> HIDE DEF w, c, h
<1>5. /\ executed' \in [Heights -> [Shards -> Content(Nat)]]
      /\ \A m \in Heights, s \in Shards :
           executed'[m][s] = IF m = commits /\ s = c THEN WindowOf(h, c) ELSE executed[m][s]
  <2>1. executed' \in [Heights -> [Shards -> Content(Nat)]]
    BY <1>1, <1>2, <1>4
  <2>2. ASSUME NEW m \in Heights, NEW s \in Shards
        PROVE  executed'[m][s] = IF m = commits /\ s = c THEN WindowOf(h, c)
                                 ELSE executed[m][s]
    BY <1>1, <1>2, <1>4
  <2>3. QED
    BY <2>1, <2>2
<1>6. /\ committer' \in {"packing", "resetting"} /\ current' \in Shards
      /\ \A s \in Shards : PackedOf(s)' = IF s = c THEN commits ELSE PackedOf(s)
      /\ PackedOf(c) = commits - 1
  BY <1>1, NextShardPacks DEF c
<1>7. TypeOK'
  <2>1. \A m \in Heights, s \in Shards :
          /\ executed'[m][s].internal \subseteq 1..pool[Internal][s]
          /\ executed'[m][s].cross    \subseteq 1..pool[Cross][s]
    <3>1. \A m \in Heights, s \in Shards :
            /\ executed[m][s].internal \subseteq 1..pool[Internal][s]
            /\ executed[m][s].cross    \subseteq 1..pool[Cross][s]
      BY DEF IndInv, TypeOK
    <3>2. ASSUME NEW m \in Heights, NEW s \in Shards
          PROVE  /\ executed'[m][s].internal \subseteq 1..pool[Internal][s]
                 /\ executed'[m][s].cross    \subseteq 1..pool[Cross][s]
      <4>1. CASE m = commits /\ s = c
        BY <1>3, <1>4, <1>5, <4>1
      <4>2. CASE ~(m = commits /\ s = c)
        BY <1>5, <3>1, <4>2
      <4>3. QED
        BY <4>1, <4>2
    <3>3. QED
      BY <3>2
  <2>2. RelayWindow(c) \subseteq 1..pool[Relay][c] /\ RelayWindow(c) \subseteq Nat
    <3>1. pool[Relay][c] \in Nat /\ validateTxNum \in Nat
      BY <1>2, KindsDiffer, PoolTypes, Numbers
    <3>2. QED
      BY <3>1 DEF RelayWindow
  <2>3. /\ relayed' \in [Shards -> SUBSET Nat]
        /\ \A s \in Shards : relayed'[s] \subseteq 1..pool[Relay][s]
    BY <1>1, <1>2, <2>2 DEF IndInv, TypeOK
  <2>4. QED
    BY <1>1, <1>5, <1>6, <2>1, <2>3 DEF IndInv, TypeOK, starting, handed, relaying
<1>8. FillInv' /\ SizeInv' /\ BatchInv'
  BY <1>1, PoolsFrame
<1>9. RelayInv' /\ RelayBatchesAreDisjoint'
  BY <1>1, RelayFrame DEF relaying
<1>10. \A m \in Heights, s \in Shards :
         /\ (WindowOf(heightOf[m] - 1, s))' = WindowOf(heightOf[m] - 1, s)
         /\ Executes(m, s)' = Executes(m, s)
  <2>1. \A m \in Heights, s \in Shards :
          (WindowOf(heightOf[m] - 1, s))' = WindowOf(heightOf[m] - 1, s)
    BY <1>1 DEF WindowOf, Window, Start, End
  <2>2. \A m \in Heights, s \in Shards : Executes(m, s)' = Executes(m, s)
    BY <1>1, SameExecutes
  <2>3. QED
    BY <2>1, <2>2
<1>11. RowsInv' /\ WindowInv'
  <2>1. validated.shard \in Shards
    BY DEF IndInv, TypeOK
  <2>2. \A m \in Heights, s \in Shards :
          executed[m][s].internal # {} =>
            m <= commits /\ executed[m][s] = WindowOf(heightOf[m] - 1, s)
    BY DEF IndInv, WindowInv
  <2>3. ASSUME NEW m \in Heights, NEW s \in Shards, executed'[m][s].internal # {}
        PROVE  m <= commits' /\ executed'[m][s] = (WindowOf(heightOf[m] - 1, s))'
    <3>1. CASE m = commits /\ s = c
      BY <1>1, <1>2, <1>5, <1>10, <3>1 DEF h
    <3>2. CASE ~(m = commits /\ s = c)
      BY <1>1, <1>5, <1>10, <2>2, <2>3, <3>2
    <3>3. QED
      BY <3>1, <3>2
  <2>4. (validated.internal # {} =>
          LET x == Window(validated.read - 1, validated.shard) IN
          validated.internal = x /\ validated.cross = x)'
    BY <1>1, <2>1 DEF IndInv, WindowInv, Window, Start, End, handed
  <2>5. (validated.answered => validated.read <= validated.height)'
    BY <1>1 DEF IndInv, WindowInv, handed
  <2>6. stage' # "starting" /\ commits' >= 1
    BY <1>1, <1>2, Numbers
  <2>7. RowsInv'
    BY <1>1 DEF IndInv, RowsInv
  <2>8. QED
    BY <2>3, <2>4, <2>5, <2>6, <2>7 DEF WindowInv
<1>12. PipelineInv'
  <2>1. SUFFICES ASSUME Divides'
                 PROVE  PipelineInv'
    BY PipelineParts
  <2>2. Divides /\ Nothing' = Nothing
    BY <1>1, <2>1 DEF Divides, Nothing
  <2>3. panicked \subseteq {0} /\ \A n \in Heights : /\ n <= height => proposals[n] # Nothing
                                                     /\ Proposed(n) /\ Executed(n)
    BY <2>2, PipelineParts DEF IndInv
  <2>4. UNCHANGED proposals
    BY <1>1 DEF handed
  <2>5. \A n \in Heights : Proposed(n)'
    BY <1>1, <2>3, <2>4 DEF Proposed, Nothing, Chunk, InShard, Parts
  <2>6. ASSUME NEW m \in Heights, NEW s \in Shards
        PROVE  executed'[m][s] = IF m <= PackedOf(s)' THEN Executes(m, s)' ELSE Empty
    <3>1. executed[m][s] = IF m <= PackedOf(s) THEN Executes(m, s) ELSE Empty
      BY <2>3 DEF Executed
    <3>2. CASE s # c
      BY <1>5, <1>6, <1>10, <3>1, <3>2
    <3>3. CASE s = c /\ m = commits
      <4>1. Executes(m, s) = WindowOf(h, c)
        BY <1>1, <1>2, <3>3 DEF Executes, h
      <4>2. QED
        BY <1>2, <1>5, <1>6, <1>10, <3>3, <4>1
    <3>4. CASE s = c /\ m # commits
      <4>1. m <= commits <=> m <= commits - 1
        BY <1>2, <3>4 DEF Heights
      <4>2. QED
        BY <1>5, <1>6, <1>10, <3>1, <3>4, <4>1
    <3>5. QED
      BY <3>2, <3>3, <3>4
  <2>7. \A n \in Heights : Executed(n)'
    BY <2>6 DEF Executed, Empty
  <2>8. QED
    BY <1>1, <2>2, <2>3, <2>4, <2>5, <2>7, PipelineParts
<1>13. TimesInv'
  <2>1. SUFFICES ASSUME Divides', NEW s \in Shards, NEW i \in 1..TxNum
                 PROVE  (/\ Due(i, RowsOf(s)) <= Times(s, i)
                         /\ Times(s, i) <= Due(i, RowsOf(s)) + LostOf(s))'
    BY DEF TimesInv
  <2>2. Divides
    BY <1>1, <2>1 DEF Divides
  <2>3. /\ Due(i, RowsOf(s)) <= Times(s, i)
        /\ Times(s, i) <= Due(i, RowsOf(s)) + LostOf(s)
    BY <2>2 DEF IndInv, TimesInv
  <2> DEFINE g == heightOf[commits - 1]
             a == (i - 1) \div validateTxNum
  <2>4. CASE s # c
    <3>1. \A m \in Heights : executed'[m][s] = executed[m][s]
      BY <1>5, <2>4
    <3>2. Times(s, i)' = Times(s, i)
      BY <3>1 DEF Times
    <3>3. RowsOf(s)' = RowsOf(s) /\ LostOf(s)' = LostOf(s)
      BY <1>1, <1>6, <2>4 DEF RowsOf, LostOf
    <3>4. Due(i, RowsOf(s))' = Due(i, RowsOf(s))
      BY <1>1, <3>3 DEF Due, Parts
    <3>5. QED
      BY <2>3, <3>2, <3>3, <3>4
  <2>5. CASE s = c
    <3> DEFINE N == {m \in Heights : i \in executed[m][c].internal}
               M == {m \in Heights : i \in executed'[m][c].internal}
    <3>1. Times(s, i) = Cardinality(N) /\ Times(s, i)' = Cardinality(M)
      BY <2>5 DEF Times
    <3>2. IsFiniteSet(N)
      <4>1. IsFiniteSet(Heights)
        BY Numbers, FS_Interval DEF Heights
      <4>2. QED
        BY <4>1, FS_Subset
    <3>3. commits \notin N
      <4>1. executed[commits][c] = Empty
        <5>1. Executed(commits) /\ ~(commits <= PackedOf(c))
          BY <1>2, <1>6, <2>2, PipelineParts DEF IndInv
        <5>2. QED
          BY <1>2, <5>1 DEF Executed
      <4>2. QED
        BY <4>1 DEF Empty
    <3>4. M = IF i \in w THEN N \cup {commits} ELSE N
      BY <1>2, <1>4, <1>5, <3>3
    <3>5. Cardinality(N) \in Nat
          /\ Cardinality(M) = Cardinality(N) + (IF i \in w THEN 1 ELSE 0)
      <4> HIDE DEF N, M
      <4>1. Cardinality(N) \in Nat
        BY <3>2, FS_CardinalityType
      <4>2. CASE i \in w
        <5>1. Cardinality(M) = Cardinality(N) + 1
          BY <3>2, <3>3, <3>4, <4>2, FS_AddElement
        <5>2. QED
          BY <4>1, <4>2, <5>1
      <4>3. CASE i \notin w
        BY <3>4, <4>1, <4>3
      <4>4. QED
        BY <4>2, <4>3
    <3>6. /\ commits \in 1..commits /\ g \in Nat /\ height \in {g, g + 1}
      <4>1. commits \in 1..commits /\ commits - 1 \in 0..MaxHeight
        BY <1>1, Numbers
      <4>2. QED
        BY <1>2, <4>1, Rows
    <3>7. /\ RowsOf(s) = g /\ LostOf(s) = commits - 1 - g
          /\ RowsOf(s)' = height /\ LostOf(s)' = commits - height
      BY <1>1, <1>2, <1>6, <2>5 DEF RowsOf, LostOf
    <3>8. Due(i, RowsOf(s))' = Due(i, height)
      BY <1>1, <3>7 DEF Due, Parts
    <3>9. a \in Nat /\ a < Parts
      <4>1. 0 \in Nat
        OBVIOUS
      <4>2. QED
        BY <1>2, <2>2, <4>1, InWindow
    <3>10. Due(i, g) \in Nat /\ Due(i, g + 1) = Due(i, g) + (IF a = g % Parts THEN 1 ELSE 0)
      BY <2>2, <3>6, <3>9, DueNext
    <3> HIDE DEF N, M, a, g
    <3>11. CASE height = g
      <4>1. Due(i, RowsOf(s))' = Due(i, g) /\ LostOf(s)' = commits - g
        BY <3>7, <3>8, <3>11
      <4>2. Due(i, g) <= Cardinality(N) /\ Cardinality(N) <= Due(i, g) + (commits - 1 - g)
        BY <2>3, <3>1, <3>7
      <4>3. Cardinality(M) \in Nat /\ Cardinality(N) <= Cardinality(M)
            /\ Cardinality(M) <= Cardinality(N) + 1
        BY <3>5
      <4>4. Due(i, g) <= Cardinality(M) /\ Cardinality(M) <= Due(i, g) + (commits - g)
        BY <1>2, <3>5, <3>6, <3>10, <4>2, <4>3
      <4>5. QED
        BY <3>1, <4>1, <4>4
    <3>12. CASE height = g + 1
      <4>1. i \in w <=> a = g % Parts
        <5>1. h = g
          BY <3>6, <3>12 DEF h
        <5>2. i \in Window(g, c) <=> a = g % Parts
          BY <1>2, <2>2, <3>6, InWindow DEF a
        <5>3. QED
          BY <5>1, <5>2 DEF w
      <4>2. Due(i, RowsOf(s))' = Due(i, g + 1) /\ LostOf(s)' = commits - 1 - g
        BY <1>2, <3>6, <3>7, <3>8, <3>12
      <4>3. Due(i, g) <= Cardinality(N) /\ Cardinality(N) <= Due(i, g) + (commits - 1 - g)
        BY <2>3, <3>1, <3>7
      <4>4. /\ Due(i, g + 1) <= Cardinality(M)
            /\ Cardinality(M) <= Due(i, g + 1) + (commits - 1 - g)
        <5>1. CASE i \in w
          BY <1>2, <3>5, <3>6, <3>10, <4>1, <4>3, <5>1
        <5>2. CASE i \notin w
          BY <1>2, <3>5, <3>6, <3>10, <4>1, <4>3, <5>2
        <5>3. QED
          BY <5>1, <5>2
      <4>5. QED
        BY <3>1, <4>2, <4>4
    <3>13. QED
      BY <3>6, <3>11, <3>12
  <2>6. QED
    BY <2>4, <2>5
<1>14. QED
  BY <1>7, <1>8, <1>9, <1>11, <1>12, <1>13 DEF IndInv

\* With pools that can be cut a commit panics only if the table is empty, and then it
\* has executed nothing.
LEMMA PackPanicsStep ==
  ASSUME IndInv, PackPanics
  PROVE  IndInv'
<1>1. /\ committer = "packing" /\ ~Sliceable(height - 1, current)
      /\ executed' = [executed EXCEPT ![commits] = Nothing]
      /\ relayed' = [s \in Shards |-> {}]
      /\ panicked' = panicked \cup {height} /\ committer' = "idle" /\ current' = 1
      /\ UNCHANGED <<validateTxNum, stage, starting, pool, batches, height, commits,
                     heightOf, handed, mark, relaying>>
  BY DEF PackPanics
<1>2. /\ height \in Nat /\ commits \in Nat /\ commits >= 1 /\ commits \in Heights
      /\ current \in Shards /\ stage = "serving" /\ 1 \in Shards
      /\ heightOf[commits] = height
  BY <1>1, Numbers, Rows DEF Heights, Shards
<1>3. Divides => height = 0
  <2>1. ASSUME Divides, height # 0
        PROVE  FALSE
    <3>1. height - 1 \in Nat
      BY <1>2, <2>1
    <3>2. QED
      BY <1>1, <1>2, <2>1, <3>1, WindowIsChunk
  <2>2. QED
    BY <2>1
<1>4. /\ Nothing \in [Shards -> Content(Nat)]
      /\ \A s \in Shards : Nothing[s] = Empty
      /\ Empty.internal = {} /\ Empty.cross = {}
  BY DEF Nothing, Content, Empty
<1>5. /\ executed' \in [Heights -> [Shards -> Content(Nat)]]
      /\ \A m \in Heights : executed'[m] = IF m = commits THEN Nothing ELSE executed[m]
  BY <1>1, <1>2, <1>4 DEF IndInv, TypeOK
<1>6. \A m \in Heights, s \in Shards :
        /\ (WindowOf(heightOf[m] - 1, s))' = WindowOf(heightOf[m] - 1, s)
        /\ Executes(m, s)' = Executes(m, s)
  <2>1. \A m \in Heights, s \in Shards :
          (WindowOf(heightOf[m] - 1, s))' = WindowOf(heightOf[m] - 1, s)
    BY <1>1 DEF WindowOf, Window, Start, End
  <2>2. \A m \in Heights, s \in Shards : Executes(m, s)' = Executes(m, s)
    BY <1>1, SameExecutes
  <2>3. QED
    BY <2>1, <2>2
<1>7. ASSUME Divides
      PROVE  /\ \A s \in Shards : Executes(commits, s) = Empty
             /\ \A m \in Heights, s \in Shards : executed'[m][s] = executed[m][s]
  <2>1. \A s \in Shards : pool[Internal][s] = TxNum /\ pool[Cross][s] = TxNum
    BY <1>2, <1>7 DEF IndInv, FillInv, Divides
  <2>2. \A s \in Shards : Sliceable(height - 1, s) <=> Sliceable(height - 1, current)
    BY <1>2, <2>1 DEF Sliceable, Start, End
  <2>3. \A s \in Shards : Executes(commits, s) = Empty
    BY <1>1, <1>2, <2>2 DEF Executes
  <2>4. Executed(commits)
    BY <1>2, <1>7, PipelineParts DEF IndInv
  <2>5. \A s \in Shards : executed[commits][s] = Empty
    BY <2>3, <2>4 DEF Executed
  <2>6. QED
    BY <1>2, <1>4, <1>5, <2>3, <2>5
<1>8. TypeOK'
  <2>1. \A m \in Heights, s \in Shards :
          /\ executed'[m][s].internal \subseteq 1..pool[Internal][s]
          /\ executed'[m][s].cross    \subseteq 1..pool[Cross][s]
    BY <1>4, <1>5 DEF IndInv, TypeOK
  <2>2. panicked' \subseteq 0..height
    BY <1>1, <1>2 DEF IndInv, TypeOK
  <2>3. QED
    BY <1>1, <1>2, <1>5, <2>1, <2>2 DEF IndInv, TypeOK, starting, handed, relaying
<1>9. FillInv' /\ SizeInv' /\ BatchInv'
  BY <1>1, PoolsFrame
<1>10. RelayInv' /\ RelayBatchesAreDisjoint'
  BY <1>1, RelayFrame DEF relaying
<1>11. RowsInv' /\ WindowInv'
  <2>1. validated.shard \in Shards
    BY DEF IndInv, TypeOK
  <2>2. \A m \in Heights, s \in Shards :
          executed[m][s].internal # {} =>
            m <= commits /\ executed[m][s] = WindowOf(heightOf[m] - 1, s)
    BY DEF IndInv, WindowInv
  <2>3. \A m \in Heights, s \in Shards :
          executed'[m][s].internal # {} =>
            m <= commits' /\ executed'[m][s] = (WindowOf(heightOf[m] - 1, s))'
    BY <1>1, <1>4, <1>5, <1>6, <2>2
  <2>4. (validated.internal # {} =>
          LET x == Window(validated.read - 1, validated.shard) IN
          validated.internal = x /\ validated.cross = x)'
    BY <1>1, <2>1 DEF IndInv, WindowInv, Window, Start, End, handed
  <2>5. (validated.answered => validated.read <= validated.height)'
    BY <1>1 DEF IndInv, WindowInv, handed
  <2>6. RowsInv'
    BY <1>1 DEF IndInv, RowsInv
  <2>7. QED
    BY <1>1, <1>2, <2>3, <2>4, <2>5, <2>6 DEF WindowInv
<1>12. PackedOf(current) = commits - 1 /\ \A s \in Shards : PackedOf(s)' = commits
  BY <1>1, <1>2, Numbers DEF PackedOf
<1>13. PipelineInv'
  <2>1. SUFFICES ASSUME Divides'
                 PROVE  PipelineInv'
    BY PipelineParts
  <2>2. Divides /\ Nothing' = Nothing
    BY <1>1, <2>1 DEF Divides, Nothing
  <2>3. panicked \subseteq {0} /\ \A n \in Heights : /\ n <= height => proposals[n] # Nothing
                                                     /\ Proposed(n) /\ Executed(n)
    BY <2>2, PipelineParts DEF IndInv
  <2>4. UNCHANGED proposals
    BY <1>1 DEF handed
  <2>5. \A n \in Heights : Proposed(n)'
    BY <1>1, <2>3, <2>4 DEF Proposed, Nothing, Chunk, InShard, Parts
  <2>6. ASSUME NEW m \in Heights, NEW s \in Shards
        PROVE  executed'[m][s] = IF m <= PackedOf(s)' THEN Executes(m, s)' ELSE Empty
    <3>1. executed'[m][s] = IF m <= PackedOf(s) THEN Executes(m, s) ELSE Empty
      BY <1>7, <2>2, <2>3 DEF Executed
    <3>2. PackedOf(s) \in {commits - 1, commits}
      BY <1>1 DEF PackedOf
    <3>3. CASE m = commits
      BY <1>2, <1>6, <1>7, <1>12, <2>2, <3>1, <3>3
    <3>4. CASE m # commits
      <4>1. m <= PackedOf(s) <=> m <= commits
        BY <1>2, <3>2, <3>4 DEF Heights
      <4>2. QED
        BY <1>6, <1>12, <3>1, <4>1
    <3>5. QED
      BY <3>3, <3>4
  <2>7. \A n \in Heights : Executed(n)'
    BY <2>6 DEF Executed, Empty
  <2>8. panicked' \subseteq {0}
    BY <1>1, <1>3, <2>2, <2>3
  <2>9. QED
    BY <1>1, <2>2, <2>3, <2>4, <2>5, <2>7, <2>8, PipelineParts
<1>14. TimesInv'
  <2>1. SUFFICES ASSUME Divides', NEW s \in Shards, NEW i \in 1..TxNum
                 PROVE  (/\ Due(i, RowsOf(s)) <= Times(s, i)
                         /\ Times(s, i) <= Due(i, RowsOf(s)) + LostOf(s))'
    BY DEF TimesInv
  <2>2. Divides
    BY <1>1, <2>1 DEF Divides
  <2>3. /\ Due(i, RowsOf(s)) <= Times(s, i)
        /\ Times(s, i) <= Due(i, RowsOf(s)) + LostOf(s)
    BY <2>2 DEF IndInv, TimesInv
  <2>4. Times(s, i)' = Times(s, i)
    BY <1>7, <2>2 DEF Times
  <2>5. PackedOf(s) \in {commits - 1, commits}
    BY <1>1 DEF PackedOf
  <2>6. RowsOf(s) = 0 /\ LostOf(s) \in {commits - 1, commits}
    <3>1. PackedOf(s) \in 0..MaxHeight
      BY <1>1, <1>2, <2>5, Numbers DEF Heights
    <3>2. heightOf[PackedOf(s)] \in Nat /\ heightOf[PackedOf(s)] <= 0
      BY <1>3, <2>2, <3>1, Rows
    <3>3. heightOf[PackedOf(s)] = 0
      BY <3>2
    <3>4. QED
      BY <1>2, <2>5, <3>3 DEF RowsOf, LostOf
  <2>7. RowsOf(s)' = 0 /\ LostOf(s)' = commits
    BY <1>1, <1>2, <1>3, <1>12, <2>2 DEF RowsOf, LostOf
  <2>8. Due(i, RowsOf(s))' = Due(i, RowsOf(s))
    BY <1>1, <2>6, <2>7 DEF Due, Parts
  <2>9. Due(i, RowsOf(s)) \in Int
    <3>1. (i - 1) \div validateTxNum \in Nat /\ (i - 1) \div validateTxNum < Parts
      <4>1. 0 \in Nat
        OBVIOUS
      <4>2. QED
        BY <1>2, <2>2, <4>1, InWindow
    <3>2. Due(i, 0) \in Nat
      <4>1. 0 \in Nat
        OBVIOUS
      <4>2. QED
        BY <2>2, <3>1, <4>1, DueNext
    <3>3. QED
      BY <2>6, <3>2
  <2> DEFINE d == Due(i, RowsOf(s))
             t == Times(s, i)
  <2>10. d \in Int /\ d <= t /\ t <= d + LostOf(s)
    BY <2>3, <2>9
  <2>11. d + LostOf(s) <= d + commits
    BY <1>2, <2>6, <2>9
  <2>12. t \in Int
    <3>1. IsFiniteSet(Heights)
      BY Numbers, FS_Interval DEF Heights
    <3>2. IsFiniteSet({m \in Heights : i \in executed[m][s].internal})
      BY <3>1, FS_Subset
    <3>3. QED
      BY <3>2, FS_CardinalityType DEF Times
  <2>13. d <= t /\ t <= d + commits
    <3> HIDE DEF d, t
    <3>1. QED
      BY <1>2, <2>6, <2>10, <2>11, <2>12
  <2>14. QED
    BY <2>4, <2>7, <2>8, <2>13
<1>15. QED
  BY <1>8, <1>9, <1>10, <1>11, <1>13, <1>14 DEF IndInv

-----------------------------------------------------------------------------
(* initializeTransactions.                                                 *)

\* Before the server has started nothing is executed.
LEMMA GenerateFrame ==
  ASSUME IndInv, stage = "starting",
         UNCHANGED <<validateTxNum, handed, commit, relaying>>
  PROVE  RowsInv' /\ WindowInv' /\ PipelineInv' /\ TimesInv'
<1>1. /\ height = 0 /\ commits = 0 /\ committer = "idle"
      /\ \A m \in Heights, s \in Shards : executed[m][s].internal = {}
      /\ validated.internal = {}
      /\ UNCHANGED <<height, commits, heightOf, committer, current, executed, panicked,
                     proposals, validated>>
  BY DEF IndInv, WindowInv, Heights, handed, commit
<1>2. \A n \in Heights : ~(n <= height) /\ ~(n <= commits)
  BY <1>1 DEF Heights
<1>3. \A s \in Shards : PackedOf(s) = commits /\ PackedOf(s)' = commits
  BY <1>1 DEF PackedOf
<1>4. RowsInv' /\ WindowInv'
  <2>1. RowsInv'
    BY <1>1 DEF IndInv, RowsInv
  <2>2. QED
    BY <1>1, <2>1 DEF IndInv, WindowInv
<1>5. TimesInv'
  BY <1>1 DEF IndInv, TimesInv, Divides, Times, Due, Parts, RowsOf, LostOf, PackedOf
<1>6. PipelineInv'
  <2>1. SUFFICES ASSUME Divides'
                 PROVE  PipelineInv'
    BY PipelineParts
  <2>2. Divides /\ Nothing' = Nothing
    BY <2>1 DEF Divides, Nothing
  <2>3. panicked \subseteq {0} /\ \A n \in Heights : Proposed(n) /\ Executed(n)
    BY <2>2, PipelineParts DEF IndInv
  <2>4. \A n \in Heights : Proposed(n)'
    BY <1>1, <2>3 DEF Proposed, Nothing, Chunk, InShard, Parts
  <2>5. \A n \in Heights : Executed(n)'
    BY <1>1, <1>2, <1>3, <2>3 DEF Executed, Empty
  <2>6. QED
    BY <1>1, <1>2, <2>3, <2>4, <2>5, PipelineParts
<1>7. QED
  BY <1>4, <1>5, <1>6

\* What one iteration makes: the transaction, and a batch if it is the last of one.
LEMMA Iteration ==
  ASSUME IndInv, Generate,
         NEW list, list = translist \cup {<<shard, pool[kind][shard] + 1>>}
  PROVE  /\ stage = "starting" /\ kind \in {Internal, Cross} /\ shard \in Shards
         /\ UNCHANGED <<validateTxNum, handed, commit, relaying>>
         /\ pool[kind][shard] \in Nat /\ pool[kind][shard] < TxNum
         /\ pool' \in [Kinds -> [Shards -> Nat]]
         /\ \A k \in Kinds, s \in Shards :
              pool'[k][s] = IF k = kind /\ s = shard THEN pool[kind][shard] + 1 ELSE pool[k][s]
         /\ list \in SUBSET Txs
         /\ IsFiniteSet(list)
         /\ Made(kind, shard) \in Nat
         /\ Cardinality(list) = (Made(kind, shard) % validateTxNum) + 1
         /\ IsBatch(list) <=> Made(kind, shard) % validateTxNum = validateTxNum - 1
         /\ batches' \in [Kinds -> [Shards -> Seq(SUBSET Txs)]]
         /\ \A k \in Kinds, s \in Shards :
              batches'[k][s] = IF k = kind /\ s = shard /\ IsBatch(list)
                               THEN Append(batches[kind][shard], list) ELSE batches[k][s]
         /\ \A t \in list :
              t[1] < shard \/ (t[1] = shard /\ t[2] <= pool[kind][shard] + 1)
<1> DEFINE p == pool[kind][shard]
           b == batches[kind][shard]
<1>1. /\ stage = "starting"
      /\ pool' = [pool EXCEPT ![kind][shard] = p + 1]
      /\ batches' = IF IsBatch(list) THEN [batches EXCEPT ![kind][shard] = Append(b, list)]
                    ELSE batches
      /\ UNCHANGED <<validateTxNum, handed, commit, relaying>>
  BY DEF Generate
<1>2. /\ kind \in {Internal, Cross} /\ shard \in Shards /\ translist \subseteq Txs
      /\ p < TxNum
  BY <1>1 DEF IndInv, TypeOK, FillInv
<1>3. kind \in Kinds /\ p \in Nat /\ b \in Seq(SUBSET Txs)
  BY <1>2, KindsDiffer, PoolTypes
<1>4. p + 1 \in Nat
  BY <1>3
<1> HIDE DEF p, b
<1>5. /\ pool' \in [Kinds -> [Shards -> Nat]]
      /\ \A k \in Kinds, s \in Shards :
           pool'[k][s] = IF k = kind /\ s = shard THEN p + 1 ELSE pool[k][s]
  BY <1>1, <1>2, <1>3, <1>4, PoolTypes, UpdateAt
<1>6. list \in SUBSET Txs
  BY <1>2, <1>3 DEF Txs, p
<1>7. Append(b, list) \in Seq(SUBSET Txs)
  BY <1>3, <1>6
<1>8. /\ batches' \in [Kinds -> [Shards -> Seq(SUBSET Txs)]]
      /\ \A k \in Kinds, s \in Shards :
           batches'[k][s] = IF k = kind /\ s = shard /\ IsBatch(list)
                            THEN Append(b, list) ELSE batches[k][s]
  <2>1. CASE IsBatch(list)
    <3>1. batches' = [batches EXCEPT ![kind][shard] = Append(b, list)]
      BY <1>1, <2>1
    <3>2. /\ batches' \in [Kinds -> [Shards -> Seq(SUBSET Txs)]]
          /\ \A k \in Kinds, s \in Shards :
               batches'[k][s] = IF k = kind /\ s = shard THEN Append(b, list) ELSE batches[k][s]
      BY <1>2, <1>3, <1>7, <3>1, PoolTypes, UpdateAt
    <3>3. QED
      BY <2>1, <3>2
  <2>2. CASE ~IsBatch(list)
    BY <1>1, <2>2, PoolTypes
  <2>3. QED
    BY <2>1, <2>2
<1>9. /\ IsFiniteSet(translist)
      /\ Cardinality(translist) = Made(kind, shard) % validateTxNum
      /\ \A t \in translist : t[1] < shard \/ (t[1] = shard /\ t[2] <= p)
  BY <1>1 DEF IndInv, SizeInv, p
<1>10. <<shard, p + 1>> \notin translist
  <2>1. shard \in {1, 2}
    BY <1>2, Numbers
  <2>2. SUFFICES ASSUME <<shard, p + 1>> \in translist PROVE FALSE
    OBVIOUS
  <2>3. shard < shard \/ p + 1 <= p
    BY <1>9, <2>2
  <2>4. QED
    BY <1>3, <2>1, <2>3
<1>11. IsFiniteSet(list) /\ Cardinality(list) = Cardinality(translist) + 1
  BY <1>9, <1>10, FS_AddElement DEF p
<1>12. Made(kind, shard) \in Nat
  <2>1. shard \in {1, 2} /\ TxNum \in Nat
    BY <1>2, Numbers
  <2>2. Ahead(shard) \in Nat
    BY <2>1 DEF Ahead
  <2>3. QED
    BY <1>3, <2>2 DEF Made, p
<1>13. Made(kind, shard) % validateTxNum \in 0..(validateTxNum - 1)
  BY <1>12, Numbers, DivMod
<1>14. /\ Cardinality(list) = (Made(kind, shard) % validateTxNum) + 1
       /\ IsBatch(list) <=> Made(kind, shard) % validateTxNum = validateTxNum - 1
  BY <1>9, <1>11, <1>13, Numbers DEF IsBatch
<1>15. \A t \in list : t[1] < shard \/ (t[1] = shard /\ t[2] <= p + 1)
  <2>1. ASSUME NEW t \in list
        PROVE  t[1] < shard \/ (t[1] = shard /\ t[2] <= p + 1)
    <3>1. CASE t = <<shard, p + 1>>
      <4>1. t[1] = shard /\ t[2] = p + 1
        BY <3>1
      <4>2. QED
        BY <1>3, <4>1
    <3>2. CASE t # <<shard, p + 1>>
      <4>1. t \in translist /\ t[2] \in Nat
        BY <1>2, <3>2 DEF Txs, p
      <4>2. QED
        BY <1>3, <1>9, <4>1
    <3>3. QED
      BY <3>1, <3>2
  <2>2. QED
    BY <2>1
<1>16. QED
  BY <1>1, <1>2, <1>3, <1>5, <1>6, <1>8, <1>11, <1>12, <1>14, <1>15 DEF p, b

\* Where the loops go from there.
LEMMA Loops ==
  ASSUME IndInv, Generate,
         NEW list, list = translist \cup {<<shard, pool[kind][shard] + 1>>},
         NEW rest, rest = IF IsBatch(list) THEN {} ELSE list
  PROVE  \/ /\ pool[kind][shard] + 1 < TxNum /\ translist' = rest
            /\ kind' = kind /\ shard' = shard /\ stage' = "starting"
         \/ /\ pool[kind][shard] + 1 = TxNum /\ shard < ShardNum /\ translist' = rest
            /\ kind' = kind /\ shard' = shard + 1 /\ stage' = "starting"
         \/ /\ pool[kind][shard] + 1 = TxNum /\ shard = ShardNum /\ kind = Internal
            /\ ShardNum = 2 /\ translist' = {}
            /\ kind' = Cross /\ shard' = 1 /\ stage' = "starting"
         \/ /\ pool[kind][shard] + 1 = TxNum /\ shard = ShardNum
            /\ kind = Cross \/ ShardNum = 1
            /\ translist' = {} /\ stage' = "serving" /\ kind' = kind /\ shard' = shard
<1>1. /\ kind \in Kinds /\ shard \in Shards
      /\ pool[kind][shard] \in Nat /\ pool[kind][shard] < TxNum
      /\ pool'[kind][shard] = pool[kind][shard] + 1
      /\ stage = "starting"
  <2>1. kind \in {Internal, Cross} /\ shard \in Shards
    BY DEF IndInv, TypeOK
  <2>2. QED
    BY <2>1, KindsDiffer, Iteration
<1>2. pool'[kind][shard] = TxNum \/ pool[kind][shard] + 1 < TxNum
  BY <1>1, Numbers
<1>3. ShardNum > 1 => ShardNum = 2
  BY Numbers
<1>4. QED
  BY <1>1, <1>2, <1>3, Zenon DEF Generate

LEMMA GenerateTypes ==
  ASSUME IndInv, Generate
  PROVE  /\ TypeOK' /\ RelayInv' /\ RelayBatchesAreDisjoint' /\ RowsInv'
         /\ WindowInv' /\ PipelineInv' /\ TimesInv'
<1> DEFINE p    == pool[kind][shard]
           list == translist \cup {<<shard, p + 1>>}
           rest == IF IsBatch(list) THEN {} ELSE list
<1>1. /\ stage = "starting" /\ kind \in {Internal, Cross} /\ shard \in Shards
      /\ UNCHANGED <<validateTxNum, handed, commit, relaying>>
      /\ p \in Nat
      /\ pool' \in [Kinds -> [Shards -> Nat]]
      /\ \A k \in Kinds, s \in Shards :
           pool'[k][s] = IF k = kind /\ s = shard THEN p + 1 ELSE pool[k][s]
      /\ list \in SUBSET Txs
      /\ batches' \in [Kinds -> [Shards -> Seq(SUBSET Txs)]]
      /\ \A k \in Kinds, s \in Shards : k # kind => batches'[k][s] = batches[k][s]
  BY Iteration
<1>2. rest \in SUBSET Txs
  BY <1>1
<1>3. /\ translist' \subseteq Txs /\ kind' \in {Internal, Cross} /\ shard' \in Shards
      /\ stage' \in {"starting", "serving"}
  <2>1. /\ translist' = rest \/ translist' = {}
        /\ kind' \in {kind, Cross} /\ stage' \in {"starting", "serving"}
        /\ shard' \in {shard, 1} \/ (shard < ShardNum /\ shard' = shard + 1)
    BY Loops
  <2>2. ShardNum \in {1, 2} /\ 1 \in Shards
    BY Numbers DEF Shards
  <2>3. shard' \in Shards
    BY <1>1, <2>1, <2>2 DEF Shards
  <2>4. QED
    BY <1>1, <1>2, <2>1, <2>3
<1> HIDE DEF list, rest
<1>4. \A k \in Kinds, s \in Shards : pool[k][s] \in Nat /\ 1..pool[k][s] \subseteq 1..pool'[k][s]
  <2>1. ASSUME NEW k \in Kinds, NEW s \in Shards
        PROVE  pool[k][s] \in Nat /\ 1..pool[k][s] \subseteq 1..pool'[k][s]
    <3>1. pool[k][s] \in Nat
      BY PoolTypes
    <3>2. pool'[k][s] = pool[k][s] \/ pool'[k][s] = pool[k][s] + 1
      BY <1>1
    <3>3. QED
      BY <3>1, <3>2
  <2>2. QED
    BY <2>1
<1>5. TypeOK'
  <2>1. /\ UNCHANGED <<validateTxNum, height, commits, heightOf, committer, current, executed,
                       relayed, panicked, mark, proposals, validated, upload, index, toWrite, relayList>>
        /\ TypeOK
    BY <1>1 DEF IndInv, handed, commit, relaying
  <2>2. \A n \in Heights, s \in Shards :
          /\ executed[n][s].internal \subseteq 1..pool[Internal][s]
          /\ executed[n][s].cross    \subseteq 1..pool[Cross][s]
    BY <2>1 DEF TypeOK
  <2>3. \A n \in Heights, s \in Shards :
          /\ executed'[n][s].internal \subseteq 1..pool'[Internal][s]
          /\ executed'[n][s].cross    \subseteq 1..pool'[Cross][s]
    <3>1. \A s \in Shards : /\ 1..pool[Internal][s] \subseteq 1..pool'[Internal][s]
                            /\ 1..pool[Cross][s] \subseteq 1..pool'[Cross][s]
      BY <1>4, KindsDiffer
    <3>2. executed' = executed
      BY <2>1
    <3>3. QED
      BY <2>2, <3>1, <3>2
  <2>4. \A s \in Shards : relayed'[s] \subseteq 1..pool'[Relay][s]
    <3>1. \A s \in Shards : relayed[s] \subseteq 1..pool[Relay][s]
      BY <2>1 DEF TypeOK
    <3>2. \A s \in Shards : pool'[Relay][s] = pool[Relay][s]
      BY <1>1, KindsDiffer
    <3>3. QED
      BY <2>1, <3>1, <3>2
  <2>5. QED
    BY <1>1, <1>3, <2>1, <2>3, <2>4 DEF TypeOK
<1>6. RelayInv' /\ RelayBatchesAreDisjoint'
  <2>1. \A s \in Shards :
          pool'[Relay][s] = pool[Relay][s] /\ batches'[Relay][s] = batches[Relay][s]
    BY <1>1, KindsDiffer
  <2>2. QED
    BY <1>1, <2>1, RelayFrame DEF relaying
<1>7. RowsInv' /\ WindowInv' /\ PipelineInv' /\ TimesInv'
  BY <1>1, GenerateFrame
<1>8. QED
  BY <1>5, <1>6, <1>7

LEMMA GenerateFills ==
  ASSUME IndInv, Generate
  PROVE  FillInv'
<1> DEFINE p    == pool[kind][shard]
           list == translist \cup {<<shard, p + 1>>}
           rest == IF IsBatch(list) THEN {} ELSE list
<1>1. /\ stage = "starting" /\ kind \in {Internal, Cross} /\ shard \in Shards
      /\ p \in Nat /\ p < TxNum
      /\ \A k \in Kinds, s \in Shards :
           pool'[k][s] = IF k = kind /\ s = shard THEN p + 1 ELSE pool[k][s]
  BY Iteration
<1>2. \/ /\ p + 1 < TxNum /\ kind' = kind /\ shard' = shard /\ stage' = "starting"
      \/ /\ p + 1 = TxNum /\ shard < ShardNum
         /\ kind' = kind /\ shard' = shard + 1 /\ stage' = "starting"
      \/ /\ p + 1 = TxNum /\ shard = ShardNum /\ kind = Internal /\ ShardNum = 2
         /\ kind' = Cross /\ shard' = 1 /\ stage' = "starting"
      \/ /\ p + 1 = TxNum /\ shard = ShardNum /\ (kind = Cross \/ ShardNum = 1)
         /\ stage' = "serving"
  BY Loops
<1> HIDE DEF p, list, rest
<1>3. /\ kind = Cross => ShardNum = 2
      /\ \A k \in {Internal, Cross}, s \in Shards :
           /\ Before(k, s) => pool[k][s] = TxNum
           /\ After(k, s)  => pool[k][s] = 0
  BY <1>1 DEF IndInv, FillInv
<1>4. \A k \in {Internal, Cross}, s \in Shards :
        pool'[k][s] = IF k = kind /\ s = shard THEN p + 1 ELSE pool[k][s]
  BY <1>1, KindsDiffer
<1>5. /\ Shards = 1..ShardNum /\ ShardNum \in {1, 2} /\ TxNum \in Nat \ {0}
      /\ Shards \subseteq {1, 2}
  BY Numbers DEF Shards
<1>6. CASE p + 1 < TxNum /\ kind' = kind /\ shard' = shard /\ stage' = "starting"
  BY <1>1, <1>3, <1>4, <1>6 DEF FillInv, Before, After
<1>7. CASE /\ p + 1 = TxNum /\ shard < ShardNum
           /\ kind' = kind /\ shard' = shard + 1 /\ stage' = "starting"
  <2>1. shard = 1 /\ shard' = 2 /\ ShardNum = 2 /\ Shards = {1, 2}
    BY <1>1, <1>5, <1>7
  <2>2. After(kind, 2) /\ pool[kind][2] = 0 /\ pool'[kind][2] = 0 /\ pool'[kind][1] = TxNum
    BY <1>1, <1>3, <1>4, <1>7, <2>1 DEF After
  <2>3. \A k \in {Internal, Cross}, s \in Shards :
          /\ Before(k, s)' => pool'[k][s] = TxNum
          /\ After(k, s)'  => pool'[k][s] = 0
    BY <1>1, <1>3, <1>4, <1>7, <2>1, <2>2 DEF Before, After, Internal, Cross
  <2>4. QED
    BY <1>3, <1>5, <1>7, <2>1, <2>2, <2>3 DEF FillInv
<1>8. CASE /\ p + 1 = TxNum /\ shard = ShardNum /\ kind = Internal /\ ShardNum = 2
           /\ kind' = Cross /\ shard' = 1 /\ stage' = "starting"
  <2>1. Shards = {1, 2}
    BY <1>5, <1>8
  <2>2. \A s \in Shards : pool[Cross][s] = 0 /\ pool'[Cross][s] = 0
    BY <1>3, <1>4, <1>8 DEF After, Internal, Cross
  <2>3. \A s \in Shards : pool'[Internal][s] = TxNum
    BY <1>3, <1>4, <1>8, <2>1 DEF Before, Internal
  <2>4. \A k \in {Internal, Cross}, s \in Shards :
          /\ Before(k, s)' => pool'[k][s] = TxNum
          /\ After(k, s)'  => pool'[k][s] = 0
    BY <1>8, <2>1, <2>2, <2>3 DEF Before, After, Internal, Cross
  <2>5. QED
    BY <1>5, <1>8, <2>1, <2>2, <2>4 DEF FillInv
<1>9. CASE /\ p + 1 = TxNum /\ shard = ShardNum /\ (kind = Cross \/ ShardNum = 1)
           /\ stage' = "serving"
  <2>1. CASE kind = Cross
    <3>1. \A s \in Shards : pool'[Internal][s] = TxNum
      BY <1>3, <1>4, <2>1 DEF Before, Internal, Cross
    <3>2. \A s \in Shards : pool'[Cross][s] = TxNum
      BY <1>3, <1>4, <1>5, <1>9, <2>1 DEF Before, Cross
    <3>3. QED
      BY <1>3, <1>9, <2>1, <3>1, <3>2 DEF FillInv
  <2>2. CASE kind # Cross
    <3>1. kind = Internal /\ ShardNum = 1 /\ Shards = {1} /\ shard = 1
      BY <1>1, <1>5, <1>9, <2>2
    <3>2. pool'[Internal][1] = TxNum
      BY <1>4, <1>9, <3>1
    <3>3. pool'[Cross][1] = 0
      BY <1>3, <1>4, <3>1 DEF After, Internal, Cross
    <3>4. QED
      BY <1>9, <3>1, <3>2, <3>3 DEF FillInv
  <2>3. QED
    BY <2>1, <2>2
<1>10. QED
  BY <1>2, <1>6, <1>7, <1>8, <1>9

LEMMA GenerateSizes ==
  ASSUME IndInv, Generate
  PROVE  SizeInv'
<1> DEFINE p    == pool[kind][shard]
           b    == batches[kind][shard]
           list == translist \cup {<<shard, p + 1>>}
           rest == IF IsBatch(list) THEN {} ELSE list
           v    == validateTxNum
           m    == Made(kind, shard)
<1>1. /\ stage = "starting" /\ kind \in {Internal, Cross} /\ shard \in Shards
      /\ validateTxNum' = validateTxNum
      /\ p \in Nat /\ p < TxNum
      /\ \A k \in Kinds, s \in Shards :
           pool'[k][s] = IF k = kind /\ s = shard THEN p + 1 ELSE pool[k][s]
      /\ list \in SUBSET Txs /\ IsFiniteSet(list) /\ m \in Nat
      /\ Cardinality(list) = (m % v) + 1
      /\ IsBatch(list) <=> m % v = v - 1
      /\ \A k \in Kinds, s \in Shards :
           batches'[k][s] = IF k = kind /\ s = shard /\ IsBatch(list)
                            THEN Append(b, list) ELSE batches[k][s]
      /\ \A t \in list : t[1] < shard \/ (t[1] = shard /\ t[2] <= p + 1)
  BY Iteration
<1>2. \/ /\ p + 1 < TxNum /\ translist' = rest /\ kind' = kind /\ shard' = shard
         /\ stage' = "starting"
      \/ /\ p + 1 = TxNum /\ shard < ShardNum /\ translist' = rest
         /\ kind' = kind /\ shard' = shard + 1 /\ stage' = "starting"
      \/ /\ p + 1 = TxNum /\ kind = Internal /\ translist' = {}
         /\ kind' = Cross /\ shard' = 1 /\ stage' = "starting" /\ ShardNum = 2
      \/ stage' = "serving"
  BY Loops
<1>3. v \in Nat \ {0} /\ TxNum \in Nat /\ Shards \subseteq {1, 2} /\ ShardNum \in {1, 2}
  BY Numbers
<1>4. b \in Seq(SUBSET Txs) /\ kind \in Kinds
  BY <1>1, KindsDiffer, PoolTypes
<1>5. /\ (m + 1) % v = IF m % v = v - 1 THEN 0 ELSE (m % v) + 1
      /\ (m + 1) \div v = IF m % v = v - 1 THEN (m \div v) + 1 ELSE m \div v
      /\ m \div v \in Nat
  BY <1>1, <1>3, NextDivMod, DivMod
<1>6. rest = {} \/ rest = list
  OBVIOUS
<1>7. IsFiniteSet(rest) /\ Cardinality(rest) = (m + 1) % v
  <2>1. IsFiniteSet({}) /\ Cardinality({}) = 0
    BY FS_EmptySet
  <2>2. CASE IsBatch(list)
    BY <1>1, <1>5, <2>1, <2>2
  <2>3. CASE ~IsBatch(list)
    BY <1>1, <1>5, <2>3
  <2>4. QED
    BY <2>2, <2>3
<1>8. m = Ahead(shard) + p /\ Ahead(shard) \in Nat
  BY <1>1, <1>3 DEF Made, Ahead
<1> HIDE DEF p, b, list, rest, v, m
<1>9. ASSUME NEW k \in {Internal, Cross}, NEW s \in Shards
      PROVE  Len(batches'[k][s]) =
               ((Ahead(s) + pool'[k][s]) \div v) - (Ahead(s) \div v)
  <2>1. Len(batches[k][s]) = ((Ahead(s) + pool[k][s]) \div v) - (Ahead(s) \div v)
    BY DEF IndInv, SizeInv, Made, v
  <2>2. k \in Kinds
    BY KindsDiffer
  <2>3. CASE ~(k = kind /\ s = shard)
    BY <1>1, <2>1, <2>2, <2>3
  <2>4. CASE k = kind /\ s = shard
    <3>1. pool'[k][s] = p + 1 /\ Ahead(shard) + (p + 1) = m + 1
      BY <1>1, <1>8, <2>2, <2>4
    <3>2. Len(b) = (m \div v) - (Ahead(shard) \div v)
      BY <1>8, <2>1, <2>4 DEF b, p
    <3>3. Ahead(shard) \div v \in Nat
      BY <1>3, <1>8, DivMod
    <3>4. CASE IsBatch(list)
      <4>1. batches'[k][s] = Append(b, list) /\ Len(Append(b, list)) = Len(b) + 1
        <5>1. batches'[k][s] = Append(b, list)
          BY <1>1, <2>2, <2>4, <3>4
        <5>2. QED
          BY <1>1, <1>4, <5>1
      <4>2. (m + 1) \div v = (m \div v) + 1
        BY <1>1, <1>5, <3>4
      <4>3. QED
        BY <1>5, <2>4, <3>1, <3>2, <3>3, <4>1, <4>2
    <3>5. CASE ~IsBatch(list)
      <4>1. batches'[k][s] = b
        BY <1>1, <2>2, <2>4, <3>5 DEF b
      <4>2. (m + 1) \div v = m \div v
        BY <1>1, <1>5, <3>5
      <4>3. QED
        BY <2>4, <3>1, <3>2, <4>1, <4>2
    <3>6. QED
      BY <3>4, <3>5
  <2>5. QED
    BY <2>3, <2>4
<1>10. ASSUME stage' = "starting"
       PROVE  /\ IsFiniteSet(translist')
              /\ Cardinality(translist') = (Ahead(shard') + pool'[kind'][shard']) % v
              /\ \A t \in translist' :
                   t[1] < shard' \/ (t[1] = shard' /\ t[2] <= pool'[kind'][shard'])
  <2>1. \A k \in {Internal, Cross}, s \in Shards : After(k, s) => pool[k][s] = 0
    BY <1>1 DEF IndInv, FillInv
  <2>2. CASE /\ p + 1 < TxNum /\ translist' = rest /\ kind' = kind /\ shard' = shard
    <3>1. pool'[kind'][shard'] = p + 1 /\ Ahead(shard') + (p + 1) = m + 1
      BY <1>1, <1>4, <1>8, <2>2
    <3>2. QED
      BY <1>1, <1>6, <1>7, <2>2, <3>1
  <2>3. CASE /\ p + 1 = TxNum /\ shard < ShardNum /\ translist' = rest
             /\ kind' = kind /\ shard' = shard + 1
    <3>1. shard = 1 /\ shard' = 2 /\ 2 \in Shards
      BY <1>1, <1>3, <2>3 DEF Shards
    <3>2. pool[kind][2] = 0
      BY <1>1, <2>1, <3>1 DEF After
    <3>3. pool'[kind'][shard'] = 0
      BY <1>1, <1>4, <2>3, <3>1, <3>2
    <3>4. Ahead(shard') = m + 1
      BY <1>1, <1>3, <1>8, <2>3, <3>1 DEF Ahead
    <3>5. \A t \in list : t[1] < shard'
      <4>1. \A t \in list : t[1] \in Shards
        BY <1>1 DEF Txs
      <4>2. \A t \in list : t[1] \in Int /\ (t[1] < 1 \/ t[1] = 1)
        BY <1>1, <3>1, <4>1 DEF Shards
      <4>3. QED
        BY <3>1, <4>2
    <3>6. Ahead(shard') + pool'[kind'][shard'] = m + 1
      BY <1>1, <3>3, <3>4
    <3>7. QED
      BY <1>6, <1>7, <2>3, <3>5, <3>6
  <2>4. CASE /\ kind = Internal /\ translist' = {} /\ kind' = Cross /\ shard' = 1
             /\ ShardNum = 2
    <3>1. 1 \in Shards /\ Cross \in Kinds /\ Cross # kind
      BY <2>4, KindsDiffer DEF Shards
    <3>2. pool'[Cross][1] = 0
      BY <1>1, <2>1, <2>4, <3>1 DEF After, Internal, Cross
    <3>3. Ahead(1) + 0 = 0
      BY <1>3 DEF Ahead
    <3>4. 0 = 0 * v + 0 /\ 0 \in 0..(v - 1)
      BY <1>3
    <3>5. 0 % v = 0
      BY <1>3, <3>4, IsDivMod
    <3>6. IsFiniteSet({}) /\ Cardinality({}) = 0
      BY FS_EmptySet
    <3>7. QED
      BY <2>4, <3>2, <3>3, <3>5, <3>6
  <2>5. QED
    BY <1>2, <1>10, <2>2, <2>3, <2>4
<1>11. QED
  BY <1>1, <1>9, <1>10 DEF SizeInv, Made, Ahead, v

\* A batch is stored when the pool has reached its last transaction.
LEMMA GenerateBatches ==
  ASSUME IndInv, Generate
  PROVE  BatchInv'
<1> SUFFICES ASSUME Divides'
             PROVE  BatchInv'
  BY DEF BatchInv
<1> DEFINE p    == pool[kind][shard]
           b    == batches[kind][shard]
           list == translist \cup {<<shard, p + 1>>}
           rest == IF IsBatch(list) THEN {} ELSE list
           v    == validateTxNum
           q    == Parts
           n    == p \div v
           r    == p % v
<1>1. /\ stage = "starting" /\ kind \in {Internal, Cross} /\ shard \in Shards
      /\ validateTxNum' = validateTxNum
      /\ p \in Nat /\ p < TxNum
      /\ \A k \in Kinds, s \in Shards :
           pool'[k][s] = IF k = kind /\ s = shard THEN p + 1 ELSE pool[k][s]
      /\ list \in SUBSET Txs
      /\ IsBatch(list) <=> Made(kind, shard) % v = v - 1
      /\ \A k \in Kinds, s \in Shards :
           batches'[k][s] = IF k = kind /\ s = shard /\ IsBatch(list)
                            THEN Append(b, list) ELSE batches[k][s]
  BY Iteration
<1>2. \/ /\ translist' = rest /\ kind' = kind /\ shard' = shard /\ stage' = "starting"
      \/ /\ p + 1 = TxNum /\ shard < ShardNum /\ translist' = rest
         /\ kind' = kind /\ shard' = shard + 1 /\ stage' = "starting"
      \/ /\ kind = Internal /\ translist' = {}
         /\ kind' = Cross /\ shard' = 1 /\ stage' = "starting" /\ ShardNum = 2
      \/ stage' = "serving"
  BY Loops
<1>3. Divides
  BY <1>1 DEF Divides
<1>4. /\ v \in Nat \ {0} /\ q \in Nat \ {0} /\ TxNum = q * v
      /\ ShardNum = 2 /\ Shards = {1, 2}
  BY <1>3, Numbers, CutInParts DEF Shards
<1>5. b \in Seq(SUBSET Txs) /\ kind \in Kinds
  BY <1>1, KindsDiffer, PoolTypes
<1>6. Len(b) = n /\ Made(kind, shard) % v = r
  BY <1>1, <1>3, SizeWhenCut
<1>7. n \in Nat /\ r \in 0..(v - 1) /\ p = n * v + r
  BY <1>1, <1>4, DivMod
<1>8. /\ translist = InShard(shard, (Len(b) * v + 1)..p)
      /\ \A k \in {Internal, Cross}, s \in Shards : \A i \in 1..Len(batches[k][s]) :
           batches[k][s][i] = Chunk(s, i)
  BY <1>1, <1>3 DEF IndInv, BatchInv
<1> HIDE DEF p, b, list, rest, v, q, n, r
<1>9. n * v \in Nat /\ (n + 1) * v = n * v + v
  BY <1>4, <1>7
<1>10. list = InShard(shard, (n * v + 1)..(p + 1))
  <2>1. list = translist \cup {<<shard, p + 1>>}
    BY DEF list
  <2>2. (n * v + 1)..(p + 1) = ((n * v + 1)..p) \cup {p + 1}
    BY <1>1, <1>7, <1>9
  <2>3. QED
    BY <1>6, <1>8, <2>1, <2>2 DEF InShard
<1>11. IsBatch(list) => p + 1 = (n + 1) * v /\ list = Chunk(shard, n + 1)
  <2>1. SUFFICES ASSUME IsBatch(list)
                 PROVE  p + 1 = (n + 1) * v /\ list = Chunk(shard, n + 1)
    OBVIOUS
  <2>2. r = v - 1
    BY <1>1, <1>6, <2>1
  <2>3. p + 1 = (n + 1) * v
    <3>1. p + 1 = n * v + v
      BY <1>1, <1>4, <1>7, <1>9, <2>2
    <3>2. QED
      BY <1>9, <3>1
  <2>4. ((n + 1) - 1) * v = n * v
    BY <1>7
  <2>5. QED
    BY <1>10, <2>3, <2>4 DEF Chunk, v
<1>12. \A k \in {Internal, Cross}, s \in Shards : \A i \in 1..Len(batches'[k][s]) :
         batches'[k][s][i] = Chunk(s, i)
  <2>1. SUFFICES ASSUME NEW k \in {Internal, Cross}, NEW s \in Shards,
                        NEW i \in 1..Len(batches'[k][s])
                 PROVE  batches'[k][s][i] = Chunk(s, i)
    OBVIOUS
  <2>2. k \in Kinds
    BY KindsDiffer
  <2>3. CASE ~(k = kind /\ s = shard /\ IsBatch(list))
    <3>1. batches'[k][s] = batches[k][s]
      BY <1>1, <2>2, <2>3
    <3>2. QED
      BY <1>8, <2>1, <3>1
  <2>4. CASE k = kind /\ s = shard /\ IsBatch(list)
    <3>1. batches'[k][s] = Append(b, list)
      BY <1>1, <2>2, <2>4
    <3>2. /\ Len(Append(b, list)) = n + 1 /\ Append(b, list)[n + 1] = list
          /\ \A j \in 1..n : Append(b, list)[j] = b[j]
      BY <1>1, <1>5, <1>6
    <3>3. \A j \in 1..n : b[j] = Chunk(shard, j)
      BY <1>1, <1>6, <1>8 DEF b
    <3>4. i \in 1..n \/ i = n + 1
      BY <1>7, <3>1, <3>2
    <3>5. QED
      BY <1>11, <2>4, <3>1, <3>2, <3>3, <3>4
  <2>5. QED
    BY <2>3, <2>4
<1>13. ASSUME stage' = "starting"
       PROVE  translist' = InShard(shard', (Len(batches'[kind'][shard']) * v + 1)..pool'[kind'][shard'])
  <2>1. \A k \in {Internal, Cross}, s \in Shards : After(k, s) => pool[k][s] = 0
    BY <1>1 DEF IndInv, FillInv
  <2>2. \A k \in {Internal, Cross}, s \in Shards :
          pool[k][s] = 0 => Len(batches[k][s]) = 0
    <3>1. SUFFICES ASSUME NEW k \in {Internal, Cross}, NEW s \in Shards, pool[k][s] = 0
                   PROVE  Len(batches[k][s]) = 0
      OBVIOUS
    <3>2. Len(batches[k][s]) = 0 \div v
      BY <1>3, <3>1, SizeWhenCut DEF v
    <3>3. 0 = 0 * v + 0 /\ 0 \in 0..(v - 1)
      BY <1>4
    <3>4. 0 \div v = 0
      BY <1>4, <3>3, IsDivMod
    <3>5. QED
      BY <3>2, <3>4
  <2>3. CASE translist' = rest /\ kind' = kind /\ shard' = shard
    <3>1. pool'[kind'][shard'] = p + 1
      BY <1>1, <1>5, <2>3
    <3>2. CASE IsBatch(list)
      <4>1. batches'[kind'][shard'] = Append(b, list) /\ Len(Append(b, list)) = n + 1
        <5>1. batches'[kind'][shard'] = Append(b, list)
          BY <1>1, <1>5, <2>3, <3>2
        <5>2. QED
          BY <1>1, <1>5, <1>6, <5>1
      <4>2. ((n + 1) * v + 1)..(p + 1) = {}
        BY <1>1, <1>7, <1>9, <1>11, <3>2
      <4>3. rest = {}
        BY <3>2 DEF rest
      <4>4. QED
        BY <2>3, <3>1, <4>1, <4>2, <4>3 DEF InShard
    <3>3. CASE ~IsBatch(list)
      <4>1. batches'[kind'][shard'] = b
        BY <1>1, <1>5, <2>3, <3>3 DEF b
      <4>2. rest = list
        BY <3>3 DEF rest
      <4>3. QED
        BY <1>6, <1>10, <2>3, <3>1, <4>1, <4>2
    <3>4. QED
      BY <3>2, <3>3
  <2>4. CASE p + 1 = TxNum /\ shard < ShardNum /\ translist' = rest
             /\ kind' = kind /\ shard' = shard + 1
    <3>1. shard = 1 /\ shard' = 2 /\ 2 \in Shards
      BY <1>1, <1>4, <2>4
    <3>2. pool[kind][2] = 0 /\ Len(batches[kind][2]) = 0
      BY <1>1, <2>1, <2>2, <3>1 DEF After
    <3>3. pool'[kind'][shard'] = 0 /\ Len(batches'[kind'][shard']) = 0
      BY <1>1, <1>5, <2>4, <3>1, <3>2
    <3>4. IsBatch(list)
      <4>1. (p + 1) % v = IF r = v - 1 THEN 0 ELSE r + 1
        BY <1>1, <1>4, NextDivMod DEF r
      <4>2. (p + 1) % v = 0
        BY <1>3, <2>4 DEF Divides, v
      <4>3. r = v - 1
        BY <1>4, <1>7, <4>1, <4>2
      <4>4. QED
        BY <1>1, <1>6, <4>3
    <3>5. rest = {}
      BY <3>4 DEF rest
    <3>6. InShard(shard', (0 * v + 1)..0) = {}
      BY <1>4 DEF InShard
    <3>7. QED
      BY <2>4, <3>3, <3>5, <3>6
  <2>5. CASE kind = Internal /\ translist' = {} /\ kind' = Cross /\ shard' = 1
    <3>1. 1 \in Shards /\ Cross \in Kinds /\ Cross # kind
      BY <1>4, <2>5, KindsDiffer
    <3>2. pool[Cross][1] = 0 /\ Len(batches[Cross][1]) = 0
      BY <2>1, <2>2, <2>5, <3>1 DEF After, Internal, Cross
    <3>3. pool'[kind'][shard'] = 0 /\ Len(batches'[kind'][shard']) = 0
      BY <1>1, <2>5, <3>1, <3>2
    <3>4. InShard(shard', (0 * v + 1)..0) = {}
      BY <1>4 DEF InShard
    <3>5. QED
      BY <2>5, <3>3, <3>4
  <2>6. QED
    BY <1>2, <1>13, <2>3, <2>4, <2>5
<1>14. QED
  BY <1>1, <1>12, <1>13 DEF BatchInv, Chunk, InShard, v

LEMMA GenerateStep ==
  ASSUME IndInv, Generate
  PROVE  IndInv'
BY GenerateTypes, GenerateFills, GenerateSizes, GenerateBatches DEF IndInv

-----------------------------------------------------------------------------
(* The invariant, and what follows from it.                                *)

LEMMA InitInv ==
  ASSUME Init
  PROVE  IndInv
<1>1. /\ ShardNum \in {1, 2} /\ 1 \in Shards /\ Shards \subseteq {1, 2}
      /\ TxNum \in Nat \ {0} /\ MaxHeight \in Nat
      /\ validateTxNum \in ValidateTxNums /\ validateTxNum \in Nat \ {0}
  BY ConstantsAssumption DEF Init, Shards
<1>2. Nothing \in [Shards -> Content(Txs)] /\ Nothing \in [Shards -> Content(Nat)]
  BY DEF Nothing, Content
<1>3. NotYet \in [shard : Shards, read : 0..height, answered : BOOLEAN,
                   height : 0..height, internal : SUBSET Nat, cross : SUBSET Nat]
  BY <1>1 DEF Init, NotYet
<1>4. <<>> \in Seq(SUBSET Txs)
  OBVIOUS
<1>5. \A n \in Heights, s \in Shards :
        executed[n][s].internal = {} /\ executed[n][s].cross = {}
  BY DEF Init, Nothing
<1>6. /\ Internal \in Kinds /\ Cross \in Kinds /\ Relay \in Kinds
      /\ \A k \in Kinds, s \in Shards : pool[k][s] = 0 /\ batches[k][s] = <<>>
  BY KindsDiffer DEF Init
<1>7. TypeOK
  <2>1. \A n \in Heights, s \in Shards :
          /\ executed[n][s].internal \subseteq 1..pool[Internal][s]
          /\ executed[n][s].cross    \subseteq 1..pool[Cross][s]
    BY <1>5
  <2>2. /\ proposals \in [Heights -> [Shards -> Content(Txs)]]
        /\ executed \in [Heights -> [Shards -> Content(Nat)]]
        /\ validated \in [shard : Shards, read : 0..height, answered : BOOLEAN,
                          height : 0..height, internal : SUBSET Nat, cross : SUBSET Nat]
    BY <1>2, <1>3 DEF Init
  <2>3. /\ pool \in [Kinds -> [Shards -> Nat]]
        /\ batches \in [Kinds -> [Shards -> Seq(SUBSET Txs)]]
    BY <1>4 DEF Init
  <2>4. /\ translist \subseteq Txs /\ relayed \in [Shards -> SUBSET Nat]
        /\ \A s \in Shards : relayed[s] \subseteq 1..pool[Relay][s]
        /\ upload \in [Shards -> {"open", "writing", "closed"}]
        /\ relayList \in [Shards -> SUBSET Txs]
    BY DEF Init
  <2>5. index \in [Shards -> Nat] /\ toWrite \in [Shards -> Nat] /\ mark \in [Shards -> Nat]
    BY DEF Init
  <2>6. /\ stage \in {"starting", "serving"} /\ kind \in {Internal, Cross} /\ shard \in Shards
        /\ height \in 0..MaxHeight /\ committer \in {"idle", "packing", "resetting"}
        /\ current \in Shards /\ panicked \subseteq 0..height
        /\ commits \in height..MaxHeight /\ heightOf \in [0..MaxHeight -> 0..height]
    BY <1>1 DEF Init
  <2>7. QED
    BY <1>1, <2>1, <2>2, <2>3, <2>4, <2>5, <2>6 DEF TypeOK
<1>8. FillInv
  BY <1>1, <1>6 DEF Init, FillInv, Before, After, Internal, Cross
<1>9. SizeInv
  <2>1. IsFiniteSet({}) /\ Cardinality({}) = 0
    BY FS_EmptySet
  <2>2. \A s \in Shards : Ahead(s) \in Nat /\ Ahead(s) + 0 = Ahead(s) /\ Ahead(1) = 0
    BY <1>1 DEF Ahead
  <2>3. \A s \in Shards : Ahead(s) \div validateTxNum \in Nat
    BY <1>1, <2>2, DivMod
  <2>4. 0 = 0 * validateTxNum + 0 /\ 0 \in 0..(validateTxNum - 1)
    BY <1>1
  <2>5. 0 % validateTxNum = 0
    BY <1>1, <2>4, IsDivMod
  <2>6. \A k \in {Internal, Cross}, s \in Shards :
          Len(batches[k][s]) = (Made(k, s) \div validateTxNum) - (Ahead(s) \div validateTxNum)
    BY <1>6, <2>2, <2>3 DEF Made
  <2>7. Made(kind, shard) = 0
    BY <1>1, <1>6, <2>2 DEF Init, Made
  <2>8. translist = {}
    BY DEF Init
  <2>9. QED
    BY <2>1, <2>5, <2>6, <2>7, <2>8 DEF SizeInv
<1>10. BatchInv
  <2>1. \A k \in {Internal, Cross}, s \in Shards : Len(batches[k][s]) = 0
    BY <1>6
  <2>2. InShard(1, (0 * validateTxNum + 1)..0) = {}
    BY <1>1 DEF InShard
  <2>3. QED
    BY <1>1, <1>6, <2>1, <2>2 DEF Init, BatchInv
<1>11. WindowInv
  BY <1>5 DEF Init, WindowInv, NotYet
<1>12. /\ \A n \in Heights : ~(n <= height) /\ ~(n <= commits)
       /\ \A s \in Shards : PackedOf(s) = commits
       /\ heightOf[0] = 0 /\ height = 0 /\ commits = 0 /\ 0 \in 0..MaxHeight
  BY <1>1 DEF Init, Heights, PackedOf
<1>13. PipelineInv /\ RowsInv
  <2>1. RowsInv
    BY <1>12 DEF RowsInv
  <2>2. PipelineInv
    BY <1>12 DEF Init, PipelineInv, Nothing, Empty
  <2>3. QED
    BY <2>1, <2>2
<1>14. TimesInv
  <2>1. SUFFICES ASSUME Divides, NEW s \in Shards, NEW i \in 1..TxNum
                 PROVE  /\ Due(i, RowsOf(s)) <= Times(s, i)
                        /\ Times(s, i) <= Due(i, RowsOf(s)) + LostOf(s)
    BY DEF TimesInv
  <2>2. {n \in Heights : i \in executed[n][s].internal} = {}
    BY <1>5
  <2>3. Times(s, i) = 0
    BY <2>2, FS_EmptySet DEF Times
  <2>4. RowsOf(s) = 0 /\ LostOf(s) = 0
    BY <1>12 DEF RowsOf, LostOf
  <2>5. TxNum % validateTxNum = 0
    BY <2>1 DEF Divides
  <2>6. Parts \in Nat \ {0}
    <3>1. Parts \in Nat /\ TxNum = Parts * validateTxNum + 0
      BY <1>1, <2>5, DivMod DEF Parts
    <3>2. QED
      BY <1>1, <3>1
  <2>7. 0 = 0 * Parts + 0 /\ 0 \in 0..(Parts - 1)
    BY <2>6
  <2>8. 0 \div Parts = 0 /\ 0 % Parts = 0
    BY <2>6, <2>7, IsDivMod
  <2>9. i - 1 \in Nat
    OBVIOUS
  <2>10. (i - 1) \div validateTxNum \in Nat
    BY <1>1, <2>9, DivMod
  <2>11. QED
    BY <2>3, <2>4, <2>8, <2>10 DEF Due
<1>15. RelayInv
  <2>1. IsFiniteSet({}) /\ Cardinality({}) = 0
    BY FS_EmptySet
  <2>2. \A s \in Shards : relayList[s] = {} /\ index[s] = 0
    BY DEF Init
  <2>3. \A s \in Shards : Len(batches[Relay][s]) = 0
    BY <1>6
  <2>4. SUFFICES ASSUME NEW s \in Shards
                 PROVE
          /\ relayList[s] \subseteq InShard(s, 1..pool[Relay][s])
          /\ IsFiniteSet(relayList[s])
          /\ Cardinality(relayList[s]) =
               IF index[s] = 0 THEN 0 ELSE (index[s] - 1) % validateTxNum
          /\ \A i \in 1..Len(batches[Relay][s]) :
               /\ batches[Relay][s][i] \subseteq InShard(s, 1..pool[Relay][s])
               /\ batches[Relay][s][i] \cap relayList[s] = {}
    BY DEF RelayInv
  <2>5. relayList[s] = {} /\ index[s] = 0
    BY <2>2
  <2>6. Cardinality(relayList[s]) =
          IF index[s] = 0 THEN 0 ELSE (index[s] - 1) % validateTxNum
    BY <2>1, <2>5
  <2>7. 1..Len(batches[Relay][s]) = {}
    BY <2>3
  <2>8. QED
    BY <2>1, <2>5, <2>6, <2>7
<1>16. RelayBatchesAreDisjoint
  BY <1>6 DEF RelayBatchesAreDisjoint
<1>17. QED
  BY <1>7, <1>8, <1>9, <1>10, <1>11, <1>13, <1>14, <1>15, <1>16 DEF IndInv

LEMMA NextInv ==
  ASSUME IndInv, [Next]_vars
  PROVE  IndInv'
<1>1. CASE Generate
  BY <1>1, GenerateStep
<1>2. CASE PackTransaction
  BY <1>2, PackTransactionStep
<1>3. CASE Commit
  BY <1>3, CommitStep
<1>4. CASE PackShard
  BY <1>4, PackShardStep
<1>5. CASE PackPanics
  BY <1>5, PackPanicsStep
<1>6. CASE ResetShard
  BY <1>6, ResetShardStep
<1>7. Active \subseteq Shards
  BY ConstantsAssumption DEF Shards
<1>8. ASSUME NEW s \in Active, PackValidTx(s)
      PROVE  IndInv'
  BY <1>7, <1>8, PackValidTxStep
<1>9. ASSUME NEW s \in Active, StartRelays(s)
      PROVE  IndInv'
  BY <1>7, <1>9, StartRelaysStep
<1>10. ASSUME NEW s \in Active, WriteRelay(s)
       PROVE  IndInv'
  BY <1>7, <1>10, WriteRelayStep
<1>11. ASSUME NEW s \in Active, EndRelays(s)
       PROVE  IndInv'
  BY <1>7, <1>11, EndRelaysStep
<1>12. CASE AnswerValidTx
  BY <1>12, AnswerValidTxStep
<1>13. CASE UNCHANGED vars
  BY <1>13, QuietStep
<1>14. QED
  BY <1>1, <1>2, <1>3, <1>4, <1>5, <1>6, <1>8, <1>9, <1>10, <1>11, <1>12, <1>13 DEF Next

LEMMA Invariance == Spec => []IndInv
BY InitInv, NextInv, PTL DEF Spec

(* The variables keep their types: what is executed is in the pools, the batches a
   proposal has exist in both kinds, whatever ValidateTxNum (transaction pools of
   structure/controller.go). *)
THEOREM PoolTypeCorrect == Spec => []TypeOK
<1>1. IndInv => TypeOK
  BY DEF IndInv
<1>2. QED
  BY <1>1, Invariance, PTL

(* The batches initializeTransactions stores are the windows PackValidateTrans cuts. *)
THEOREM BatchesMatchWindows == Spec => []BatchesAreWindows
<1>1. ASSUME IndInv
      PROVE  BatchesAreWindows
  <2>1. SUFFICES ASSUME stage = "serving", Divides, NEW s \in Shards,
                        NEW k \in {Internal, Cross}
                 PROVE  /\ Len(batches[k][s]) = TxNum \div validateTxNum
                        /\ \A b \in 1..Len(batches[k][s]) :
                             batches[k][s][b] = InShard(s, Window(b - 1, s))
    BY DEF BatchesAreWindows
  <2>2. /\ Len(batches[k][s]) = Parts
        /\ \A b \in 1..Parts : batches[k][s][b] = Chunk(s, b)
    BY <1>1, <2>1, BatchOf
  <2>3. Parts \in Nat \ {0} /\ validateTxNum \in Nat \ {0}
    BY <1>1, <2>1, CutInParts, Numbers
  <2>4. ASSUME NEW b \in 1..Parts
        PROVE  Chunk(s, b) = InShard(s, Window(b - 1, s))
    <3> DEFINE a == b - 1
    <3>1. a \in Nat /\ a = 0 * Parts + a /\ a \in 0..(Parts - 1)
      BY <2>3
    <3>2. a % Parts = a
      <4> HIDE DEF a
      <4>1. QED
        BY <2>3, <3>1, IsDivMod
    <3>3. Window(a, s) = ((a % Parts) * validateTxNum + 1)
                           ..((a % Parts) * validateTxNum + validateTxNum)
      <4> HIDE DEF a
      <4>1. QED
        BY <1>1, <2>1, <3>1, WindowIsChunk
    <3>4. b * validateTxNum = (b - 1) * validateTxNum + validateTxNum
      BY <2>3
    <3>5. QED
      BY <3>2, <3>3, <3>4 DEF Chunk
  <2>5. QED
    BY <2>2, <2>4 DEF Parts
<1>2. QED
  BY <1>1, Invariance, PTL

(* The offsets of PackTransaction, of the proposals and of packTx4ServerUpdate agree: a
   commit executes what was proposed two blocks before the newest block of the table,
   which is the committed one or, if its row was lost, the one before. *)
THEOREM PipelineIsRight == Spec => []ExecutedWasProposed
<1>1. ASSUME IndInv
      PROVE  ExecutedWasProposed
  <2>1. SUFFICES ASSUME Divides, NEW m \in 1..commits, NEW s \in Shards,
                        Packed(m), heightOf[m] >= 3
                 PROVE  /\ proposals[heightOf[m] - 2][s].internal
                             = InShard(s, executed[m][s].internal)
                        /\ proposals[heightOf[m] - 2][s].cross
                             = InShard(s, executed[m][s].cross)
    BY DEF ExecutedWasProposed
  <2> DEFINE n == heightOf[m]
             h == n - 1
             c == h % Parts
  <2>2. /\ height \in Nat /\ height <= MaxHeight /\ MaxHeight \in Nat /\ commits \in Nat
        /\ commits <= MaxHeight
        /\ stage \in {"starting", "serving"} /\ (stage = "starting" => commits = 0)
        /\ validateTxNum \in Nat \ {0} /\ Parts \in Nat \ {0}
    BY <1>1, <2>1, Numbers, CutInParts
  <2>3. m \in Heights /\ n \in Nat /\ n <= height /\ stage = "serving"
    BY <1>1, <2>1, <2>2, Rows DEF Heights
  <2>4. n >= 3
    BY <2>1
  <2> HIDE DEF n
  <2>5. n - 2 \in Heights /\ h \in Nat /\ n - 2 <= height /\ (n - 2) + 1 = h
    BY <2>2, <2>3, <2>4 DEF Heights
  <2>6. proposals[n - 2] # Nothing /\ Proposed(n - 2) /\ Executed(m)
    BY <1>1, <2>1, <2>3, <2>5, PipelineParts DEF IndInv
  <2>7. m <= PackedOf(s)
    BY <2>1, <2>2 DEF Packed, PackedOf
  <2>8. /\ c \in 0..(Parts - 1)
        /\ Window(h, s) = (c * validateTxNum + 1)..(c * validateTxNum + validateTxNum)
        /\ Sliceable(h, s)
    <3> HIDE DEF h
    <3>1. QED
      BY <1>1, <2>1, <2>3, <2>5, WindowIsChunk
  <2>9. executed[m][s] = WindowOf(h, s)
    BY <2>6, <2>7, <2>8 DEF Executed, Executes, n
  <2>10. /\ proposals[n - 2][s].internal = Chunk(s, 1 + c)
         /\ proposals[n - 2][s].cross    = Chunk(s, 1 + c)
    BY <2>5, <2>6 DEF Proposed
  <2>11. Chunk(s, 1 + c) = InShard(s, Window(h, s))
    <3> HIDE DEF c, h
    <3>1. /\ ((1 + c) - 1) * validateTxNum = c * validateTxNum
          /\ (1 + c) * validateTxNum = c * validateTxNum + validateTxNum
      BY <2>2, <2>8
    <3>2. QED
      BY <2>8, <3>1 DEF Chunk
  <2>12. executed[m][s].internal = Window(h, s) /\ executed[m][s].cross = Window(h, s)
    BY <2>9 DEF WindowOf
  <2>13. QED
    BY <2>10, <2>11, <2>12 DEF n
<1>2. QED
  BY <1>1, Invariance, PTL

(* PackValidTx and packTx4ServerUpdate, each with a height it reads by itself, cut the
   same window for a height of the table, and the height a client is told is not below
   the one its window was cut for. *)
THEOREM ClientsExecuteTheSame == Spec => []ValidatedIsExecuted
<1>1. ASSUME IndInv
      PROVE  ValidatedIsExecuted
  <2>1. SUFFICES ASSUME validated.answered, validated.internal # {}
                 PROVE  /\ validated.read <= validated.height
                        /\ \A m \in 1..commits :
                             LET e == executed[m][validated.shard] IN
                             heightOf[m] = validated.read /\ e.internal # {} =>
                               e.internal = validated.internal /\ e.cross = validated.cross
    BY DEF ValidatedIsExecuted
  <2>2. validated.read <= validated.height
    BY <1>1, <2>1 DEF IndInv, WindowInv
  <2>3. ASSUME NEW m \in 1..commits, heightOf[m] = validated.read,
               executed[m][validated.shard].internal # {}
        PROVE  /\ executed[m][validated.shard].internal = validated.internal
               /\ executed[m][validated.shard].cross = validated.cross
    <3>1. validated.shard \in Shards
      BY <1>1 DEF IndInv, TypeOK
    <3>2. m \in Heights
      BY <1>1, Numbers DEF Heights
    <3>3. executed[m][validated.shard] = WindowOf(validated.read - 1, validated.shard)
      BY <1>1, <2>3, <3>1, <3>2 DEF IndInv, WindowInv
    <3>4. /\ validated.internal = Window(validated.read - 1, validated.shard)
          /\ validated.cross = Window(validated.read - 1, validated.shard)
      BY <1>1, <2>1 DEF IndInv, WindowInv
    <3>5. QED
      BY <3>3, <3>4 DEF WindowOf
  <2>4. QED
    BY <2>2, <2>3
<1>2. QED
  BY <1>1, Invariance, PTL

(* The windows of successive blocks leave no transaction out and take none twice before
   all others: the remainders of PackValidateTrans wrap around at the right place, and
   a lost row repeats one window, no more. *)
THEOREM ExecutionIsEven == Spec => []EvenlyExecuted
<1>1. ASSUME IndInv
      PROVE  EvenlyExecuted
  <2>1. SUFFICES ASSUME Divides, committer # "packing", NEW s \in Shards,
                        NEW i \in 1..pool[Internal][s], NEW j \in 1..pool[Internal][s]
                 PROVE  Times(s, i) <= Times(s, j) + 1 + LostRows
    BY DEF EvenlyExecuted
  <2>2. pool[Internal][s] \in Nat /\ pool[Internal][s] <= TxNum
    <3>1. pool[Internal][s] \in Nat /\ TxNum \in Nat /\ stage \in {"starting", "serving"}
      BY <1>1, KindsDiffer, PoolTypes, Numbers
    <3>2. CASE stage = "serving"
      BY <1>1, <3>1, <3>2 DEF IndInv, FillInv
    <3>3. CASE stage = "starting"
      <4>1. /\ pool[kind][shard] < TxNum
            /\ \A k \in {Internal, Cross}, t \in Shards :
                 /\ Before(k, t) => pool[k][t] = TxNum
                 /\ After(k, t)  => pool[k][t] = 0
            /\ kind \in {Internal, Cross} /\ shard \in {1, 2} /\ s \in {1, 2}
        BY <1>1, <3>3, Numbers DEF IndInv, FillInv, TypeOK
      <4>2. Before(Internal, s) \/ After(Internal, s) \/ (kind = Internal /\ shard = s)
        BY <4>1 DEF Before, After, Internal, Cross
      <4>3. QED
        BY <3>1, <4>1, <4>2
    <3>4. QED
      BY <3>1, <3>2, <3>3
  <2>3. i \in 1..TxNum /\ j \in 1..TxNum
    BY <2>2, Numbers, <1>1
  <2>4. /\ Times(s, i) <= Due(i, height) + LostRows
        /\ Due(j, height) <= Times(s, j)
    <3>1. RowsOf(s) = height /\ LostOf(s) = LostRows
      BY <1>1, <2>1, Rows DEF RowsOf, LostOf, PackedOf, LostRows
    <3>2. QED
      BY <1>1, <2>1, <2>3, <3>1 DEF IndInv, TimesInv
  <2>5. height \div Parts \in Nat
    BY <1>1, <2>1, Numbers, CutInParts, DivMod
  <2>6. Due(i, height) \in Nat /\ Due(j, height) \in Nat /\ Due(i, height) <= Due(j, height) + 1
    BY <2>5 DEF Due
  <2>7. LostRows \in Nat
    BY <1>1, Numbers DEF LostRows
  <2>8. Times(s, i) \in Nat /\ Times(s, j) \in Nat
    <3>1. ASSUME NEW k
          PROVE  Times(s, k) \in Nat
      <4>1. IsFiniteSet(Heights)
        BY <1>1, Numbers, FS_Interval DEF Heights
      <4>2. IsFiniteSet({m \in Heights : k \in executed[m][s].internal})
        BY <4>1, FS_Subset
      <4>3. QED
        BY <4>2, FS_CardinalityType DEF Times
    <3>2. QED
      BY <3>1
  <2>9. QED
    BY <2>4, <2>6, <2>7, <2>8
<1>2. QED
  BY <1>1, Invariance, PTL

(* With a ValidateTxNum that divides the pools a slice expression of a commit panics only
   with an empty table, for window -1. *)
THEOREM CutPoolsNeverPanic == Spec => []WindowsArePackable
<1>1. IndInv => WindowsArePackable
  BY DEF IndInv, PipelineInv, WindowsArePackable
<1>2. QED
  BY <1>1, Invariance, PTL

(* Relay batches have no relay in common and none is too large, for any numbers of
   relays (the loop at model/block.go:377). *)
THEOREM RelaysAreInOneBatch == Spec => []RelayBatchesAreDisjoint
<1>1. IndInv => RelayBatchesAreDisjoint
  BY DEF IndInv
<1>2. QED
  BY <1>1, Invariance, PTL

-----------------------------------------------------------------------------
(* The relays of a round.                                                  *)

\* What RoundInv says of a shard holds on if the round of the shard is left alone.
LEMMA RoundFrame ==
  ASSUME RoundInv, NEW s \in Shards, mark'[s] = mark[s], pool'[Relay][s] = pool[Relay][s],
         upload'[s] = upload[s], toWrite'[s] = toWrite[s]
  PROVE  /\ mark'[s] <= pool'[Relay][s]
         /\ upload'[s] = "open" => pool'[Relay][s] = mark'[s]
         /\ upload'[s] # "open" => (pool'[Relay][s] - mark'[s]) + toWrite'[s] \in RelayNums
BY DEF RoundInv

LEMMA RoundTypes ==
  ASSUME IndInv, NEW s \in Shards
  PROVE  mark[s] \in Nat /\ pool[Relay][s] \in Nat /\ toWrite[s] \in Nat
BY KindsDiffer, PoolTypes DEF IndInv, TypeOK

LEMMA StepRound ==
  ASSUME IndInv, RoundInv, [Next]_vars
  PROVE  RoundInv'
<1> USE KindsDiffer, PoolTypes
<1>1. CASE UNCHANGED vars
  BY <1>1 DEF vars, commit, relaying, RoundInv
<1>2. CASE \/ PackTransaction \/ Commit \/ PackShard \/ PackPanics \/ AnswerValidTx
           \/ \E s \in Active : PackValidTx(s)
  <2>1. UNCHANGED <<pool, mark, upload, toWrite>>
    BY <1>2 DEF PackTransaction, Commit, PackShard, PackPanics, PackValidTx, AnswerValidTx,
               commit, relaying
  <2>2. QED
    BY <2>1 DEF RoundInv
<1>3. CASE Generate
  <2>1. UNCHANGED <<mark, upload, toWrite>> /\ pool' = [pool EXCEPT ![kind][shard] = @ + 1]
        /\ kind \in {Internal, Cross}
    BY <1>3 DEF Generate, commit, relaying, IndInv, TypeOK
  <2>2. \A s \in Shards : pool'[Relay][s] = pool[Relay][s]
    BY <2>1
  <2>3. QED
    BY <2>1, <2>2 DEF RoundInv
<1>4. CASE ResetShard
  <2>1. /\ upload' = [upload EXCEPT ![current] = "open"]
        /\ mark' = [mark EXCEPT ![current] = pool[Relay][current]]
        /\ UNCHANGED <<pool, toWrite>>
        /\ current \in Shards
    BY <1>4 DEF ResetShard, IndInv, TypeOK
  <2>2. /\ upload'[current] = "open" /\ mark'[current] = pool'[Relay][current]
        /\ \A s \in Shards : s # current => mark'[s] = mark[s] /\ upload'[s] = upload[s]
    BY <2>1 DEF IndInv, TypeOK
  <2>3. pool'[Relay][current] \in Nat
    BY <2>1, RoundTypes
  <2>4. QED
    BY <2>1, <2>2, <2>3, RoundFrame DEF RoundInv
<1>. Active \subseteq Shards
  BY ConstantsAssumption DEF Shards
<1>5. ASSUME NEW s \in Active, StartRelays(s)
      PROVE  RoundInv'
  <2>1. PICK n \in RelayNums : toWrite' = [toWrite EXCEPT ![s] = n]
    BY <1>5 DEF StartRelays
  <2>2. /\ upload[s] = "open" /\ upload' = [upload EXCEPT ![s] = "writing"]
        /\ UNCHANGED <<pool, mark>>
    BY <1>5 DEF StartRelays, IsOpen, commit
  <2>3. /\ toWrite'[s] = n /\ upload'[s] = "writing"
        /\ \A t \in Shards : t # s => toWrite'[t] = toWrite[t] /\ upload'[t] = upload[t]
    BY <2>1, <2>2 DEF IndInv, TypeOK
  <2>4. pool'[Relay][s] = mark'[s] /\ mark'[s] \in Nat /\ n \in Nat
    BY <2>2, RoundTypes, ConstantsAssumption DEF RoundInv
  <2>5. (pool'[Relay][s] - mark'[s]) + toWrite'[s] = n
    BY <2>3, <2>4
  <2>6. QED
    BY <2>2, <2>3, <2>4, <2>5, RoundFrame DEF RoundInv
<1>6. ASSUME NEW s \in Active, WriteRelay(s)
      PROVE  RoundInv'
  <2>1. /\ upload[s] = "writing" /\ UNCHANGED <<upload, mark>>
        /\ toWrite' = [toWrite EXCEPT ![s] = @ - 1]
        /\ pool' = [pool EXCEPT ![Relay][s] = @ + 1]
    BY <1>6 DEF WriteRelay, commit
  <2>2. /\ toWrite'[s] = toWrite[s] - 1 /\ pool'[Relay][s] = pool[Relay][s] + 1
        /\ \A t \in Shards : t # s => /\ toWrite'[t] = toWrite[t]
                                     /\ pool'[Relay][t] = pool[Relay][t]
    BY <2>1 DEF IndInv, TypeOK
  <2>3. /\ mark[s] <= pool[Relay][s]
        /\ (pool[Relay][s] - mark[s]) + toWrite[s] \in RelayNums
    BY <2>1 DEF RoundInv
  <2>4. /\ mark[s] <= pool[Relay][s] + 1
        /\ ((pool[Relay][s] + 1) - mark[s]) + (toWrite[s] - 1)
              = (pool[Relay][s] - mark[s]) + toWrite[s]
    BY <2>3, RoundTypes
  <2>5. QED
    BY <2>1, <2>2, <2>3, <2>4, RoundFrame DEF RoundInv
<1>7. ASSUME NEW s \in Active, EndRelays(s)
      PROVE  RoundInv'
  <2>1. /\ upload[s] = "writing" /\ upload' = [upload EXCEPT ![s] = "closed"]
        /\ UNCHANGED <<pool, mark, toWrite>>
    BY <1>7 DEF EndRelays, commit
  <2>2. \A t \in Shards : upload'[t] = "open" <=> upload[t] = "open"
    BY <2>1 DEF IndInv, TypeOK
  <2>3. QED
    BY <2>1, <2>2 DEF RoundInv
<1>8. QED
  BY <1>1, <1>2, <1>3, <1>4, <1>5, <1>6, <1>7 DEF Next

(* A round of a shard writes the relays of one upload, so that those written before
   the packing are executed, if no upload has more than a window of them and the pool
   has a window at least (model/block.go:374 and structure/controller.go:463). *)
THEOREM RelaysReachTheCommit == Spec => NewRelaysAreExecuted
<1>1. Init => RoundInv
  BY ConstantsAssumption, KindsDiffer DEF Init, RoundInv
<1>2. ASSUME IndInv, RoundInv, NEW s \in Shards, PackShard, current = s,
             pool[Relay][s] >= validateTxNum, \A n \in RelayNums : n <= validateTxNum
      PROVE  NewRelays(s) \subseteq relayed'[s]
  <2>1. mark[s] \in Nat /\ pool[Relay][s] \in Nat /\ toWrite[s] \in Nat
        /\ validateTxNum \in Nat \ {0}
    BY <1>2, RoundTypes, Numbers
  <2>2. relayed'[s] = (pool[Relay][s] - validateTxNum + 1)..pool[Relay][s]
    BY <1>2 DEF PackShard, RelayWindow, IndInv, TypeOK
  <2>3. pool[Relay][s] - mark[s] <= validateTxNum
    <3>1. CASE upload[s] = "open"
      BY <1>2, <2>1, <3>1 DEF RoundInv
    <3>2. CASE upload[s] # "open"
      <4>1. (pool[Relay][s] - mark[s]) + toWrite[s] <= validateTxNum
        BY <1>2, <3>2 DEF RoundInv
      <4>2. QED
        BY <2>1, <4>1
    <3>3. QED
      BY <3>1, <3>2
  <2>4. QED
    BY <2>1, <2>2, <2>3 DEF NewRelays
<1>3. IndInv /\ RoundInv =>
        [\A s \in Shards :
           /\ PackShard /\ current = s
           /\ pool[Relay][s] >= validateTxNum
           /\ \A n \in RelayNums : n <= validateTxNum
           => NewRelays(s) \subseteq relayed'[s]]_vars
  BY <1>2
<1>4. IndInv /\ RoundInv /\ [Next]_vars => RoundInv'
  BY StepRound
<1>5. QED
  BY <1>1, <1>3, <1>4, Invariance, PTL DEF Spec, NewRelaysAreExecuted
=============================================================================
