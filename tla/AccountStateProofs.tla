------------------------- MODULE AccountStateProofs -------------------------
(***************************************************************************)
(* Proofs about AccountState, for any number of accounts, shards, readers  *)
(* and blocks, and for any windows the pools may have for a block.         *)
(***************************************************************************)
EXTENDS AccountState, TLAPS

-----------------------------------------------------------------------------
(* Sequences of transactions, and of lists of them.                        *)

LEMMA TailOf ==
  ASSUME NEW S, NEW q \in Seq(S), q # <<>>
  PROVE  /\ Head(q) \in S /\ Tail(q) \in Seq(S)
         /\ ToSet(q) = {Head(q)} \cup ToSet(Tail(q))
<1>1. /\ Len(q) \in Nat \ {0} /\ Head(q) = q[1] /\ Tail(q) \in Seq(S)
      /\ DOMAIN Tail(q) = 1..(Len(q) - 1)
      /\ \A i \in 1..(Len(q) - 1) : Tail(q)[i] = q[i + 1]
  OBVIOUS
<1>2. ToSet(q) = {q[i] : i \in 1..Len(q)}
  BY DEF ToSet
<1>3. ToSet(Tail(q)) = {q[i + 1] : i \in 1..(Len(q) - 1)}
  BY <1>1 DEF ToSet
<1>4. ASSUME NEW i \in 1..Len(q)
      PROVE  q[i] \in {q[1]} \cup {q[j + 1] : j \in 1..(Len(q) - 1)}
  <2>1. CASE i = 1
    BY <2>1
  <2>2. CASE i # 1
    <3>1. i - 1 \in 1..(Len(q) - 1) /\ (i - 1) + 1 = i
      BY <1>1, <2>2
    <3>2. QED
      BY <3>1
  <2>3. QED
    BY <2>1, <2>2
<1>5. \A j \in 1..(Len(q) - 1) : j + 1 \in 1..Len(q)
  BY <1>1
<1>6. ToSet(q) = {q[1]} \cup ToSet(Tail(q))
  BY <1>1, <1>2, <1>3, <1>4, <1>5
<1>7. QED
  BY <1>1, <1>6

LEMMA TailOfLists ==
  ASSUME NEW S, NEW ls \in Seq(Seq(S)), ls # <<>>
  PROVE  /\ Head(ls) \in Seq(S) /\ Tail(ls) \in Seq(Seq(S))
         /\ Within(ls) = ToSet(Head(ls)) \cup Within(Tail(ls))
<1>1. /\ Len(ls) \in Nat \ {0} /\ Head(ls) = ls[1] /\ Head(ls) \in Seq(S)
      /\ Tail(ls) \in Seq(Seq(S)) /\ DOMAIN Tail(ls) = 1..(Len(ls) - 1)
      /\ \A i \in 1..(Len(ls) - 1) : Tail(ls)[i] = ls[i + 1]
      /\ DOMAIN ls = 1..Len(ls)
  OBVIOUS
<1>2. ASSUME NEW x \in Within(ls)
      PROVE  x \in ToSet(Head(ls)) \cup Within(Tail(ls))
  <2>1. PICK i \in 1..Len(ls) : x \in ToSet(ls[i])
    BY <1>1 DEF Within
  <2>2. CASE i = 1
    BY <1>1, <2>1, <2>2
  <2>3. CASE i # 1
    <3>1. i - 1 \in 1..(Len(ls) - 1) /\ Tail(ls)[i - 1] = ls[i]
      BY <1>1, <2>3
    <3>2. QED
      BY <1>1, <2>1, <3>1 DEF Within
  <2>4. QED
    BY <2>2, <2>3
<1>3. ASSUME NEW x \in Within(Tail(ls))
      PROVE  x \in Within(ls)
  <2>1. PICK i \in 1..(Len(ls) - 1) : x \in ToSet(ls[i + 1])
    BY <1>1 DEF Within
  <2>2. i + 1 \in DOMAIN ls
    BY <1>1
  <2>3. QED
    BY <2>1, <2>2 DEF Within
<1>4. ToSet(Head(ls)) \subseteq Within(ls)
  <2>1. 1 \in DOMAIN ls
    BY <1>1
  <2>2. QED
    BY <1>1, <2>1 DEF Within
<1>5. QED
  BY <1>1, <1>2, <1>3, <1>4

\* Every transaction in the lists of a window is of the window.
LEMMA ListedTypes ==
  ASSUME NEW w \in Windows, NEW k \in Kinds, NEW ls \in Listed(w, k)
  PROVE  /\ ls \in Seq(Seq(Transactions))
         /\ \A tx \in Within(ls) : tx.kind = "internal" => WithinShard(tx)
<1>1. PICK o \in [Shards -> Shards] : ls = [i \in Shards |-> w[k][o[i]]]
  BY DEF Listed, Injection
<1>2. w[k] \in [Shards -> Seq(Transactions)]
  BY ConstantsAssumption
<1>3. \A i \in Shards : o[i] \in Shards /\ ls[i] = w[k][o[i]] /\ ls[i] \in Seq(Transactions)
  BY <1>1, <1>2
<1>4. ls \in [1..ShardNum -> Seq(Transactions)] /\ ShardNum \in Nat
  BY <1>1, <1>3, ConstantsAssumption DEF Shards
<1>5. ls \in Seq(Seq(Transactions))
  BY <1>4
<1>6. ASSUME NEW tx \in Within(ls), tx.kind = "internal"
      PROVE  WithinShard(tx)
  <2>1. PICK i \in Shards : tx \in ToSet(ls[i])
    BY <1>4 DEF Within, Shards
  <2>2. PICK j \in 1..Len(w[k][o[i]]) : tx = w[k][o[i]][j]
    BY <1>3, <2>1 DEF ToSet
  <2>3. /\ tx.kind = k
        /\ ShardOf[tx.from] = o[i] /\ ShardOf[tx.to] = o[i] /\ tx.from # tx.to
    BY <1>3, <1>6, <2>2, ConstantsAssumption
  <2>4. QED
    BY <2>3 DEF WithinShard
<1>7. QED
  BY <1>5, <1>6

LEMMA WithinConcat ==
  ASSUME NEW S, NEW f \in Seq(Seq(S)), NEW g \in Seq(Seq(S))
  PROVE  f \o g \in Seq(Seq(S)) /\ Within(f \o g) = Within(f) \cup Within(g)
<1> DEFINE h == f \o g
<1>1. /\ h \in Seq(Seq(S)) /\ Len(h) = Len(f) + Len(g)
      /\ Len(f) \in Nat /\ Len(g) \in Nat
      /\ \A i \in 1..Len(f) : h[i] = f[i]
      /\ \A i \in 1..Len(g) : h[Len(f) + i] = g[i]
      /\ DOMAIN h = 1..Len(h) /\ DOMAIN f = 1..Len(f) /\ DOMAIN g = 1..Len(g)
  OBVIOUS
<1> HIDE DEF h
<1>2. ASSUME NEW x \in Within(h)
      PROVE  x \in Within(f) \cup Within(g)
  <2>1. PICK i \in 1..Len(h) : x \in ToSet(h[i])
    BY <1>1 DEF Within
  <2>2. CASE i <= Len(f)
    <3>1. i \in 1..Len(f)
      BY <1>1, <2>2
    <3>2. QED
      BY <1>1, <2>1, <3>1 DEF Within
  <2>3. CASE i > Len(f)
    <3>1. i - Len(f) \in 1..Len(g) /\ Len(f) + (i - Len(f)) = i
      BY <1>1, <2>3
    <3>2. h[i] = g[i - Len(f)]
      BY <1>1, <3>1
    <3>3. QED
      BY <1>1, <2>1, <3>1, <3>2 DEF Within
  <2>4. QED
    BY <1>1, <2>2, <2>3
<1>3. ASSUME NEW x \in Within(f)
      PROVE  x \in Within(h)
  <2>1. PICK i \in 1..Len(f) : x \in ToSet(f[i])
    BY <1>1 DEF Within
  <2>2. i \in 1..Len(h) /\ h[i] = f[i]
    BY <1>1
  <2>3. QED
    BY <1>1, <2>1, <2>2 DEF Within
<1>4. ASSUME NEW x \in Within(g)
      PROVE  x \in Within(h)
  <2>1. PICK i \in 1..Len(g) : x \in ToSet(g[i])
    BY <1>1 DEF Within
  <2>2. Len(f) + i \in 1..Len(h) /\ h[Len(f) + i] = g[i]
    BY <1>1
  <2>3. QED
    BY <1>1, <2>1, <2>2 DEF Within
<1>5. Within(h) = Within(f) \cup Within(g)
  BY <1>2, <1>3, <1>4
<1>6. QED
  BY <1>1, <1>5 DEF h

-----------------------------------------------------------------------------
(* The steps of an execution.                                              *)

\* Parts of the invariant an execution does not touch.
LEMMA ExecutionFrame ==
  ASSUME IndInv, UNCHANGED <<maps, height, commits, readers>>,
         related' = related, shard' = shard
  PROVE  /\ SharedInv' /\ ListInv' /\ ListIsNotAhead'
         /\ height' \in 0..commits' /\ commits' \in 0..MaxHeight /\ shard' \in Shards /\ related' \subseteq Accounts
         /\ accountMap' \in [Accounts -> Structs] /\ newAccountMap' \in [Accounts -> Structs]
         /\ reader' \in [Readers -> {"idle", "listing"}]
         /\ left' \in [Readers -> SUBSET Accounts]
         /\ list' \in [Readers -> [Accounts -> 0..MaxHeight]]
         /\ answer' \in [Readers -> (0..MaxHeight) \cup {NotRead}]
BY DEF IndInv, TypeOK, SharedInv, ListInv, ListIsNotAhead, LostRows, maps, readers

\* The struct of an account is its own, and the one both maps have.
LEMMA StructOf ==
  ASSUME IndInv, NEW a \in Accounts
  PROVE  /\ <<a, 1>> \in Structs /\ New(a) = <<a, 1>>
         /\ Old(a) = struct[<<a, 1>>] /\ Old(a) \in Int
BY DEF IndInv, TypeOK, SharedInv, Structs, Old, New

LEMMA NotAhead ==
  ASSUME IndInv
  PROVE  /\ height \in Nat /\ commits \in Nat /\ height <= commits /\ commits <= MaxHeight
         /\ \A a \in Accounts : changed[a] \in Nat /\ changed[a] <= commits
BY ConstantsAssumption DEF IndInv, TypeOK, ChangedInv

LEMMA WriteStep ==
  ASSUME IndInv, NEW a \in Accounts, NEW v \in Int, Write(a, v)
  PROVE  /\ struct' \in [Structs -> Int]
         /\ struct' = [struct EXCEPT ![<<a, 1>>] = v]
         /\ changed' \in [Accounts -> 0..MaxHeight]
         /\ \A b \in Accounts : changed'[b] = IF b = a THEN commits ELSE changed[b]
<1>1. <<a, 1>> \in Structs /\ New(a) = <<a, 1>>
  BY StructOf
<1>2. /\ struct' = [struct EXCEPT ![<<a, 1>>] = v]
      /\ changed' = [changed EXCEPT ![a] = commits]
  BY <1>1 DEF Write
<1>3. struct \in [Structs -> Int] /\ changed \in [Accounts -> 0..MaxHeight] /\ commits \in 0..MaxHeight
  BY DEF IndInv, TypeOK
<1>4. QED
  BY <1>1, <1>2, <1>3

\* The transaction that is executed, and those after it.
LEMMA HeadOfQueue ==
  ASSUME IndInv, queue # <<>>
  PROVE  /\ Head(queue) \in Transactions /\ Head(queue) \in Pending
         /\ Head(queue).from \in Accounts /\ Head(queue).to \in Accounts
         /\ Head(queue).kind \in Kinds
         /\ Tail(queue) \in Seq(Transactions)
         /\ Pending = {Head(queue)} \cup ToSet(Tail(queue)) \cup Within(lists)
<1>1. queue \in Seq(Transactions)
  BY DEF IndInv, TypeOK
<1>2. /\ Head(queue) \in Transactions /\ Tail(queue) \in Seq(Transactions)
      /\ ToSet(queue) = {Head(queue)} \cup ToSet(Tail(queue))
  BY <1>1, TailOf
<1>3. QED
  BY <1>2 DEF Pending, Transactions

\* Tx is executed: its accounts are changed, now or before, and it is taken away.
LEMMA DoneStep ==
  ASSUME IndInv, committer \in {"executing", "crediting"}, queue # <<>>, Done,
         committer' = "executing", commits' = commits, related' = related,
         NEW a \in Accounts, NEW v \in Int, Write(a, v),
         \A b \in RelatedTo(Head(queue)) : b = a \/ changed[b] = commits,
         a \in RelatedTo(Head(queue))
  PROVE  /\ PendingInv' /\ ChangedInv' /\ RelatedAreChanged'
         /\ lists' \in Seq(Seq(Transactions)) /\ queue' \in Seq(Transactions)
<1> DEFINE tx == Head(queue)
<1>1. /\ tx \in Pending /\ queue' = Tail(queue) /\ queue' \in Seq(Transactions)
      /\ lists' = lists /\ lists \in Seq(Seq(Transactions))
      /\ Pending = {tx} \cup Pending'
  BY HeadOfQueue DEF Done, Pending, IndInv, TypeOK
<1>2. /\ changed' \in [Accounts -> 0..MaxHeight]
      /\ \A b \in Accounts : changed'[b] = IF b = a THEN commits ELSE changed[b]
  BY WriteStep
<1>3. PendingInv'
  BY <1>1 DEF IndInv, PendingInv, WithinShard
<1>4. related = {b \in Accounts : changed[b] = commits} \cup FindAccountIds(Pending)
  BY DEF IndInv, ChangedInv
<1>5. FindAccountIds(Pending) = RelatedTo(tx) \cup FindAccountIds(Pending')
  BY <1>1 DEF FindAccountIds
<1>6. {b \in Accounts : changed'[b] = commits} = {b \in Accounts : changed[b] = commits} \cup {a}
  BY <1>2
<1>7. RelatedTo(tx) \subseteq Accounts
  BY HeadOfQueue DEF RelatedTo, Kinds
<1>8. related = {b \in Accounts : changed'[b] = commits} \cup FindAccountIds(Pending')
  BY <1>4, <1>5, <1>6, <1>7
<1>9. (FindAccountIds(Pending))' = FindAccountIds(Pending')
  BY DEF FindAccountIds, RelatedTo
<1>10. \A b \in Accounts : changed'[b] <= commits
  BY <1>2, NotAhead
<1>11. ChangedInv'
  BY <1>8, <1>9, <1>10 DEF ChangedInv
<1>12. RelatedAreChanged'
  BY DEF RelatedAreChanged
<1>13. QED
  BY <1>1, <1>3, <1>11, <1>12

LEMMA RelayStep ==
  ASSUME IndInv, ExcuteRelay
  PROVE  IndInv'
<1> DEFINE a == Head(queue).to
<1>1. /\ committer = "executing" /\ queue # <<>> /\ Done
      /\ committer' = committer /\ commits' = commits /\ related' = related /\ shard' = shard
      /\ alive' = alive /\ UNCHANGED <<maps, height, commits, readers>>
      /\ Write(a, Old(a) + Value) /\ Head(queue).kind = "relay"
  BY DEF ExcuteRelay
<1>2. a \in Accounts /\ Old(a) + Value \in Int
  <2>1. a \in Accounts
    BY <1>1, HeadOfQueue
  <2>2. Old(a) \in Int
    BY <2>1, StructOf
  <2>3. QED
    BY <2>1, <2>2 DEF Value
<1>3. RelatedTo(Head(queue)) = {a}
  BY <1>1 DEF RelatedTo
<1>4. /\ PendingInv' /\ ChangedInv' /\ RelatedAreChanged'
      /\ lists' \in Seq(Seq(Transactions)) /\ queue' \in Seq(Transactions)
  BY <1>1, <1>2, <1>3, DoneStep
<1>5. struct' \in [Structs -> Int] /\ changed' \in [Accounts -> 0..MaxHeight]
  BY <1>1, <1>2, WriteStep
<1>6. TypeOK'
  BY <1>1, <1>4, <1>5, ExecutionFrame DEF TypeOK, IndInv
<1>7. QED
  BY <1>1, <1>4, <1>6, ExecutionFrame DEF IndInv

LEMMA CrossStep ==
  ASSUME IndInv, ExcuteCross
  PROVE  IndInv'
<1> DEFINE a == Head(queue).from
<1>1. /\ committer = "executing" /\ queue # <<>> /\ Done
      /\ committer' = committer /\ commits' = commits /\ related' = related /\ shard' = shard
      /\ alive' = alive /\ UNCHANGED <<maps, height, commits, readers>>
      /\ Write(a, Old(a) - Value) /\ Head(queue).kind = "cross"
  BY DEF ExcuteCross
<1>2. a \in Accounts /\ Old(a) - Value \in Int
  <2>1. a \in Accounts
    BY <1>1, HeadOfQueue
  <2>2. Old(a) \in Int
    BY <2>1, StructOf
  <2>3. QED
    BY <2>1, <2>2 DEF Value
<1>3. RelatedTo(Head(queue)) = {a}
  BY <1>1 DEF RelatedTo
<1>4. /\ PendingInv' /\ ChangedInv' /\ RelatedAreChanged'
      /\ lists' \in Seq(Seq(Transactions)) /\ queue' \in Seq(Transactions)
  BY <1>1, <1>2, <1>3, DoneStep
<1>5. struct' \in [Structs -> Int] /\ changed' \in [Accounts -> 0..MaxHeight]
  BY <1>1, <1>2, WriteStep
<1>6. TypeOK'
  BY <1>1, <1>4, <1>5, ExecutionFrame DEF TypeOK, IndInv
<1>7. QED
  BY <1>1, <1>4, <1>6, ExecutionFrame DEF IndInv

LEMMA DebitStep ==
  ASSUME IndInv, Debit
  PROVE  IndInv'
<1> DEFINE tx == Head(queue)
           a  == tx.from
<1>1. /\ committer = "executing" /\ queue # <<>>
      /\ committer' = "crediting" /\ commits' = commits /\ related' = related /\ shard' = shard
      /\ alive' = alive /\ queue' = queue /\ lists' = lists /\ UNCHANGED <<maps, height, commits, readers>>
      /\ Write(a, Old(a) - Value) /\ tx.kind = "internal"
  BY DEF Debit
<1>2. a \in Accounts /\ Old(a) - Value \in Int /\ tx \in Pending
  <2>1. a \in Accounts /\ tx \in Pending
    BY <1>1, HeadOfQueue
  <2>2. Old(a) \in Int
    BY <2>1, StructOf
  <2>3. QED
    BY <2>1, <2>2 DEF Value
<1>3. /\ struct' \in [Structs -> Int] /\ changed' \in [Accounts -> 0..MaxHeight]
      /\ \A b \in Accounts : changed'[b] = IF b = a THEN commits ELSE changed[b]
  BY <1>1, <1>2, WriteStep
<1>4. TypeOK'
  BY <1>1, <1>3, ExecutionFrame DEF TypeOK, IndInv
<1>5. Pending' = Pending
  BY <1>1 DEF Pending, Within
<1>6. PendingInv'
  BY <1>1, <1>2, <1>3, <1>5 DEF IndInv, PendingInv, WithinShard
<1>7. a \in FindAccountIds(Pending)
  BY <1>1, <1>2 DEF FindAccountIds, RelatedTo
<1>8. related = {b \in Accounts : changed[b] = commits} \cup FindAccountIds(Pending)
  BY <1>1 DEF IndInv, ChangedInv
<1>9. related = {b \in Accounts : changed'[b] = commits} \cup FindAccountIds(Pending)
  BY <1>3, <1>7, <1>8
<1>10. ChangedInv'
  <2>1. (FindAccountIds(Pending))' = FindAccountIds(Pending)
    BY <1>5 DEF FindAccountIds, RelatedTo
  <2>2. \A b \in Accounts : changed'[b] <= commits
    BY <1>3, NotAhead
  <2>3. QED
    BY <1>1, <1>9, <2>1, <2>2 DEF ChangedInv
<1>11. RelatedAreChanged'
  BY <1>1 DEF RelatedAreChanged
<1>12. QED
  BY <1>1, <1>4, <1>6, <1>10, <1>11, ExecutionFrame DEF IndInv

LEMMA CreditStep ==
  ASSUME IndInv, Credit
  PROVE  IndInv'
<1> DEFINE tx == Head(queue)
           a  == tx.to
<1>1. /\ committer = "crediting" /\ queue # <<>> /\ Done
      /\ committer' = "executing" /\ commits' = commits /\ related' = related /\ shard' = shard
      /\ alive' = alive /\ UNCHANGED <<maps, height, commits, readers>>
      /\ Write(a, Old(a) + Value)
  BY DEF Credit, IndInv, TypeOK
<1>2. a \in Accounts /\ Old(a) + Value \in Int
  <2>1. a \in Accounts
    BY <1>1, HeadOfQueue
  <2>2. Old(a) \in Int
    BY <2>1, StructOf
  <2>3. QED
    BY <2>1, <2>2 DEF Value
<1>3. tx.kind = "internal" /\ changed[tx.from] = commits
  BY <1>1 DEF IndInv, PendingInv
<1>4. RelatedTo(tx) = {tx.from, a}
  BY <1>3 DEF RelatedTo
<1>5. /\ PendingInv' /\ ChangedInv' /\ RelatedAreChanged'
      /\ lists' \in Seq(Seq(Transactions)) /\ queue' \in Seq(Transactions)
  BY <1>1, <1>2, <1>3, <1>4, DoneStep
<1>6. struct' \in [Structs -> Int] /\ changed' \in [Accounts -> 0..MaxHeight]
  BY <1>1, <1>2, WriteStep
<1>7. TypeOK'
  BY <1>1, <1>5, <1>6, ExecutionFrame DEF TypeOK, IndInv
<1>8. QED
  BY <1>1, <1>5, <1>7, ExecutionFrame DEF IndInv

\* The outer loops go on: what is pending stays so.
LEMMA NextListStep ==
  ASSUME IndInv, NextList
  PROVE  IndInv'
<1>1. /\ committer = "executing" /\ queue = <<>> /\ lists # <<>>
      /\ queue' = Head(lists) /\ lists' = Tail(lists)
      /\ UNCHANGED <<struct, maps, height, commits, committer, shard, related, changed, readers, alive>>
  BY DEF NextList
<1>2. lists \in Seq(Seq(Transactions))
  BY DEF IndInv, TypeOK
<1>3. /\ queue' \in Seq(Transactions) /\ lists' \in Seq(Seq(Transactions))
      /\ Within(lists) = ToSet(queue') \cup Within(lists')
  BY <1>1, <1>2, TailOfLists
<1>4. ToSet(queue) = {}
  BY <1>1 DEF ToSet
<1>5. Pending' = Pending
  BY <1>3, <1>4 DEF Pending, Within
<1>6. TypeOK'
  BY <1>1, <1>3, ExecutionFrame DEF TypeOK, IndInv
<1>7. PendingInv'
  BY <1>1, <1>5 DEF IndInv, PendingInv, WithinShard
<1>8. ChangedInv'
  BY <1>1, <1>5 DEF IndInv, ChangedInv, FindAccountIds, RelatedTo
<1>9. RelatedAreChanged'
  BY <1>1 DEF RelatedAreChanged
<1>10. QED
  BY <1>1, <1>6, <1>7, <1>8, <1>9, ExecutionFrame DEF IndInv

-----------------------------------------------------------------------------
(* The other steps of a commit.                                            *)

LEMMA InsertStep ==
  ASSUME IndInv, InsertRow
  PROVE  IndInv'
<1>1. /\ committer = "idle" /\ commits < MaxHeight
      /\ commits' = commits + 1 /\ committer' = "updating"
      /\ height' = height + 1 \/ height' = height
      /\ UNCHANGED <<struct, maps, lists, queue, shard, related, changed, readers, alive>>
  BY DEF InsertRow
<1>2. /\ height \in Nat /\ commits \in Nat /\ MaxHeight \in Nat /\ height <= commits
      /\ \A a \in Accounts : changed[a] \in Nat /\ changed[a] <= commits
  BY NotAhead, ConstantsAssumption
<1>3. commits' \in 0..MaxHeight /\ height' \in 0..commits' /\ LostRows' >= LostRows
  BY <1>1, <1>2 DEF LostRows
<1>4. /\ changed \in [Accounts -> 0..MaxHeight]
      /\ list \in [Readers -> [Accounts -> 0..MaxHeight]]
      /\ answer \in [Readers -> (0..MaxHeight) \cup {NotRead}]
  BY DEF IndInv, TypeOK
<1>5. TypeOK'
  BY <1>1, <1>3 DEF IndInv, TypeOK, maps, readers
<1>6. SharedInv' /\ PendingInv'
  BY <1>1 DEF IndInv, SharedInv, PendingInv, Pending, Within, WithinShard, maps
<1>7. ChangedInv'
  BY <1>1, <1>2 DEF ChangedInv
<1>8. ListInv'
  <2>1. \A r \in Readers, a \in Accounts : list[r][a] \in Nat /\ list[r][a] <= commits
    BY <1>2, <1>4 DEF IndInv, ListInv
  <2>2. \A r \in Readers, a \in Accounts : list'[r][a] <= commits'
    BY <1>1, <1>2, <2>1 DEF readers
  <2>3. ASSUME NEW r \in Readers, answer'[r] # NotRead
        PROVE  /\ reader'[r] = "listing" /\ left'[r] = {}
               /\ \A a \in Accounts : list'[r][a] <= answer'[r] + LostRows'
    <3>1. /\ reader[r] = "listing" /\ left[r] = {} /\ answer[r] \in Nat
          /\ \A a \in Accounts : list[r][a] <= answer[r] + LostRows
      BY <1>1, <1>2, <1>4, <2>3 DEF IndInv, ListInv, readers
    <3>2. LostRows \in Int /\ LostRows' \in Int
      BY <1>1, <1>2 DEF LostRows
    <3>3. QED
      BY <1>1, <1>3, <2>1, <3>1, <3>2 DEF readers
  <2>4. QED
    BY <2>2, <2>3 DEF ListInv
<1>9. ListIsNotAhead'
  BY <1>8 DEF ListInv, ListIsNotAhead
<1>10. RelatedAreChanged'
  BY <1>1 DEF RelatedAreChanged
<1>11. QED
  BY <1>5, <1>6, <1>7, <1>8, <1>9, <1>10 DEF IndInv

LEMMA RelatedAccounts ==
  ASSUME NEW T \in SUBSET Transactions
  PROVE  FindAccountIds(T) \subseteq Accounts
BY DEF FindAccountIds, RelatedTo, Transactions, Kinds

LEMMA UpdateStep ==
  ASSUME IndInv, Update
  PROVE  IndInv'
<1>1. /\ committer = "updating" /\ committer' = "executing"
      /\ newAccountMap' = accountMap
      /\ UNCHANGED <<height, commits, struct, accountMap, queue, shard, changed, readers, alive>>
  BY DEF Update, SameStructs
<1>2. PICK w \in Windows :
        \E r \in Listed(w, "relay"), i \in Listed(w, "internal"), c \in Listed(w, "cross") :
          lists' = r \o i \o c /\ related' = FindAccountIds(Within(lists'))
  BY DEF Update
<1>3. PICK r \in Listed(w, "relay"), i \in Listed(w, "internal"), c \in Listed(w, "cross") :
        lists' = r \o i \o c /\ related' = FindAccountIds(Within(lists'))
  BY <1>2
<1>4. /\ r \in Seq(Seq(Transactions)) /\ i \in Seq(Seq(Transactions))
      /\ c \in Seq(Seq(Transactions))
      /\ \A tx \in Within(r) \cup Within(i) \cup Within(c) :
           tx.kind = "internal" => WithinShard(tx)
  BY ListedTypes DEF Kinds
<1>5. /\ r \o i \in Seq(Seq(Transactions))
      /\ Within(r \o i) = Within(r) \cup Within(i)
  BY <1>4, WithinConcat
<1>6. /\ lists' \in Seq(Seq(Transactions))
      /\ Within(lists') = Within(r) \cup Within(i) \cup Within(c)
  <2> DEFINE ri == r \o i
  <2>1. ri \in Seq(Seq(Transactions)) /\ Within(ri) = Within(r) \cup Within(i)
    BY <1>5
  <2>2. lists' = ri \o c
    BY <1>3
  <2> HIDE DEF ri
  <2>3. /\ ri \o c \in Seq(Seq(Transactions))
        /\ Within(ri \o c) = Within(ri) \cup Within(c)
    BY <1>4, <2>1, WithinConcat
  <2>4. QED
    BY <2>1, <2>2, <2>3
<1>7. queue' = <<>> /\ ToSet(queue') = {}
  BY <1>1 DEF IndInv, PendingInv, ToSet
<1>8. Pending' = Within(lists')
  BY <1>7 DEF Pending, Within
<1>9. Within(lists') \subseteq Transactions
  BY <1>6 DEF Within, ToSet
<1>10. related' \subseteq Accounts
  BY <1>3, <1>9, RelatedAccounts
<1>11. SharedInv' /\ TypeOK'
  BY <1>1, <1>6, <1>10 DEF IndInv, TypeOK, SharedInv, readers
<1>12. PendingInv'
  BY <1>1, <1>4, <1>6, <1>8 DEF PendingInv, WithinShard
<1>13. ChangedInv'
  <2>1. \A a \in Accounts : changed[a] < commits /\ changed[a] \in Nat /\ commits \in Nat
    BY <1>1, NotAhead DEF IndInv, ChangedInv
  <2>2. {a \in Accounts : changed'[a] = commits'} = {}
    BY <1>1, <2>1
  <2>3. related' = (FindAccountIds(Pending))'
    BY <1>3, <1>8 DEF FindAccountIds, RelatedTo
  <2>4. \A a \in Accounts : changed'[a] <= commits'
    BY <1>1, <2>1
  <2>5. QED
    BY <1>1, <2>2, <2>3, <2>4 DEF ChangedInv
<1>14. ListInv' /\ ListIsNotAhead' /\ RelatedAreChanged'
  BY <1>1 DEF IndInv, ListInv, ListIsNotAhead, RelatedAreChanged, LostRows, readers
<1>15. QED
  BY <1>11, <1>12, <1>13, <1>14 DEF IndInv

LEMMA PanicStep ==
  ASSUME IndInv, UpdatePanics
  PROVE  IndInv'
<1>1. /\ committer = "updating" /\ committer' = "idle"
      /\ UNCHANGED <<struct, maps, height, commits, lists, queue, shard, related, changed, readers,
                    alive>>
  BY DEF UpdatePanics
<1>2. TypeOK' /\ SharedInv'
  BY <1>1 DEF IndInv, TypeOK, SharedInv, maps, readers
<1>3. PendingInv' /\ ChangedInv'
  BY <1>1 DEF IndInv, PendingInv, Pending, Within, WithinShard, ChangedInv
<1>4. ListInv' /\ ListIsNotAhead' /\ RelatedAreChanged'
  BY <1>1 DEF IndInv, ListInv, ListIsNotAhead, RelatedAreChanged, LostRows, readers
<1>5. QED
  BY <1>2, <1>3, <1>4 DEF IndInv

LEMMA EndStep ==
  ASSUME IndInv, EndUpdate
  PROVE  IndInv'
<1>1. /\ committer = "executing" /\ queue = <<>> /\ lists = <<>>
      /\ committer' = "verifying" /\ shard' = 1
      /\ UNCHANGED <<struct, maps, height, commits, lists, queue, related, changed, readers, alive>>
  BY DEF EndUpdate
<1>2. Pending = {} /\ FindAccountIds(Pending) = {}
  BY <1>1 DEF Pending, Within, ToSet, FindAccountIds
<1>3. RelatedAreChanged'
  BY <1>1, <1>2 DEF IndInv, ChangedInv, RelatedAreChanged
<1>4. TypeOK' /\ SharedInv'
  BY <1>1, ConstantsAssumption DEF IndInv, TypeOK, SharedInv, maps, readers, Shards
<1>5. PendingInv' /\ ChangedInv'
  BY <1>1 DEF IndInv, PendingInv, Pending, Within, WithinShard, ChangedInv
<1>6. ListInv' /\ ListIsNotAhead'
  BY <1>1 DEF IndInv, ListInv, ListIsNotAhead, LostRows, readers
<1>7. QED
  BY <1>3, <1>4, <1>5, <1>6 DEF IndInv

\* Replacing a map by itself, with or without a quorum.
LEMMA VerifyStep ==
  ASSUME IndInv, VerifyShard
  PROVE  IndInv'
<1>1. /\ committer = "verifying" /\ committer' \in {"verifying", "idle"}
      /\ UNCHANGED <<struct, newAccountMap, height, commits, lists, queue, related, changed, readers,
                    alive>>
  BY DEF VerifyShard
<1>2. accountMap' = accountMap
  <2>1. PICK q \in BOOLEAN :
          accountMap' = [a \in Accounts |-> IF q /\ ShardOf[a] = shard
                                            THEN newAccountMap[a] ELSE accountMap[a]]
    BY DEF VerifyShard
  <2>2. accountMap \in [Accounts -> Structs] /\ newAccountMap = accountMap
    BY DEF IndInv, TypeOK, SharedInv
  <2>3. QED
    BY <2>1, <2>2
<1>3. shard' \in Shards
  BY ConstantsAssumption DEF VerifyShard, MoreShards, IndInv, TypeOK, Shards
<1>4. TypeOK' /\ SharedInv'
  BY <1>1, <1>2, <1>3 DEF IndInv, TypeOK, SharedInv, readers
<1>5. PendingInv' /\ ChangedInv'
  BY <1>1 DEF IndInv, PendingInv, Pending, Within, WithinShard, ChangedInv
<1>6. ListInv' /\ ListIsNotAhead' /\ RelatedAreChanged'
  BY <1>1 DEF IndInv, ListInv, ListIsNotAhead, RelatedAreChanged, LostRows, readers
<1>7. QED
  BY <1>4, <1>5, <1>6 DEF IndInv

\* Nothing of the commit changes.
LEMMA SameCommit ==
  ASSUME IndInv, UNCHANGED commit
  PROVE  PendingInv' /\ ChangedInv'
<1>1. /\ UNCHANGED <<commits, committer, lists, queue, related, changed>>
      /\ PendingInv /\ ChangedInv
  BY DEF commit, IndInv
<1>2. Pending' = Pending
  BY <1>1 DEF Pending, Within
<1>3. PendingInv'
  BY <1>1, <1>2 DEF PendingInv, WithinShard
<1>4. ChangedInv'
  BY <1>1, <1>2 DEF ChangedInv, FindAccountIds, RelatedTo
<1>5. QED
  BY <1>3, <1>4

\* A step that leaves the commit and the readers alone: the process ends.
LEMMA EndOfProcess ==
  ASSUME IndInv, UNCHANGED <<struct, maps, commit, readers>>, alive' \in BOOLEAN
  PROVE  IndInv'
<1>1. TypeOK' /\ SharedInv'
  BY DEF IndInv, TypeOK, SharedInv, maps, commit, readers
<1>2. PendingInv' /\ ChangedInv'
  BY SameCommit DEF IndInv
<1>3. ListInv' /\ ListIsNotAhead' /\ RelatedAreChanged'
  BY DEF IndInv, ListInv, ListIsNotAhead, RelatedAreChanged, LostRows, commit, readers
<1>4. QED
  BY <1>1, <1>2, <1>3 DEF IndInv

-----------------------------------------------------------------------------
(* The steps of PackAccount.                                               *)

LEMMA ReaderStep ==
  ASSUME IndInv, UNCHANGED <<struct, maps, commit, alive>>,
         ListInv', ListIsNotAhead',
         reader' \in [Readers -> {"idle", "listing"}],
         left' \in [Readers -> SUBSET Accounts],
         list' \in [Readers -> [Accounts -> 0..MaxHeight]],
         answer' \in [Readers -> (0..MaxHeight) \cup {NotRead}]
  PROVE  IndInv'
<1>1. TypeOK' /\ SharedInv'
  BY DEF IndInv, TypeOK, SharedInv, maps, commit
<1>2. PendingInv' /\ ChangedInv'
  BY SameCommit DEF IndInv
<1>3. RelatedAreChanged'
  BY DEF IndInv, RelatedAreChanged, commit
<1>4. QED
  BY <1>1, <1>2, <1>3 DEF IndInv

LEMMA StartStep ==
  ASSUME IndInv, NEW r \in Readers, StartList(r)
  PROVE  IndInv'
<1>1. /\ reader[r] = "idle"
      /\ reader' = [reader EXCEPT ![r] = "listing"] /\ left' = [left EXCEPT ![r] = Accounts]
      /\ UNCHANGED <<struct, maps, commit, list, answer, alive>>
  BY DEF StartList
<1>2. commits' = commits /\ LostRows' = LostRows
  BY <1>1 DEF commit, LostRows
<1>3. answer[r] = NotRead
  BY <1>1 DEF IndInv, ListInv
<1>4. ListInv' /\ ListIsNotAhead'
  BY <1>1, <1>2, <1>3 DEF IndInv, TypeOK, ListInv, ListIsNotAhead
<1>5. QED
  BY <1>1, <1>4, ReaderStep DEF IndInv, TypeOK

LEMMA CopyStep ==
  ASSUME IndInv, NEW r \in Readers, Copy(r)
  PROVE  IndInv'
<1>1. PICK a \in left[r] : /\ list' = [list EXCEPT ![r][a] = changed[a]]
                           /\ left' = [left EXCEPT ![r] = @ \ {a}]
  BY DEF Copy
<1>2. UNCHANGED <<struct, maps, commit, reader, answer, alive>>
  BY DEF Copy
<1>3. a \in Accounts /\ answer[r] = NotRead
  BY <1>1 DEF IndInv, TypeOK, ListInv
<1>4. commits' = commits /\ LostRows' = LostRows
  BY <1>2 DEF commit, LostRows
<1>5. /\ list' \in [Readers -> [Accounts -> 0..MaxHeight]]
      /\ left' \in [Readers -> SUBSET Accounts]
  BY <1>1, <1>3 DEF IndInv, TypeOK
<1>6. \A q \in Readers, b \in Accounts :
        list'[q][b] = IF q = r /\ b = a THEN changed[a] ELSE list[q][b]
  BY <1>1, <1>3 DEF IndInv, TypeOK
<1>7. ListInv' /\ ListIsNotAhead'
  <2>1. changed[a] <= commits
    BY <1>3, NotAhead
  <2>2. \A q \in Readers : q # r => left'[q] = left[q]
    BY <1>1 DEF IndInv, TypeOK
  <2>3. ListInv'
    BY <1>2, <1>3, <1>4, <1>6, <2>1, <2>2 DEF IndInv, ListInv
  <2>4. QED
    BY <2>3 DEF ListInv, ListIsNotAhead
<1>8. QED
  BY <1>2, <1>5, <1>7, ReaderStep DEF IndInv, TypeOK

LEMMA HeightStep ==
  ASSUME IndInv, NEW r \in Readers, ReadHeight(r)
  PROVE  IndInv'
<1>1. /\ answer[r] = NotRead /\ reader[r] = "listing" /\ left[r] = {}
      /\ answer' = [answer EXCEPT ![r] = height]
      /\ UNCHANGED <<struct, maps, commit, reader, left, list, alive>>
  BY DEF ReadHeight, ListIsComplete
<1>2. commits' = commits /\ LostRows' = LostRows /\ LostRows = commits - height
  BY <1>1 DEF commit, LostRows
<1>3. ListInv'
  <2>1. \A q \in Readers : answer'[q] = IF q = r THEN height ELSE answer[q]
    BY <1>1 DEF IndInv, TypeOK
  <2>2. height + LostRows = commits
    BY <1>2, NotAhead
  <2>3. QED
    BY <1>1, <1>2, <2>1, <2>2 DEF IndInv, ListInv
<1>4. ListIsNotAhead'
  BY <1>3 DEF ListInv, ListIsNotAhead
<1>5. answer' \in [Readers -> (0..MaxHeight) \cup {NotRead}]
  BY <1>1, NotAhead, ConstantsAssumption DEF IndInv, TypeOK
<1>6. QED
  BY <1>1, <1>3, <1>4, <1>5, ReaderStep DEF IndInv, TypeOK

-----------------------------------------------------------------------------
(* The invariant.                                                          *)

LEMMA InitInv ==
  ASSUME Init
  PROVE  IndInv
<1>1. /\ <<>> \in Seq(Transactions) /\ <<>> \in Seq(Seq(Transactions))
      /\ 1 \in Shards /\ 0 \in 0..MaxHeight /\ 0 \in 0..0
  BY ConstantsAssumption DEF Shards
<1>2. /\ [x \in Structs |-> InitialValue] \in [Structs -> Int]
      /\ [a \in Accounts |-> <<a, 1>>] \in [Accounts -> Structs]
  BY ConstantsAssumption DEF Structs
<1>3. TypeOK
  BY <1>1, <1>2 DEF Init, TypeOK
<1>4. Pending = {}
  BY DEF Init, Pending, Within, ToSet
<1>5. SharedInv /\ PendingInv
  BY <1>4 DEF Init, SharedInv, PendingInv
<1>6. ChangedInv /\ ListInv /\ RelatedAreChanged /\ ListIsNotAhead
  BY DEF Init, ChangedInv, ListInv, RelatedAreChanged, ListIsNotAhead, LostRows
<1>7. QED
  BY <1>3, <1>5, <1>6 DEF IndInv

LEMMA QuietStep ==
  ASSUME IndInv, UNCHANGED vars
  PROVE  IndInv'
BY EndOfProcess DEF vars, IndInv, TypeOK

LEMMA NextInv ==
  ASSUME IndInv, Next
  PROVE  IndInv'
<1>1. CASE InsertRow
  BY <1>1, InsertStep
<1>2. CASE Update
  BY <1>2, UpdateStep
<1>3. CASE NextList
  BY <1>3, NextListStep
<1>4. CASE ExcuteRelay
  BY <1>4, RelayStep
<1>5. CASE ExcuteCross
  BY <1>5, CrossStep
<1>6. CASE Debit
  BY <1>6, DebitStep
<1>7. CASE Credit
  BY <1>7, CreditStep
<1>8. CASE Fatal
  BY <1>8, EndOfProcess DEF Fatal
<1>9. CASE EndUpdate
  BY <1>9, EndStep
<1>10. CASE VerifyShard
  BY <1>10, VerifyStep
<1>11. CASE MapRace
  BY <1>11, EndOfProcess DEF MapRace
<1>12. ASSUME NEW r \in Readers, StartList(r)
       PROVE  IndInv'
  BY <1>12, StartStep
<1>13. ASSUME NEW r \in Readers, Copy(r)
       PROVE  IndInv'
  BY <1>13, CopyStep
<1>14. ASSUME NEW r \in Readers, ReadHeight(r)
       PROVE  IndInv'
  BY <1>14, HeightStep
<1>15. CASE UpdatePanics
  BY <1>15, PanicStep
<1>16. QED
  BY <1>1, <1>2, <1>3, <1>4, <1>5, <1>6, <1>7, <1>8, <1>9, <1>10, <1>11, <1>12, <1>13, <1>14, <1>15
     DEF Next, Execute

LEMMA Invariance == Spec => []IndInv
<1>1. IndInv /\ [Next]_vars => IndInv'
  BY NextInv, QuietStep
<1>2. QED
  BY <1>1, InitInv, PTL DEF Spec

(* The variables keep their types, and a transfer that is half executed is at the
   head of its list (state.go, UpdateAccount and PackAccount). *)
THEOREM AccountsTypeCorrect == Spec => []TypeOK
<1>1. IndInv => TypeOK
  BY DEF IndInv
<1>2. QED
  BY <1>1, Invariance, PTL

(* No client is given a balance of a commit later than the height it is told and
   the rows lost before, and so none newer than the height as long as no row is
   lost: the row is inserted before the execution, and PackAccount asks for the
   height after its loops. *)
THEOREM ListNeverAhead == Spec => []ListIsNotAhead
<1>1. IndInv => ListIsNotAhead
  BY DEF IndInv
<1>2. QED
  BY <1>1, Invariance, PTL

(* When UpdateAccount has returned, the accounts changed in the block are exactly
   those FindAccountIds names for its transactions, whatever the pools held. *)
THEOREM BatchesDeclareChanges == Spec => []RelatedAreChanged
<1>1. IndInv => RelatedAreChanged
  BY DEF IndInv
<1>2. QED
  BY <1>1, Invariance, PTL

-----------------------------------------------------------------------------
(* The refinement.                                                         *)

\* The balances of the structs both maps share.
Real == [a \in Accounts |-> struct[<<a, 1>>]]

LEMMA OldIsReal ==
  ASSUME IndInv
  PROVE  /\ \A a \in Accounts : Old(a) = Real[a] /\ Real[a] \in Int
         /\ committer # "crediting" => Settled = Real
<1>1. \A a \in Accounts : Old(a) = Real[a] /\ Real[a] \in Int
  BY StructOf DEF Real
<1>2. QED
  BY <1>1 DEF Settled, Real

LEMMA SettledNext ==
  ASSUME IndInv'
  PROVE  /\ \A a \in Accounts : Old(a)' = (Real')[a] /\ (Real')[a] \in Int
         /\ committer' # "crediting" => Settled' = Real'
<1>1. /\ \A a \in Accounts : <<a, 1>> \in Structs /\ (accountMap')[a] = <<a, 1>>
      /\ struct' \in [Structs -> Int]
  BY DEF IndInv, TypeOK, SharedInv, Structs
<1>2. \A a \in Accounts : Old(a)' = (Real')[a] /\ (Real')[a] \in Int
  BY <1>1 DEF Old, Real
<1>3. QED
  BY <1>2 DEF Settled, Real

\* What is written to the struct of an account is its balance from then on.
LEMMA WriteReal ==
  ASSUME IndInv, NEW a \in Accounts, NEW v \in Int, Write(a, v)
  PROVE  Real' = [Real EXCEPT ![a] = v]
<1>1. /\ struct' = [struct EXCEPT ![<<a, 1>>] = v]
      /\ struct \in [Structs -> Int]
  BY WriteStep DEF IndInv, TypeOK
<1>2. \A b \in Accounts : struct'[<<b, 1>>] = IF b = a THEN v ELSE struct[<<b, 1>>]
  BY <1>1 DEF Structs
<1>3. QED
  BY <1>2 DEF Real

LEMMA RelayDeposits ==
  ASSUME IndInv, IndInv', ExcuteRelay
  PROVE  B!Next
<1> DEFINE a == Head(queue).to
<1>1. /\ committer = "executing" /\ queue # <<>> /\ committer' = committer
      /\ Write(a, Old(a) + Value)
  BY DEF ExcuteRelay
<1>2. a \in Accounts
  BY <1>1, HeadOfQueue
<1>3. Old(a) = Real[a] /\ Old(a) + Value \in Int
  BY <1>2, OldIsReal DEF Value
<1>4. Real' = [Real EXCEPT ![a] = Old(a) + Value]
  BY <1>1, <1>2, <1>3, WriteReal
<1>5. Settled = Real /\ Settled' = Real'
  BY <1>1, OldIsReal, SettledNext
<1>6. B!Deposit(a)
  BY <1>3, <1>4, <1>5 DEF B!Deposit
<1>7. QED
  BY <1>2, <1>6 DEF B!Next

LEMMA CrossWithdraws ==
  ASSUME IndInv, IndInv', ExcuteCross
  PROVE  B!Next
<1> DEFINE a == Head(queue).from
<1>1. /\ committer = "executing" /\ queue # <<>> /\ committer' = committer
      /\ Write(a, Old(a) - Value)
  BY DEF ExcuteCross
<1>2. a \in Accounts
  BY <1>1, HeadOfQueue
<1>3. Old(a) = Real[a] /\ Old(a) - Value \in Int
  BY <1>2, OldIsReal DEF Value
<1>4. Real' = [Real EXCEPT ![a] = Old(a) - Value]
  BY <1>1, <1>2, <1>3, WriteReal
<1>5. Settled = Real /\ Settled' = Real'
  BY <1>1, OldIsReal, SettledNext
<1>6. B!Withdraw(a)
  BY <1>3, <1>4, <1>5 DEF B!Withdraw
<1>7. QED
  BY <1>2, <1>6 DEF B!Next

\* The debit of a transfer inside of a shard is the whole transfer.
LEMMA DebitTransfers ==
  ASSUME IndInv, IndInv', Debit
  PROVE  B!Next
<1> DEFINE tx == Head(queue)
           a  == tx.from
           b  == tx.to
<1>1. /\ committer = "executing" /\ queue # <<>> /\ committer' = "crediting" /\ queue' = queue
      /\ Write(a, Old(a) - Value) /\ tx.kind = "internal"
  BY DEF Debit
<1>2. a \in Accounts /\ b \in Accounts /\ tx \in Pending
  BY <1>1, HeadOfQueue
<1>3. a # b /\ ShardOf[a] = ShardOf[b]
  BY <1>1, <1>2 DEF IndInv, PendingInv, WithinShard
<1>4. Old(a) = Real[a] /\ Old(a) - Value \in Int
  BY <1>2, OldIsReal DEF Value
<1>5. Real' = [Real EXCEPT ![a] = Old(a) - Value]
  BY <1>1, <1>2, <1>4, WriteReal
<1>6. Settled = Real
  BY <1>1, OldIsReal
<1>7. Settled' = [c \in Accounts |-> IF c = b THEN Old(c)' + Value ELSE Old(c)']
  BY <1>1 DEF Settled
<1>8. \A c \in Accounts : Old(c)' = (Real')[c]
  BY SettledNext
<1>9. Settled' = [c \in Accounts |-> IF c = b THEN (Real')[c] + Value ELSE (Real')[c]]
  BY <1>7, <1>8
<1>10. Settled' = [Real EXCEPT ![a] = @ - Value, ![b] = @ + Value]
  BY <1>2, <1>3, <1>4, <1>5, <1>9 DEF Real
<1>11. B!Transfer(a, b)
  BY <1>3, <1>6, <1>10 DEF B!Transfer
<1>12. QED
  BY <1>2, <1>11 DEF B!Next

\* ... and its credit makes good what is counted already.
LEMMA CreditStutters ==
  ASSUME IndInv, IndInv', Credit
  PROVE  UNCHANGED Settled
<1> DEFINE a == Head(queue).to
<1>1. /\ committer = "crediting" /\ queue # <<>> /\ committer' = "executing"
      /\ Write(a, Old(a) + Value)
  BY DEF Credit, IndInv, TypeOK
<1>2. a \in Accounts
  BY <1>1, HeadOfQueue
<1>3. Old(a) = Real[a] /\ Old(a) + Value \in Int
  BY <1>2, OldIsReal DEF Value
<1>4. Real' = [Real EXCEPT ![a] = Real[a] + Value]
  BY <1>1, <1>2, <1>3, WriteReal
<1>5. Settled = [c \in Accounts |-> IF c = a THEN Real[c] + Value ELSE Real[c]]
  BY <1>1, OldIsReal DEF Settled
<1>6. Settled' = Real'
  BY <1>1, SettledNext
<1>7. QED
  BY <1>2, <1>4, <1>5, <1>6 DEF Real

LEMMA OthersStutter ==
  ASSUME IndInv, IndInv', UNCHANGED struct,
         \/ committer # "crediting" /\ committer' # "crediting"
         \/ UNCHANGED <<committer, queue>>
  PROVE  UNCHANGED Settled
<1>1. Real' = Real
  BY DEF Real
<1>2. CASE committer # "crediting" /\ committer' # "crediting"
  BY <1>1, <1>2, OldIsReal, SettledNext
<1>3. CASE UNCHANGED <<committer, queue>>
  <2>1. \A a \in Accounts : Old(a)' = Old(a)
    BY <1>1, OldIsReal, SettledNext
  <2>2. QED
    BY <1>3, <2>1 DEF Settled
<1>4. QED
  BY <1>2, <1>3

LEMMA StepRefines ==
  ASSUME IndInv, IndInv', [Next]_vars
  PROVE  [B!Next]_Settled
<1>1. CASE ExcuteRelay
  BY <1>1, RelayDeposits
<1>2. CASE ExcuteCross
  BY <1>2, CrossWithdraws
<1>3. CASE Debit
  BY <1>3, DebitTransfers
<1>4. CASE Credit
  BY <1>4, CreditStutters
<1>5. CASE InsertRow \/ Update \/ UpdatePanics \/ NextList \/ EndUpdate
  BY <1>5, OthersStutter DEF InsertRow, Update, UpdatePanics, NextList, EndUpdate
<1>6. CASE VerifyShard
  BY <1>6, OthersStutter DEF VerifyShard
<1>7. CASE Fatal \/ MapRace
  BY <1>7, OthersStutter DEF Fatal, MapRace, commit
<1>8. CASE \E r \in Readers : StartList(r) \/ Copy(r) \/ ReadHeight(r)
  BY <1>8, OthersStutter DEF StartList, Copy, ReadHeight, commit
<1>9. CASE UNCHANGED vars
  BY <1>9, OthersStutter DEF vars, commit
<1>10. QED
  BY <1>1, <1>2, <1>3, <1>4, <1>5, <1>6, <1>7, <1>8, <1>9 DEF Next, Execute

LEMMA InitBalances ==
  ASSUME Init
  PROVE  B!Init
<1>1. \A a \in Accounts : Settled[a] = InitialValue
  BY DEF Init, Settled, Old, Structs
<1>2. QED
  BY <1>1 DEF B!Init

(* Execution changes balances by whole transactions, one at a time: writing through
   NewAccountMap is writing to the structs AccountMap shows, so that no update is
   lost when an account has several transactions in a block. *)
THEOREM ExecutionByTransactions == Spec => ImplementsBalances
<1>1. IndInv /\ IndInv' /\ [Next]_vars => [B!Next]_Settled
  BY StepRefines
<1>2. QED
  BY <1>1, Invariance, InitBalances, PTL DEF Spec, ImplementsBalances, B!Spec
=============================================================================
