--------------------------- MODULE RootVotesProofs ---------------------------
(***************************************************************************)
(* Proofs about the state roots, for any number of shards and clients and  *)
(* any quorum.                                                             *)
(***************************************************************************)
EXTENDS RootVotes, FiniteSetTheorems, TLAPS

LEMMA Quorums == RootQuorum \in Nat \ {0} /\ VerifyQuorum = RootQuorum
<1>1. ClientMax \in Nat /\ ClientMax >= 2
  BY ConstantsAssumption
<1>2. RootQuorum \in Nat /\ RootQuorum >= 1
  BY <1>1 DEF RootQuorum
<1>3. QED
  BY <1>2 DEF RootQuorum, VerifyQuorum

LEMMA ShardOfClient == \A c \in Clients : ShardOf[c] \in Shards
  BY ConstantsAssumption

LEMMA UploadFields ==
  \A u \in Uploads : u.height \in 0..MaxHeight /\ u.root \in Roots /\ u.num \in Nat
  BY ConstantsAssumption DEF Uploads

LEMMA NoQuorumOfNone == ~HasQuorum(NoVotes, RootQuorum)
  BY Quorums DEF HasQuorum, NoVotes

-----------------------------------------------------------------------------
(* Initial states.                                                         *)

LEMMA InitInv == Init => IndInv
<1> SUFFICES ASSUME Init PROVE IndInv
  OBVIOUS
<1>0. ShardNum \in Nat \ {0} /\ MaxHeight \in Nat
  BY ConstantsAssumption
<1>1. TypeOK
  <2>1. zeroLock \in BOOLEAN
    BY DEF Init
  <2>2. QED
    BY <1>0, <2>1 DEF Init, TypeOK, Shards, NoVotes, NotSeen
<1>2. RequestInv /\ WritingInv /\ VotedInv
  BY ShardOfClient DEF Init, RequestInv, WritingInv, VotedInv
<1>3. PoolInv /\ NumInv
  BY DEF Init, PoolInv, NumInv
<1>4. QuorumInv
  BY NoQuorumOfNone DEF Init, QuorumInv
<1>5. CountInv
  <2> SUFFICES ASSUME NEW s \in Shards, NEW r \in Roots
               PROVE  IsFiniteSet(VotesFor(s, r)) /\ Cardinality(VotesFor(s, r)) = rootsVote[s][r]
    BY DEF CountInv
  <2>1. VotesFor(s, r) = {}
    BY DEF Init, VotesFor
  <2>2. QED
    BY <2>1, FS_EmptySet DEF Init, NoVotes
<1>6. SeenInv
  BY <1>0 DEF Init, SeenInv, Verified, Shards
<1>7. NoRowInv
  BY DEF Init, NoRowInv
<1>8. QED
  BY <1>1, <1>2, <1>3, <1>4, <1>5, <1>6, <1>7 DEF IndInv

-----------------------------------------------------------------------------
(* CollectRoot.                                                            *)

LEMMA UploadInv ==
  ASSUME IndInv, NEW c \in Clients, Upload(c)
  PROVE  IndInv'
<1> USE DEF IndInv
<1> PICK u \in Uploads : u.height = height /\ request' = [request EXCEPT ![c] = u]
  BY DEF Upload
<1>0. /\ sent' = [sent EXCEPT ![c] = height + 1] /\ pc' = [pc EXCEPT ![c] = "waiting"]
      /\ pc[c] = "idle" /\ sent[c] <= height /\ height < MaxHeight
      /\ UNCHANGED <<zeroLock, lock, round, pool, commit, alive>>
  BY DEF Upload
<1>t. /\ height \in 0..MaxHeight /\ MaxHeight \in Nat
      /\ sent \in [Clients -> 0..(MaxHeight + 1)]
      /\ pc \in [Clients -> {"idle", "waiting", "writing"}]
      /\ request \in [Clients -> Uploads \cup {NoUpload}]
      /\ voted \in [Shards -> SUBSET (Clients \X (0..MaxHeight) \X Roots)]
  BY ConstantsAssumption DEF TypeOK
<1>1. TypeOK'
  BY <1>0, <1>t DEF TypeOK, round, commit
<1>2. RequestInv'
  BY <1>0, <1>t DEF RequestInv
<1>3. WritingInv'
  BY <1>0, <1>t DEF WritingInv, round
<1>4. VotedInv'
  <2> SUFFICES ASSUME NEW s \in Shards, NEW v \in voted[s]
               PROVE  v[2] < sent'[v[1]] /\ (pc'[v[1]] = "waiting" => v[2] < request'[v[1]].height)
    BY <1>0 DEF VotedInv, round
  <2>0. v[1] \in Clients /\ v[2] \in Nat /\ v[2] < sent[v[1]]
    BY <1>t DEF VotedInv
  <2>1. CASE v[1] = c
    BY <1>0, <1>t, <2>0, <2>1
  <2>2. CASE v[1] # c
    BY <1>0, <1>t, <2>0, <2>2 DEF VotedInv
  <2>3. QED
    BY <2>1, <2>2
<1>5. PoolInv' /\ NumInv' /\ QuorumInv' /\ SeenInv'
  BY <1>0 DEF PoolInv, NumInv, QuorumInv, SeenInv, Verified, round, commit, HasQuorum
<1>6. CountInv'
  BY <1>0 DEF CountInv, VotesFor, round
<1>7. NoRowInv'
  BY <1>0 DEF NoRowInv, commit
<1>8. QED
  BY <1>1, <1>2, <1>3, <1>4, <1>5, <1>6, <1>7

OneMore(s, r) ==
  [rootsVote EXCEPT ![s] = [rootsVote[s] EXCEPT ![r] = rootsVote[s][r] + 1]]

Ballot(c) == <<c, request[c].height, request[c].root>>

\* What a vote does: one more for one root of one shard.
LEMMA VoteCounts ==
  ASSUME IndInv, NEW c \in Clients, Vote(c)
  PROVE  /\ request[c] \in Uploads /\ pc[c] = "waiting" /\ lock[ShardOf[c]] = NoClient
         /\ rootsVote' = OneMore(ShardOf[c], request[c].root)
         /\ voted' = [voted EXCEPT ![ShardOf[c]] = voted[ShardOf[c]] \cup {Ballot(c)}]
         /\ Ballot(c) \notin voted[ShardOf[c]]
<1>1. request[c] \in Uploads /\ pc[c] = "waiting" /\ lock[ShardOf[c]] = NoClient
  BY DEF IndInv, RequestInv, Vote, CanVote
<1>2. /\ rootsVote' = OneMore(ShardOf[c], request[c].root)
      /\ voted' = [voted EXCEPT ![ShardOf[c]] = @ \cup {Ballot(c)}]
  BY DEF Vote, OneMore, Ballot
<1>3. Ballot(c) \notin voted[ShardOf[c]]
  <2> SUFFICES ASSUME Ballot(c) \in voted[ShardOf[c]] PROVE FALSE
    OBVIOUS
  <2>1. request[c].height < request[c].height
    BY <1>1, ShardOfClient DEF IndInv, VotedInv, Ballot
  <2>2. request[c].height \in Nat
    BY <1>1, UploadFields
  <2>3. QED
    BY <2>1, <2>2
<1>4. QED
  BY <1>1, <1>2, <1>3

LEMMA VoteCount ==
  ASSUME IndInv, NEW c \in Clients, Vote(c)
  PROVE  CountInv'
<1> DEFINE q == ShardOf[c]
           x == request[c].root
           v == <<c, request[c].height, x>>
<1>0. q \in Shards /\ request[c] \in Uploads /\ x \in Roots
  BY ShardOfClient, UploadFields DEF IndInv, RequestInv, Vote, CanVote
<1>1. /\ rootsVote' = [rootsVote EXCEPT ![q] = [rootsVote[q] EXCEPT ![x] = rootsVote[q][x] + 1]]
      /\ voted' = [voted EXCEPT ![q] = voted[q] \cup {v}]
      /\ v \notin voted[q]
  BY <1>0, VoteCounts DEF OneMore, Ballot
<1>2. /\ voted \in [Shards -> SUBSET (Clients \X (0..MaxHeight) \X Roots)]
      /\ rootsVote \in [Shards -> [Roots -> Nat]]
  BY DEF IndInv, TypeOK
<1> SUFFICES ASSUME NEW s \in Shards, NEW r \in Roots
             PROVE  /\ IsFiniteSet(VotesFor(s, r)')
                    /\ Cardinality(VotesFor(s, r)') = rootsVote'[s][r]
  BY DEF CountInv
<1>3. IsFiniteSet(VotesFor(s, r)) /\ Cardinality(VotesFor(s, r)) = rootsVote[s][r]
  BY DEF IndInv, CountInv
<1>4. CASE s = q /\ r = x
  <2>1. VotesFor(s, r)' = VotesFor(s, r) \cup {v}
    BY <1>0, <1>1, <1>2, <1>4 DEF VotesFor
  <2>2. v \notin VotesFor(s, r)
    BY <1>1, <1>4 DEF VotesFor
  <2>3. /\ IsFiniteSet(VotesFor(s, r)')
        /\ Cardinality(VotesFor(s, r)') = Cardinality(VotesFor(s, r)) + 1
    BY <1>3, <2>1, <2>2, FS_AddElement
  <2>4. rootsVote'[s][r] = rootsVote[s][r] + 1
    BY <1>0, <1>1, <1>2, <1>4
  <2>5. QED
    BY <1>3, <2>3, <2>4
<1>5. CASE s # q \/ r # x
  <2>1. VotesFor(s, r)' = VotesFor(s, r)
    BY <1>0, <1>1, <1>2, <1>5 DEF VotesFor
  <2>2. rootsVote'[s][r] = rootsVote[s][r]
    BY <1>0, <1>1, <1>2, <1>5
  <2>3. QED
    BY <1>3, <2>1, <2>2
<1>6. QED
  BY <1>4, <1>5

\* Where a vote leads: to the writing, or back to the client.
LEMMA VoteEnds ==
  ASSUME IndInv, NEW c \in Clients, Vote(c), NEW q, q = ShardOf[c]
  PROVE  /\ UNCHANGED <<sent, txNum, validEnd, mark, zeroLock, pool, commit, alive>>
         /\ \/ /\ ~validEnd[q] /\ HasQuorum(rootsVote'[q], RootQuorum)
               /\ lock' = [lock EXCEPT ![q] = c]
               /\ pc' = [pc EXCEPT ![c] = "writing"]
               /\ UNCHANGED request
            \/ /\ validEnd[q] \/ ~HasQuorum(rootsVote'[q], RootQuorum)
               /\ pc' = [pc EXCEPT ![c] = "idle"]
               /\ request' = [request EXCEPT ![c] = NoUpload]
               /\ UNCHANGED lock
  BY DEF Vote, Return

\* A root that gets the quorum is the one just voted for.
LEMMA QuorumIsOfTheVote ==
  ASSUME IndInv, NEW c \in Clients, Vote(c),
         ~validEnd[ShardOf[c]], HasQuorum(rootsVote'[ShardOf[c]], RootQuorum)
  PROVE  rootsVote'[ShardOf[c]][request[c].root] >= RootQuorum
<1> DEFINE q == ShardOf[c]
           x == request[c].root
<1>0. q \in Shards /\ request[c] \in Uploads /\ x \in Roots
  BY ShardOfClient, UploadFields DEF IndInv, RequestInv, Vote, CanVote
<1>1. /\ lock[q] = NoClient
      /\ rootsVote' = [rootsVote EXCEPT ![q] = [rootsVote[q] EXCEPT ![x] = rootsVote[q][x] + 1]]
  BY <1>0, VoteCounts DEF OneMore, Ballot
<1>2. rootsVote \in [Shards -> [Roots -> Nat]]
  BY DEF IndInv, TypeOK
<1>3. ~HasQuorum(rootsVote[q], RootQuorum)
  BY <1>0, <1>1 DEF IndInv, QuorumInv
<1>4. PICK r \in Roots : rootsVote'[q][r] >= RootQuorum
  BY DEF HasQuorum
<1>5. r = x
  BY <1>0, <1>1, <1>2, <1>3, <1>4 DEF HasQuorum
<1>6. QED
  BY <1>4, <1>5

LEMMA VoteInv ==
  ASSUME IndInv, NEW c \in Clients, Vote(c)
  PROVE  IndInv'
<1> USE DEF IndInv
<1> DEFINE q == ShardOf[c]
           x == request[c].root
           h == request[c].height
<1>0. /\ q \in Shards /\ request[c] \in Uploads /\ pc[c] = "waiting" /\ lock[q] = NoClient
      /\ x \in Roots /\ h \in 0..MaxHeight
  BY ShardOfClient, UploadFields DEF RequestInv, Vote, CanVote
<1>1. /\ rootsVote' = [rootsVote EXCEPT ![q] = [rootsVote[q] EXCEPT ![x] = rootsVote[q][x] + 1]]
      /\ voted' = [voted EXCEPT ![q] = voted[q] \cup {<<c, h, x>>}]
  BY <1>0, VoteCounts DEF OneMore, Ballot
<1>2. /\ UNCHANGED <<sent, txNum, validEnd, mark, zeroLock, pool, commit, alive>>
      /\ \/ /\ ~validEnd[q] /\ HasQuorum(rootsVote'[q], RootQuorum)
            /\ lock' = [lock EXCEPT ![q] = c]
            /\ pc' = [pc EXCEPT ![c] = "writing"]
            /\ UNCHANGED request
         \/ /\ validEnd[q] \/ ~HasQuorum(rootsVote'[q], RootQuorum)
            /\ pc' = [pc EXCEPT ![c] = "idle"]
            /\ request' = [request EXCEPT ![c] = NoUpload]
            /\ UNCHANGED lock
  BY <1>0, VoteEnds
<1>t. /\ pc \in [Clients -> {"idle", "waiting", "writing"}]
      /\ request \in [Clients -> Uploads \cup {NoUpload}]
      /\ lock \in [Shards -> Clients \cup {NoClient}]
      /\ rootsVote \in [Shards -> [Roots -> Nat]]
      /\ voted \in [Shards -> SUBSET (Clients \X (0..MaxHeight) \X Roots)]
  BY DEF TypeOK
<1>3. TypeOK'
  <2>1. rootsVote' \in [Shards -> [Roots -> Nat]]
    BY <1>0, <1>1, <1>t
  <2>2. voted' \in [Shards -> SUBSET (Clients \X (0..MaxHeight) \X Roots)]
    BY <1>0, <1>1, <1>t
  <2>3. /\ pc' \in [Clients -> {"idle", "waiting", "writing"}]
        /\ request' \in [Clients -> Uploads \cup {NoUpload}]
        /\ lock' \in [Shards -> Clients \cup {NoClient}]
    BY <1>0, <1>2, <1>t
  <2>4. QED
    BY <1>2, <2>1, <2>2, <2>3 DEF TypeOK, commit
<1>4. RequestInv'
  BY <1>0, <1>2, <1>t DEF RequestInv
<1>5. \A s \in Shards, r \in Roots : rootsVote'[s][r] >= rootsVote[s][r]
  BY <1>0, <1>1, <1>t
<1>6. WritingInv'
  <2> SUFFICES ASSUME NEW d \in Clients, pc'[d] = "writing"
               PROVE  /\ lock'[ShardOf[d]] = d /\ ~validEnd[ShardOf[d]]
                      /\ rootsVote'[ShardOf[d]][request'[d].root] >= RootQuorum
    BY <1>2 DEF WritingInv
  <2>1. CASE d = c
    <3>1. ~validEnd[q] /\ HasQuorum(rootsVote'[q], RootQuorum) /\ lock'[q] = c /\ UNCHANGED request
      BY <1>0, <1>2, <1>t, <2>1
    <3>2. QED
      BY <1>0, <2>1, <3>1, QuorumIsOfTheVote
  <2>2. CASE d # c
    <3>1. pc[d] = "writing" /\ request'[d] = request[d]
      BY <1>2, <1>t, <2>2
    <3>2. /\ lock[ShardOf[d]] = d /\ ~validEnd[ShardOf[d]]
          /\ rootsVote[ShardOf[d]][request[d].root] >= RootQuorum
      BY <3>1 DEF WritingInv
    <3>3. ShardOf[d] # q /\ ShardOf[d] \in Shards
      BY <1>0, <3>2, ShardOfClient, ConstantsAssumption
    <3>4. lock'[ShardOf[d]] = d /\ rootsVote'[ShardOf[d]] = rootsVote[ShardOf[d]]
      BY <1>1, <1>2, <1>t, <3>2, <3>3
    <3>5. QED
      BY <3>1, <3>2, <3>4
  <2>3. QED
    BY <2>1, <2>2
<1>7. PoolInv' /\ NumInv' /\ SeenInv'
  BY <1>2 DEF PoolInv, NumInv, SeenInv, Verified, commit
<1>8. QuorumInv'
  <2> SUFFICES ASSUME NEW s \in Shards
               PROVE  IF validEnd[s]
                      THEN HasQuorum(rootsVote'[s], RootQuorum)
                      ELSE /\ txNum[s] = 0
                           /\ lock'[s] = NoClient => ~HasQuorum(rootsVote'[s], RootQuorum)
    BY <1>2 DEF QuorumInv
  <2>1. CASE validEnd[s]
    <3>1. PICK r \in Roots : rootsVote[s][r] >= RootQuorum
      BY <2>1 DEF QuorumInv, HasQuorum
    <3>2. rootsVote'[s][r] >= rootsVote[s][r] /\ rootsVote[s][r] \in Nat /\ rootsVote'[s][r] \in Nat
      BY <1>3, <1>5, <1>t DEF TypeOK
    <3>3. QED
      BY <2>1, <3>1, <3>2, Quorums DEF HasQuorum
  <2>2. CASE ~validEnd[s] /\ s = q
    BY <1>0, <1>2, <1>t, <2>2, ConstantsAssumption DEF QuorumInv
  <2>3. CASE ~validEnd[s] /\ s # q
    <3>1. lock'[s] = lock[s] /\ rootsVote'[s] = rootsVote[s]
      BY <1>0, <1>1, <1>2, <1>t, <2>3
    <3>2. QED
      BY <2>3, <3>1 DEF QuorumInv
  <2>4. QED
    BY <2>1, <2>2, <2>3
<1>9. VotedInv'
  <2> SUFFICES ASSUME NEW s \in Shards, NEW v \in voted'[s]
               PROVE  v[2] < sent[v[1]] /\ (pc'[v[1]] = "waiting" => v[2] < request'[v[1]].height)
    BY <1>2 DEF VotedInv
  <2>1. pc'[c] # "waiting" /\ \A d \in Clients \ {c} : pc'[d] = pc[d] /\ request'[d] = request[d]
    BY <1>0, <1>2, <1>t
  <2>2. CASE v \in voted[s]
    <3>1. v[1] \in Clients
      BY <1>t, <2>2
    <3>2. QED
      BY <2>1, <2>2, <3>1 DEF VotedInv
  <2>3. CASE v = <<c, h, x>>
    <3>1. v[1] = c /\ v[2] = h /\ sent[c] = h + 1 /\ h \in Nat
      BY <1>0, <2>3 DEF RequestInv
    <3>2. QED
      BY <2>1, <3>1
  <2>4. QED
    BY <1>0, <1>1, <1>t, <2>2, <2>3
<1>10. NoRowInv'
  BY <1>2 DEF NoRowInv, commit
<1>11. QED
  BY <1>3, <1>4, <1>6, <1>7, <1>8, <1>9, <1>10, VoteCount

LEMMA WriteRelaysInv ==
  ASSUME IndInv, NEW c \in Clients, WriteRelays(c)
  PROVE  IndInv'
<1> USE DEF IndInv
<1> DEFINE q == ShardOf[c]
<1>0. /\ q \in Shards /\ request[c] \in Uploads /\ pc[c] = "writing" /\ request[c].num \in Nat
      /\ lock[q] = c /\ ~validEnd[q] /\ rootsVote[q][request[c].root] >= RootQuorum
  BY ShardOfClient, UploadFields DEF RequestInv, WritingInv, WriteRelays
<1>1. /\ pool' = [pool EXCEPT ![q] = Append(pool[q], request[c])]
      /\ txNum' = [txNum EXCEPT ![q] = txNum[q] + request[c].num]
      /\ validEnd' = [validEnd EXCEPT ![q] = TRUE]
      /\ lock' = [lock EXCEPT ![q] = NoClient]
      /\ pc' = [pc EXCEPT ![c] = "idle"]
      /\ request' = [request EXCEPT ![c] = NoUpload]
      /\ UNCHANGED <<sent, rootsVote, voted, mark, zeroLock, commit, alive>>
  BY DEF WriteRelays, Unlocked, Return
<1>t. /\ pc \in [Clients -> {"idle", "waiting", "writing"}]
      /\ request \in [Clients -> Uploads \cup {NoUpload}]
      /\ lock \in [Shards -> Clients \cup {NoClient}]
      /\ txNum \in [Shards -> Nat] /\ validEnd \in [Shards -> BOOLEAN]
      /\ pool \in [Shards -> Seq(Uploads)] /\ mark \in [Shards -> Nat]
      /\ rootsVote \in [Shards -> [Roots -> Nat]]
      /\ voted \in [Shards -> SUBSET (Clients \X (0..MaxHeight) \X Roots)]
  BY DEF TypeOK
<1>2. TypeOK'
  <2>1. pool' \in [Shards -> Seq(Uploads)] /\ txNum' \in [Shards -> Nat]
    BY <1>0, <1>1, <1>t
  <2>2. /\ pc' \in [Clients -> {"idle", "waiting", "writing"}]
        /\ request' \in [Clients -> Uploads \cup {NoUpload}]
        /\ lock' \in [Shards -> Clients \cup {NoClient}]
        /\ validEnd' \in [Shards -> BOOLEAN]
    BY <1>1, <1>t
  <2>3. QED
    BY <1>1, <2>1, <2>2 DEF TypeOK, commit
<1>3. RequestInv'
  BY <1>1, <1>t DEF RequestInv
<1>4. WritingInv'
  <2> SUFFICES ASSUME NEW d \in Clients, pc'[d] = "writing"
               PROVE  /\ lock'[ShardOf[d]] = d /\ ~validEnd'[ShardOf[d]]
                      /\ rootsVote[ShardOf[d]][request'[d].root] >= RootQuorum
    BY <1>1 DEF WritingInv
  <2>1. d # c /\ pc[d] = "writing" /\ request'[d] = request[d]
    BY <1>1, <1>t
  <2>2. /\ lock[ShardOf[d]] = d /\ ~validEnd[ShardOf[d]]
        /\ rootsVote[ShardOf[d]][request[d].root] >= RootQuorum
    BY <2>1 DEF WritingInv
  <2>3. ShardOf[d] # q /\ ShardOf[d] \in Shards
    BY <1>0, <2>1, <2>2, ShardOfClient
  <2>4. lock'[ShardOf[d]] = d /\ ~validEnd'[ShardOf[d]]
    BY <1>1, <1>t, <2>2, <2>3
  <2>5. QED
    BY <2>1, <2>2, <2>4
<1>5. \A s \in Shards \ {q} :
        /\ pool'[s] = pool[s] /\ txNum'[s] = txNum[s] /\ validEnd'[s] = validEnd[s]
        /\ lock'[s] = lock[s]
  BY <1>1, <1>t
<1>6. Len(pool'[q]) = Len(pool[q]) + 1 /\ Len(pool[q]) \in Nat /\ validEnd'[q]
  BY <1>0, <1>1, <1>t
<1>7. PoolInv'
  <2>1. Len(pool[q]) = mark[q]
    BY <1>0, <1>t DEF PoolInv
  <2>2. Len(pool'[q]) = mark[q] + 1
    BY <1>0, <1>6, <1>t, <2>1
  <2>3. QED
    BY <1>1, <1>5, <1>6, <2>2 DEF PoolInv
<1>14. NumInv'
  <2>1. txNum'[q] = request[c].num /\ pool'[q][Len(pool'[q])] = request[c]
    BY <1>0, <1>1, <1>t DEF QuorumInv
  <2>2. QED
    BY <1>5, <2>1 DEF NumInv
<1>8. SeenInv'
  <2>1. \A s \in Shards : Verified(s)' <=> Verified(s)
    BY <1>1 DEF Verified, commit
  <2>2. Verified(q) => seen[q].writes < Len(pool'[q])
    BY <1>0, <1>6 DEF SeenInv, TypeOK
  <2>3. seen[q].writes \in Nat /\ Len(pool'[q]) \in Nat
    BY <1>0, <1>6 DEF TypeOK
  <2>4. QED
    BY <1>1, <1>5, <2>1, <2>2, <2>3 DEF SeenInv, commit
<1>9. QuorumInv'
  <2>1. HasQuorum(rootsVote[q], RootQuorum)
    BY <1>0, UploadFields DEF HasQuorum
  <2>2. QED
    BY <1>1, <1>5, <1>6, <2>1 DEF QuorumInv, HasQuorum
<1>10. VotedInv'
  <2>1. \A s \in Shards : \A v \in voted[s] : v[1] \in Clients
    BY <1>t
  <2>2. \A d \in Clients : pc'[d] = "waiting" => pc[d] = "waiting" /\ request'[d] = request[d]
    BY <1>1, <1>t
  <2>3. QED
    BY <1>1, <2>1, <2>2 DEF VotedInv
<1>11. CountInv'
  BY <1>1 DEF CountInv, VotesFor
<1>12. NoRowInv'
  BY <1>1 DEF NoRowInv, commit
<1>13. QED
  BY <1>12, <1>14, <1>2, <1>3, <1>4, <1>7, <1>8, <1>9, <1>10, <1>11

-----------------------------------------------------------------------------
(* The committer.                                                          *)

\* Steps of the committer that leave uploads, rounds and pools alone.
LEMMA CommitterFrame ==
  ASSUME IndInv, UNCHANGED <<handlers, lock, round, pool>>
  PROVE  /\ RequestInv' /\ WritingInv' /\ PoolInv' /\ NumInv'
         /\ QuorumInv' /\ VotedInv' /\ CountInv'
<1> USE DEF IndInv, handlers, round
<1>1. RequestInv' /\ WritingInv' /\ PoolInv' /\ NumInv' /\ VotedInv'
  BY DEF RequestInv, WritingInv, PoolInv, NumInv, VotedInv
<1>2. QuorumInv'
  BY DEF QuorumInv, HasQuorum
<1>3. CountInv'
  BY DEF CountInv, VotesFor
<1>4. QED
  BY <1>1, <1>2, <1>3

LEMMA CommitterInv ==
  ASSUME IndInv, Commit \/ CommitPanics \/ VerifyShard \/ MapRace \/ AddTotal
  PROVE  IndInv'
<1> USE DEF handlers, round
<1>n. ShardNum \in Nat \ {0} /\ MaxHeight \in Nat
  BY ConstantsAssumption
<1>0. UNCHANGED <<handlers, lock, round, pool>>
  BY DEF Commit, CommitPanics, VerifyShard, MapRace, AddTotal
<1>t. /\ TypeOK /\ shard \in Nat \ {0} /\ num \in Nat /\ totalTxNum \in Nat /\ height \in 0..MaxHeight
  BY <1>n DEF IndInv, TypeOK
<1>1. TypeOK' /\ SeenInv'
  <2>1. CASE Commit
    <3>1. /\ height' \in 0..MaxHeight /\ committer' = "verifying" /\ shard' = 1
          /\ UNCHANGED <<num, totalTxNum, seen, alive>>
      BY <1>n, <1>t, <2>1 DEF Commit
    <3>2. 1 \in 1..(ShardNum + 1)
      BY <1>n
    <3>3. TypeOK'
      BY <1>0, <1>t, <3>1, <3>2 DEF TypeOK
    <3>4. \A s \in Shards : ~Verified(s)'
      BY <1>n, <3>1 DEF Verified, Shards
    <3>5. QED
      BY <3>3, <3>4 DEF SeenInv
  <2>2. CASE CommitPanics
    <3>0. shard = 1 /\ 1 \in 1..ShardNum
      BY <1>n, <2>2 DEF CommitPanics, IndInv, NoRowInv
    <3>1. TypeOK'
      BY <1>0, <1>n, <1>t, <2>2, <3>0 DEF TypeOK, CommitPanics
    <3>2. \A s \in Shards : ~Verified(s)'
      BY <2>2 DEF Verified, CommitPanics
    <3>3. QED
      BY <3>1, <3>2 DEF SeenInv
  <2>3. CASE VerifyShard
    <3> DEFINE added == IF HasQuorum(rootsVote[shard], VerifyQuorum) THEN txNum[shard] ELSE 0
    <3>1. /\ shard \in Shards /\ shard' = shard + 1 /\ committer = "verifying" /\ committer' = committer
          /\ seen' = [seen EXCEPT ![shard] = [added |-> added, writes |-> Len(pool[shard])]]
          /\ num' = num + added
          /\ UNCHANGED <<height, totalTxNum, alive>>
      BY <1>t, <2>3 DEF VerifyShard, Shards
    <3>2. txNum[shard] \in Nat /\ Len(pool[shard]) \in Nat /\ added \in Nat
      BY <1>t, <3>1 DEF TypeOK
    <3>3. TypeOK'
      <4>1. seen' \in [Shards -> [added : Nat, writes : Nat]]
        BY <1>t, <3>1, <3>2 DEF TypeOK
      <4>2. shard' \in 1..(ShardNum + 1)
        BY <1>n, <3>1 DEF Shards
      <4>3. num' \in Nat
        BY <1>t, <3>1, <3>2
      <4>4. QED
        BY <1>0, <1>t, <3>1, <4>1, <4>2, <4>3 DEF TypeOK
    <3>4. added = txNum[shard]
      BY <3>1, Quorums DEF IndInv, QuorumInv
    <3>5. seen'[shard].writes = Len(pool[shard]) /\ seen'[shard].added = txNum[shard]
      BY <1>t, <3>1, <3>4 DEF TypeOK
    <3>6. \A s \in Shards \ {shard} : seen'[s] = seen[s] /\ (Verified(s)' => Verified(s))
      BY <1>t, <3>1 DEF TypeOK, Verified, Shards
    <3>7. SeenInv'
      BY <1>0, <3>2, <3>5, <3>6 DEF IndInv, SeenInv
    <3>8. QED
      BY <3>3, <3>7
  <2>4. CASE MapRace
    BY <1>t, <2>4 DEF IndInv, TypeOK, SeenInv, Verified, MapRace, commit
  <2>5. CASE AddTotal
    <3>1. TypeOK'
      BY <1>n, <1>t, <2>5 DEF TypeOK, AddTotal
    <3>2. \A s \in Shards : Verified(s)
      BY <1>n, <1>t, <2>5 DEF AddTotal, Verified, Shards
    <3>3. SeenInv'
      BY <2>5, <3>2 DEF IndInv, SeenInv, AddTotal
    <3>4. QED
      BY <3>1, <3>3
  <2>6. QED
    BY <2>1, <2>2, <2>3, <2>4, <2>5
<1>2. NoRowInv'
  BY <1>t DEF IndInv, NoRowInv, Commit, CommitPanics, VerifyShard, MapRace, AddTotal, commit
<1>3. QED
  BY <1>0, <1>1, <1>2, CommitterFrame DEF IndInv

\* The lock of shard 0 is nobody's business.
LEMMA StrayInv ==
  ASSUME IndInv, StrayPanics
  PROVE  IndInv'
<1>1. zeroLock' = TRUE /\ UNCHANGED <<sent, pc, request, lock, round, pool, commit, alive>>
  BY DEF StrayPanics
<1>2. zeroLock' \in BOOLEAN
  BY <1>1
<1>3. TypeOK' /\ SeenInv' /\ NoRowInv'
  BY <1>1, <1>2 DEF IndInv, TypeOK, SeenInv, NoRowInv, Verified, round, commit
<1>4. RequestInv' /\ WritingInv' /\ PoolInv' /\ NumInv' /\ VotedInv'
  BY <1>1 DEF IndInv, RequestInv, WritingInv, PoolInv, NumInv, VotedInv, round
<1>5. QuorumInv' /\ CountInv'
  BY <1>1 DEF IndInv, QuorumInv, HasQuorum, CountInv, VotesFor, round
<1>6. QED
  BY <1>3, <1>4, <1>5 DEF IndInv

LEMMA ResetInv ==
  ASSUME IndInv, ResetShard
  PROVE  IndInv'
<1> USE DEF IndInv
<1>n. ShardNum \in Nat \ {0}
  BY ConstantsAssumption
<1>0. /\ committer = "resetting" /\ lock[shard] = NoClient
      /\ rootsVote' = [rootsVote EXCEPT ![shard] = NoVotes]
      /\ txNum' = [txNum EXCEPT ![shard] = 0]
      /\ validEnd' = [validEnd EXCEPT ![shard] = FALSE]
      /\ voted' = [voted EXCEPT ![shard] = {}]
      /\ mark' = [mark EXCEPT ![shard] = Len(pool[shard])]
      /\ seen' = [seen EXCEPT ![shard] = NotSeen]
      /\ \/ shard < ShardNum /\ shard' = shard + 1 /\ UNCHANGED committer
         \/ shard' = 1 /\ committer' = "idle"
      /\ UNCHANGED <<sent, pc, request, zeroLock, lock, pool, height, num, totalTxNum, alive>>
  BY DEF ResetShard, ClearVotes, ClearTxNum, More, handlers
<1>t. /\ rootsVote \in [Shards -> [Roots -> Nat]]
      /\ txNum \in [Shards -> Nat] /\ validEnd \in [Shards -> BOOLEAN]
      /\ pool \in [Shards -> Seq(Uploads)] /\ mark \in [Shards -> Nat]
      /\ voted \in [Shards -> SUBSET (Clients \X (0..MaxHeight) \X Roots)]
      /\ seen \in [Shards -> [added : Nat, writes : Nat]]
      /\ shard \in Shards
  BY <1>0 DEF TypeOK, Shards
<1>1. TypeOK'
  <2>1. NoVotes \in [Roots -> Nat] /\ NotSeen \in [added : Nat, writes : Nat] /\ Len(pool[shard]) \in Nat
    BY <1>t DEF NoVotes, NotSeen
  <2>2. /\ rootsVote' \in [Shards -> [Roots -> Nat]]
        /\ txNum' \in [Shards -> Nat] /\ validEnd' \in [Shards -> BOOLEAN]
        /\ mark' \in [Shards -> Nat]
        /\ voted' \in [Shards -> SUBSET (Clients \X (0..MaxHeight) \X Roots)]
        /\ seen' \in [Shards -> [added : Nat, writes : Nat]]
    BY <1>0, <1>t, <2>1
  <2>3. committer' \in {"idle", "resetting"}
    BY <1>0
  <2>5. shard' \in 1..ShardNum
    <3>1. shard \in 1..ShardNum /\ (shard' = 1 \/ (shard < ShardNum /\ shard' = shard + 1))
      BY <1>0, <1>t DEF Shards
    <3>2. QED
      BY <1>n, <3>1
  <2>4. QED
    BY <1>0, <2>2, <2>3, <2>5 DEF TypeOK
<1>2. RequestInv'
  BY <1>0 DEF RequestInv
<1>3. \A s \in Shards \ {shard} :
        /\ rootsVote'[s] = rootsVote[s] /\ txNum'[s] = txNum[s] /\ validEnd'[s] = validEnd[s]
        /\ mark'[s] = mark[s] /\ voted'[s] = voted[s] /\ seen'[s] = seen[s]
  BY <1>0, <1>t
<1>4. /\ rootsVote'[shard] = NoVotes /\ txNum'[shard] = 0 /\ validEnd'[shard] = FALSE
      /\ mark'[shard] = Len(pool[shard]) /\ voted'[shard] = {}
  BY <1>0, <1>t
<1>5. WritingInv'
  <2> SUFFICES ASSUME NEW d \in Clients, pc[d] = "writing"
               PROVE  /\ lock[ShardOf[d]] = d /\ ~validEnd'[ShardOf[d]]
                      /\ rootsVote'[ShardOf[d]][request[d].root] >= RootQuorum
    BY <1>0 DEF WritingInv
  <2>1. ShardOf[d] \in Shards \ {shard}
    BY <1>0, ShardOfClient, ConstantsAssumption DEF WritingInv
  <2>2. QED
    BY <1>3, <2>1 DEF WritingInv
<1>6. PoolInv' /\ NumInv'
  BY <1>0, <1>3, <1>4, <1>t DEF PoolInv, NumInv
<1>7. QuorumInv'
  BY <1>0, <1>3, <1>4, NoQuorumOfNone DEF QuorumInv
<1>8. VotedInv'
  BY <1>0, <1>3, <1>4 DEF VotedInv
<1>9. CountInv'
  <2> SUFFICES ASSUME NEW s \in Shards, NEW r \in Roots
               PROVE  IsFiniteSet(VotesFor(s, r)') /\ Cardinality(VotesFor(s, r)') = rootsVote'[s][r]
    BY DEF CountInv
  <2>1. CASE s = shard
    <3>1. VotesFor(s, r)' = {}
      BY <1>4, <2>1 DEF VotesFor
    <3>2. QED
      BY <1>4, <2>1, <3>1, FS_EmptySet DEF NoVotes
  <2>2. CASE s # shard
    <3>1. VotesFor(s, r)' = VotesFor(s, r)
      BY <1>3, <2>2 DEF VotesFor
    <3>2. QED
      BY <1>3, <2>2, <3>1 DEF CountInv
  <2>3. QED
    BY <2>1, <2>2
<1>10. SeenInv'
  <2>1. \A s \in Shards : Verified(s)' => Verified(s) /\ s # shard
    BY <1>0, <1>t DEF Verified, Shards
  <2>2. QED
    BY <1>0, <1>3, <2>1 DEF SeenInv
<1>11. NoRowInv'
  BY <1>0 DEF NoRowInv
<1>12. QED
  BY <1>11, <1>1, <1>2, <1>5, <1>6, <1>7, <1>8, <1>9, <1>10

-----------------------------------------------------------------------------
LEMMA StepInv == IndInv /\ [Next]_vars => IndInv'
<1> SUFFICES ASSUME IndInv, [Next]_vars PROVE IndInv'
  OBVIOUS
<1>1. CASE UNCHANGED vars
  <2>1. TypeOK' /\ SeenInv' /\ NoRowInv'
    BY <1>1 DEF IndInv, TypeOK, SeenInv, NoRowInv, Verified, vars, handlers, round, commit
  <2>2. QED
    BY <1>1, <2>1, CommitterFrame DEF IndInv, vars
<1>2. ASSUME NEW c \in Clients, Upload(c) \/ Vote(c) \/ WriteRelays(c) PROVE IndInv'
  BY <1>2, UploadInv, VoteInv, WriteRelaysInv
<1>3. CASE Commit \/ Committing \/ MapRace \/ StrayPanics
  BY <1>3, CommitterInv, ResetInv, StrayInv DEF Committing
<1>4. QED
  BY <1>1, <1>2, <1>3 DEF Next

(* Every variable of the state roots keeps its type. *)
THEOREM RootsTypeCorrect == Spec => []TypeOK
<1>1. IndInv => TypeOK
  BY DEF IndInv
<1>2. QED
  BY <1>1, InitInv, StepInv, PTL DEF Spec

(* Between two resets of a shard at most one upload writes relay transactions to
   its pool: the round is closed, under the lock, by the upload that writes. *)
THEOREM RelaysWrittenOnce == Spec => []RelaysOncePerRound
<1>1. IndInv => RelaysOncePerRound
  BY DEF IndInv, PoolInv, RelaysOncePerRound, TypeOK
<1>2. QED
  BY <1>1, InitInv, StepInv, PTL DEF Spec

LEMMA WriteHasQuorum ==
  ASSUME IndInv, NEW c \in Clients, WriteRelays(c), NEW s \in Shards,
         Len(pool'[s]) > Len(pool[s])
  PROVE  Cardinality(VotesFor(s, pool'[s][Len(pool'[s])].root)) >= RootQuorum
<1> USE DEF IndInv
<1>1. /\ pool' = [pool EXCEPT ![ShardOf[c]] = Append(pool[ShardOf[c]], request[c])]
      /\ pool \in [Shards -> Seq(Uploads)] /\ ShardOf[c] \in Shards
      /\ request[c] \in Uploads /\ request[c].root \in Roots
      /\ rootsVote[ShardOf[c]][request[c].root] >= RootQuorum
  BY ShardOfClient, UploadFields DEF WriteRelays, TypeOK, RequestInv, WritingInv
<1>2. s = ShardOf[c]
  BY <1>1
<1>3. pool'[s][Len(pool'[s])] = request[c]
  BY <1>1, <1>2
<1>4. QED
  BY <1>1, <1>2, <1>3 DEF CountInv

(* The relay transactions that are written are those of an upload whose root has
   a quorum, of votes cast by different uploads since the last reset. *)
THEOREM RelaysHaveQuorum == Spec => RelaysAreOfTheQuorumRoot
<1>1. IndInv /\ [Next]_vars =>
        [\A s \in Shards :
           Len(pool'[s]) > Len(pool[s])
             => Cardinality(VotesFor(s, pool'[s][Len(pool'[s])].root)) >= RootQuorum]_vars
  <2> SUFFICES ASSUME IndInv, Next, NEW s \in Shards, Len(pool'[s]) > Len(pool[s])
               PROVE  Cardinality(VotesFor(s, pool'[s][Len(pool'[s])].root)) >= RootQuorum
    OBVIOUS
  <2>1. Len(pool[s]) \in Nat
    BY DEF IndInv, TypeOK
  <2>2. pool' # pool
    BY <2>1
  <2>3. PICK c \in Clients : WriteRelays(c)
    BY <2>2
       DEF Next, Upload, Vote, Commit, Committing, CommitPanics, VerifyShard, AddTotal,
           ResetShard, MapRace, StrayPanics
  <2>4. QED
    BY <2>3, WriteHasQuorum
<1>2. QED
  BY <1>1, InitInv, StepInv, PTL DEF Spec, RelaysAreOfTheQuorumRoot

(* The number of an upload is wiped out uncounted only if it was written between
   the verification of its shard and the reset: a round that is open has no
   number, so that what the verification saw is what there is. *)
THEOREM EarlyIsCounted == Spec => EarlyQuorumIsCounted
<1>1. IndInv /\ [Next]_vars =>
        [\A s \in Shards :
           (ResetShard /\ shard = s /\ Len(pool[s]) = seen[s].writes)
             => seen[s].added = txNum[s]]_vars
  BY DEF IndInv, SeenInv, Verified, ResetShard, Shards
<1>2. QED
  BY <1>1, InitInv, StepInv, PTL DEF Spec, EarlyQuorumIsCounted
-----------------------------------------------------------------------------
(* Payouts.                                                                *)

\* Who has been settled changes only with a verification, a reset or a payout.
LEMMA SettledFrame ==
  ASSUME IndInv,
         \/ UNCHANGED vars \/ Commit \/ CommitPanics \/ MapRace \/ StrayPanics \/ AddTotal
         \/ \E c \in Clients : Upload(c) \/ Vote(c)
  PROVE  /\ UNCHANGED <<pool, validEnd, totalTxNum + num>>
         /\ \A s \in Shards : Settled(s)' = Settled(s)
<1> USE DEF round, commit, handlers
<1>0. ShardNum \in Nat \ {0} /\ shard \in Nat \ {0} /\ totalTxNum \in Nat /\ num \in Nat
  BY ConstantsAssumption DEF IndInv, TypeOK
<1>1. CASE UNCHANGED vars \/ MapRace \/ StrayPanics \/ \E c \in Clients : Upload(c) \/ Vote(c)
  <2>1. UNCHANGED <<pool, validEnd, totalTxNum, num, mark, seen, committer, shard>>
    BY <1>1 DEF vars, MapRace, StrayPanics, Upload, Vote
  <2>2. QED
    BY <2>1 DEF Settled, Verified
<1>2. CASE Commit \/ CommitPanics
  <2>1. UNCHANGED <<pool, validEnd, totalTxNum, num, mark>>
    BY <1>2 DEF Commit, CommitPanics
  <2>2. /\ committer \in {"idle", "verifying"} /\ (committer = "verifying" => shard = 1)
        /\ committer' \in {"idle", "verifying"} /\ (committer' = "verifying" => shard' = 1)
    BY <1>2 DEF Commit, CommitPanics, IndInv, NoRowInv
  <2>3. \A s \in Shards : ~Verified(s) /\ ~Verified(s)'
    BY <2>2 DEF Verified, Shards
  <2>4. QED
    BY <2>1, <2>3 DEF Settled
<1>3. CASE AddTotal
  <2>1. /\ UNCHANGED <<pool, validEnd, mark, seen>>
        /\ totalTxNum' = totalTxNum + num /\ num' = 0
        /\ committer = "verifying" /\ shard > ShardNum
        /\ committer' = "resetting" /\ shard' = 1
    BY <1>3 DEF AddTotal
  <2>2. \A s \in Shards : Verified(s) /\ Verified(s)'
    BY <1>0, <2>1 DEF Verified, Shards
  <2>3. totalTxNum' + num' = totalTxNum + num
    BY <1>0, <2>1
  <2>4. QED
    BY <2>1, <2>2, <2>3 DEF Settled
<1>4. QED
  BY <1>1, <1>2, <1>3

LEMMA WriteSettles ==
  ASSUME IndInv, NEW c \in Clients, WriteRelays(c)
  PROVE  /\ UNCHANGED <<totalTxNum, num>> /\ ShardOf[c] \in Shards /\ request[c] \in Uploads
         /\ ~validEnd[ShardOf[c]] /\ validEnd' = [validEnd EXCEPT ![ShardOf[c]] = TRUE]
         /\ pool' = [pool EXCEPT ![ShardOf[c]] = Append(pool[ShardOf[c]], request[c])]
         /\ \A s \in Shards : Settled(s)' = Settled(s)
<1>1. UNCHANGED <<totalTxNum, num, mark, seen, committer, shard>>
  BY DEF WriteRelays, commit
<1>2. request[c] \in Uploads /\ ~validEnd[ShardOf[c]]
  BY DEF IndInv, RequestInv, WritingInv, WriteRelays
<1>3. QED
  BY <1>1, <1>2, ShardOfClient DEF WriteRelays, Settled, Verified

\* The verification adds the number of the upload written since the last reset.
LEMMA VerifySettles ==
  ASSUME IndInv, VerifyShard, NEW k, k = shard
  PROVE  /\ UNCHANGED <<pool, validEnd, totalTxNum>> /\ k \in Shards
         /\ Settled(k) <= Len(pool[k])
         /\ num' = num + (IF Settled(k) < Len(pool[k])
                          THEN pool[k][Len(pool[k])].num ELSE 0)
         /\ Settled(k)' = Len(pool[k])
         /\ Settled(k) < Len(pool[k]) => Settled(k) + 1 = Len(pool[k])
         /\ \A s \in Shards \ {k} : Settled(s)' = Settled(s)
<1> DEFINE added == IF HasQuorum(rootsVote[k], VerifyQuorum) THEN txNum[k] ELSE 0
<1>1. /\ k \in Shards /\ shard' = k + 1
      /\ shard = k /\ committer = "verifying" /\ committer' = "verifying"
      /\ seen' = [seen EXCEPT ![k] = [added |-> added, writes |-> Len(pool[k])]]
      /\ num' = num + added
      /\ UNCHANGED <<pool, validEnd, totalTxNum, mark>>
  BY DEF VerifyShard, Shards, round, IndInv, TypeOK
<1>2. /\ seen \in [Shards -> [added : Nat, writes : Nat]] /\ Len(pool[k]) \in Nat
      /\ mark[k] \in Nat /\ validEnd[k] \in BOOLEAN /\ k \in Nat
  BY <1>1 DEF IndInv, TypeOK
<1>3. added = txNum[k]
  BY <1>1, Quorums DEF IndInv, QuorumInv
<1>4. ~Verified(k) /\ Verified(k)'
  BY <1>1, <1>2 DEF Verified
<1>5. Settled(k) = mark[k] /\ Settled(k)' = Len(pool[k])
  BY <1>1, <1>2, <1>4 DEF Settled
<1>6. \A s \in Shards \ {k} : Settled(s)' = Settled(s)
  <2>1. \A s \in Shards \ {k} : seen'[s] = seen[s] /\ (Verified(s)' <=> Verified(s))
    BY <1>1, <1>2 DEF Verified, Shards
  <2>2. QED
    BY <1>1, <2>1 DEF Settled
<1>7. Len(pool[k]) = mark[k] + (IF validEnd[k] THEN 1 ELSE 0)
  BY <1>1 DEF IndInv, PoolInv
<1>8. txNum[k] = IF validEnd[k] THEN pool[k][Len(pool[k])].num ELSE 0
  BY <1>1 DEF IndInv, NumInv, QuorumInv
<1>9. validEnd[k] <=> Settled(k) < Len(pool[k])
  BY <1>2, <1>5, <1>7
<1>10. QED
  BY <1>1, <1>2, <1>3, <1>5, <1>6, <1>7, <1>8, <1>9

LEMMA ResetSettles ==
  ASSUME IndInv, ResetShard, NEW k, k = shard
  PROVE  /\ UNCHANGED <<pool, totalTxNum, num>> /\ k \in Shards
         /\ validEnd' = [validEnd EXCEPT ![k] = FALSE]
         /\ Settled(k)' = Len(pool[k])
         /\ \A s \in Shards \ {k} : Settled(s)' = Settled(s)
<1>1. /\ shard = k /\ committer = "resetting" /\ k \in Shards /\ k \in Nat
      /\ validEnd' = [validEnd EXCEPT ![k] = FALSE]
      /\ mark' = [mark EXCEPT ![k] = Len(pool[k])]
      /\ seen' = [seen EXCEPT ![k] = NotSeen]
      /\ \/ shard' = k + 1 /\ committer' = "resetting"
         \/ shard' = 1 /\ committer' = "idle" /\ ~More
      /\ UNCHANGED <<pool, totalTxNum, num>>
  BY DEF ResetShard, IndInv, TypeOK, Shards
<1>2. /\ mark \in [Shards -> Nat] /\ seen \in [Shards -> [added : Nat, writes : Nat]]
      /\ ShardNum \in Nat
  BY ConstantsAssumption DEF IndInv, TypeOK
<1>3. ~Verified(k)'
  BY <1>1 DEF Verified
<1>4. \A s \in Shards \ {k} : /\ Verified(s)' <=> Verified(s)
                                 /\ mark'[s] = mark[s] /\ seen'[s] = seen[s]
  BY <1>1, <1>2 DEF Verified, Shards, More
<1>5. QED
  BY <1>1, <1>2, <1>3, <1>4 DEF Settled

LEMMA InitPayouts == Init => P!Init
<1> SUFFICES ASSUME Init PROVE P!Init
  OBVIOUS
<1>1. \A s \in Shards : ~Verified(s)
  BY DEF Init, Verified
<1>2. \A s \in Shards : Settled(s) = 0
  BY <1>1 DEF Init, Settled
<1>3. totalTxNum + num = 0
  BY DEF Init
<1>4. [s \in Shards |-> Settled(s)] = [s \in Shards |-> 0]
  BY <1>2
<1>5. [s \in Shards |-> ~validEnd[s]] = [s \in Shards |-> TRUE]
  BY DEF Init
<1>6. pool = [s \in Shards |-> <<>>]
  BY DEF Init
<1>7. QED
  BY <1>3, <1>4, <1>5, <1>6 DEF P!Init

LEMMA StepPayouts ==
  ASSUME IndInv, [Next]_vars
  PROVE  [P!Next]_(P!vars)
<1>1. CASE \/ UNCHANGED vars \/ Commit \/ CommitPanics \/ MapRace \/ StrayPanics \/ AddTotal
           \/ \E c \in Clients : Upload(c) \/ Vote(c)
  <2>1. /\ UNCHANGED <<pool, validEnd, totalTxNum + num>>
        /\ \A s \in Shards : Settled(s)' = Settled(s)
    BY <1>1, SettledFrame
  <2>2. [s \in Shards |-> Settled(s)]' = [s \in Shards |-> Settled(s)]
    BY <2>1
  <2>3. QED
    BY <2>1, <2>2 DEF P!vars
<1>2. ASSUME NEW c \in Clients, WriteRelays(c), NEW k, k = ShardOf[c], NEW u, u = request[c]
      PROVE  P!Next
  <2>1. P!Pay(k, u)
    <3>1. [s \in Shards |-> Settled(s)]' = [s \in Shards |-> Settled(s)]
      BY <1>2, WriteSettles
    <3>2. [s \in Shards |-> ~validEnd'[s]]
            = [[s \in Shards |-> ~validEnd[s]] EXCEPT ![k] = FALSE]
      <4>1. /\ validEnd \in [Shards -> BOOLEAN] /\ k \in Shards
            /\ validEnd' = [validEnd EXCEPT ![k] = TRUE]
        BY <1>2, WriteSettles DEF IndInv, TypeOK
      <4>2. \A s \in Shards : (~validEnd'[s]) = (IF s = k THEN FALSE ELSE ~validEnd[s])
        BY <4>1
      <4>3. QED
        BY <4>1, <4>2
    <3>3. QED
      BY <1>2, <3>1, <3>2, WriteSettles DEF P!Pay
  <2>2. k \in Shards /\ u \in Uploads
    BY <1>2, WriteSettles
  <2>3. QED
    BY <2>1, <2>2 DEF P!Next
<1>3. ASSUME VerifyShard, NEW k, k = shard PROVE P!Next
  <2>1. [s \in Shards |-> Settled(s)]'
          = [[s \in Shards |-> Settled(s)] EXCEPT ![k] = Len(pool[k])]
    BY <1>3, VerifySettles
  <2>2. totalTxNum \in Nat /\ num \in Nat
        /\ (Settled(k) < Len(pool[k]) => pool[k][Len(pool[k])].num \in Nat)
    <3>1. pool[k] \in Seq(Uploads) /\ totalTxNum \in Nat /\ num \in Nat
      BY <1>3, VerifySettles DEF IndInv, TypeOK
    <3>2. Settled(k) \in Nat
      BY <1>3, VerifySettles DEF IndInv, TypeOK, Settled
    <3>3. QED
      BY <3>1, <3>2, UploadFields
  <2>3. totalTxNum' + num' = (totalTxNum + num)
            + (IF Settled(k) < Len(pool[k])
               THEN pool[k][Len(pool[k])].num ELSE 0)
    BY <1>3, <2>2, VerifySettles
  <2>4. P!Settle(k)
    BY <1>3, <2>1, <2>3, VerifySettles DEF P!Settle, P!Unsettled
  <2>5. QED
    BY <1>3, <2>4, VerifySettles DEF P!Next
<1>4. ASSUME ResetShard, NEW k, k = shard PROVE P!Next
  <2>1. [s \in Shards |-> Settled(s)]'
          = [[s \in Shards |-> Settled(s)] EXCEPT ![k] = Len(pool[k])]
    BY <1>4, ResetSettles
  <2>2. [s \in Shards |-> ~validEnd'[s]]
          = [[s \in Shards |-> ~validEnd[s]] EXCEPT ![k] = TRUE]
    <3>1. /\ validEnd \in [Shards -> BOOLEAN] /\ k \in Shards
          /\ validEnd' = [validEnd EXCEPT ![k] = FALSE]
      BY <1>4, ResetSettles DEF IndInv, TypeOK
    <3>2. \A s \in Shards : (~validEnd'[s]) = (IF s = k THEN TRUE ELSE ~validEnd[s])
      BY <3>1
    <3>3. QED
      BY <3>1, <3>2
  <2>3. P!Reopen(k)
    BY <1>4, <2>1, <2>2, ResetSettles DEF P!Reopen
  <2>4. QED
    BY <1>4, <2>3, ResetSettles DEF P!Next
<1>5. QED
  BY <1>1, <1>2, <1>3, <1>4 DEF Next, Committing

(* The rounds of root votes implement the abstract payouts: one upload per round is
   paid out, a commit counts what has been paid out since the last one, and what
   comes between verification and reset is forfeited, never counted later. *)
THEOREM RoundsImplementPayouts == Spec => ImplementsPayouts
<1>1. IndInv /\ [Next]_vars => [P!Next]_(P!vars)
  BY StepPayouts
<1>2. QED
  BY <1>1, InitInv, InitPayouts, StepInv, PTL DEF Spec, ImplementsPayouts, P!Spec
-----------------------------------------------------------------------------
(* No transaction is counted twice.                                        *)

\* The transactions written are finitely many.
LEMMA WrittenFinite ==
  ASSUME TypeOK, NEW s \in Shards, NEW n \in 0..Len(pool[s])
  PROVE  IsFiniteSet(WrittenTxs(s, n))
<1> DEFINE tx(i) == Transactions(s, i)
           txs == {tx(i) : i \in 1..n}
<1>1. \A i \in 1..n : IsFiniteSet(tx(i))
  <2> TAKE i \in 1..n
  <2>1. pool[s] \in Seq(Uploads) /\ i \in 1..Len(pool[s])
    BY DEF TypeOK
  <2>2. pool[s][i].num \in Nat
    BY <2>1, UploadFields
  <2>3. IsFiniteSet({<<s, i>>}) /\ IsFiniteSet(1..pool[s][i].num)
    <3>1. 1 \in Int /\ pool[s][i].num \in Int
      BY <2>2
    <3>2. QED
      BY <3>1, FS_Singleton, FS_Interval
  <2>4. QED
    BY <2>3, FS_Product DEF Transactions
<1>2. IsFiniteSet(1..n)
  BY FS_Interval
<1>3. IsFiniteSet(txs)
  <2> DEFINE f == [i \in 1..n |-> tx(i)]
  <2>1. f \in Surjection(1..n, txs)
    BY DEF Surjection
  <2>2. QED
    BY <1>2, <2>1, FS_Surjection
<1>4. IsFiniteSet(UNION txs)
  BY <1>1, <1>3, FS_UNION
<1>5. QED
  BY <1>4 DEF WrittenTxs

\* Uploads are settled once written.
LEMMA SettledWritten ==
  ASSUME IndInv
  PROVE  /\ \A s \in Shards : Settled(s) \in 0..Len(pool[s])
         /\ IsFiniteSet(ValidatedTxs)
         /\ SettledTxs \subseteq ValidatedTxs
<1> DEFINE written(s) == WrittenTxs(s, Len(pool[s]))
           all == {written(s) : s \in Shards}
<1>1. \A s \in Shards : Settled(s) \in 0..Len(pool[s])
  <2> TAKE s \in Shards
  <2>1. /\ Len(pool[s]) \in Nat /\ mark[s] \in Nat /\ seen[s].writes \in Nat
        /\ Len(pool[s]) = mark[s] + (IF validEnd[s] THEN 1 ELSE 0)
    BY DEF IndInv, TypeOK, PoolInv
  <2>2. Verified(s) => seen[s].writes <= Len(pool[s])
    BY DEF IndInv, SeenInv
  <2>3. QED
    BY <2>1, <2>2 DEF Settled
<1>2. \A s \in Shards : IsFiniteSet(written(s))
  <2> TAKE s \in Shards
  <2>1. TypeOK /\ Len(pool[s]) \in 0..Len(pool[s])
    BY DEF IndInv, TypeOK
  <2>2. QED
    BY <2>1, WrittenFinite
<1>3. IsFiniteSet(all)
  <2> DEFINE f == [s \in Shards |-> written(s)]
  <2>1. f \in Surjection(Shards, all)
    BY DEF Surjection
  <2>2. IsFiniteSet(Shards)
    BY ConstantsAssumption, FS_Interval DEF Shards
  <2>3. QED
    BY <2>1, <2>2, FS_Surjection
<1>4. IsFiniteSet(ValidatedTxs)
  <2>1. IsFiniteSet(UNION all)
    BY <1>2, <1>3, FS_UNION
  <2>2. QED
    BY <2>1 DEF ValidatedTxs
<1>5. SettledTxs \subseteq ValidatedTxs
  <2> SUFFICES ASSUME NEW s \in Shards, NEW i \in 1..Settled(s),
                      NEW t \in Transactions(s, i)
               PROVE  t \in ValidatedTxs
    BY DEF SettledTxs, WrittenTxs
  <2>1. i \in 1..Len(pool[s])
    <3>1. Settled(s) \in Nat /\ Len(pool[s]) \in Nat /\ Settled(s) <= Len(pool[s])
      BY <1>1 DEF IndInv, TypeOK
    <3>2. QED
      BY <3>1
  <2>2. QED
    BY <2>1 DEF ValidatedTxs, WrittenTxs
<1>6. QED
  BY <1>1, <1>4, <1>5

FiniteInv == IsFiniteSet(SettledTxs) /\ SettledTxs \subseteq ValidatedTxs /\ IsFiniteSet(ValidatedTxs)

LEMMA FiniteSettled == IndInv => FiniteInv
  BY SettledWritten, FS_Subset DEF FiniteInv

\* What is settled stays settled.
LEMMA SettledKept ==
  ASSUME \A s \in Shards : \A i \in 1..Settled(s) :
           i \in 1..Settled(s)' /\ pool'[s][i] = pool[s][i]
  PROVE  SettledTxs \subseteq SettledTxs'
<1> SUFFICES ASSUME NEW s \in Shards, NEW i \in 1..Settled(s), NEW t \in Transactions(s, i)
             PROVE  t \in SettledTxs'
  BY DEF SettledTxs, WrittenTxs
<1>1. i \in 1..Settled(s)' /\ t \in Transactions(s, i)'
  BY DEF Transactions
<1>2. QED
  BY <1>1 DEF SettledTxs, WrittenTxs

\* What a verification adds is newly settled.
LEMMA VerifyTotal ==
  ASSUME IndInv, FiniteInv, FiniteInv', TotalInv, VerifyShard,
         NEW k, k = shard, NEW n, n = Len(pool[k])
  PROVE  TotalInv'
<1>1. /\ pool' = pool /\ totalTxNum' = totalTxNum /\ k \in Shards
      /\ num' = num + (IF Settled(k) < n THEN pool[k][n].num ELSE 0)
      /\ Settled(k)' = n
      /\ \A s \in Shards \ {k} : Settled(s)' = Settled(s)
  BY VerifySettles
<1>2. /\ \A s \in Shards : Settled(s) \in 0..Len(pool[s])
      /\ pool \in [Shards -> Seq(Uploads)] /\ n \in Nat /\ totalTxNum \in Nat /\ num \in Nat
  <2>1. \A s \in Shards : Settled(s) \in 0..Len(pool[s])
    BY SettledWritten
  <2>2. /\ pool \in [Shards -> Seq(Uploads)] /\ totalTxNum \in Nat /\ num \in Nat
    BY DEF IndInv, TypeOK
  <2>3. n \in Nat
    BY <1>1, <2>2
  <2>4. QED
    BY <2>1, <2>2, <2>3
<1>3. SettledTxs \subseteq SettledTxs'
  <2>1. \A s \in Shards : \A i \in 1..Settled(s) :
          i \in 1..Settled(s)' /\ pool'[s][i] = pool[s][i]
    <3> TAKE s \in Shards
    <3>1. Settled(s) \in Nat /\ Settled(s)' \in Nat /\ Settled(s) <= Settled(s)'
      BY <1>1, <1>2
    <3>2. QED
      BY <1>1, <3>1
  <2>2. QED
    BY <2>1, SettledKept
<1>4. Cardinality(SettledTxs) \in Nat /\ Cardinality(SettledTxs') \in Nat
      /\ Cardinality(SettledTxs) <= Cardinality(SettledTxs')
  BY <1>3, FS_CardinalityType, FS_Subset DEF FiniteInv
<1>5. CASE Settled(k) < n
  <2> DEFINE new == Transactions(k, n)
  <2>1. n \in 1..Len(pool[k]) /\ pool[k][n].num \in Nat
    BY <1>1, <1>2, <1>5, UploadFields
  <2>2. IsFiniteSet(new) /\ Cardinality(new) = pool[k][n].num
    <3>1. /\ IsFiniteSet({<<k, n>>}) /\ Cardinality({<<k, n>>}) = 1
      BY FS_Singleton
    <3> DEFINE m == pool[k][n].num
    <3>2. m \in Nat
      BY <2>1
    <3>3. new = {<<k, n>>} \X (1..m)
      BY DEF Transactions
    <3> HIDE DEF m
    <3>4. IsFiniteSet(1..m) /\ Cardinality(1..m) = m
      <4>1. 1 \in Int /\ m \in Int
        BY <3>2
      <4>2. IsFiniteSet(1..m) /\ Cardinality(1..m) = IF 1 > m THEN 0 ELSE m - 1 + 1
        BY <4>1, FS_Interval
      <4>3. QED
        BY <3>2, <4>2
    <3>5. IsFiniteSet({<<k, n>>} \X (1..m)) /\ Cardinality({<<k, n>>} \X (1..m)) = 1 * m
      <4> DEFINE A == {<<k, n>>}  B == 1..m
      <4>1. IsFiniteSet(A) /\ Cardinality(A) = 1 /\ IsFiniteSet(B) /\ Cardinality(B) = m
        BY <3>1, <3>4
      <4> HIDE DEF A, B
      <4>2. IsFiniteSet(A \X B) /\ Cardinality(A \X B) = Cardinality(A) * Cardinality(B)
        BY <4>1, FS_Product
      <4>3. IsFiniteSet(A \X B) /\ Cardinality(A \X B) = 1 * m
        BY <4>1, <4>2
      <4>4. QED
        BY <4>3 DEF A, B
    <3>6. IsFiniteSet(new) /\ Cardinality(new) = m
      BY <3>2, <3>3, <3>5
    <3>7. QED
      BY <3>6 DEF m
  <2>3. SettledTxs \cap new = {}
    <3> SUFFICES ASSUME NEW s \in Shards, NEW i \in 1..Settled(s),
                        NEW t \in Transactions(s, i), t \in new
                 PROVE  FALSE
      BY DEF SettledTxs, WrittenTxs
    <3>1. s = k /\ i = n
      BY DEF Transactions
    <3>2. i \in 1..Settled(k) /\ Settled(k) \in Nat
      BY <1>1, <1>2, <3>1
    <3>3. QED
      BY <1>2, <1>5, <3>1, <3>2
  <2>4. new \subseteq SettledTxs'
    <3>1. n \in 1..Settled(k)' /\ new = Transactions(k, n)'
      BY <1>1, <2>1 DEF Transactions
    <3>2. QED
      BY <1>1, <3>1 DEF SettledTxs, WrittenTxs
  <2> HIDE DEF new
  <2>5. IsFiniteSet(SettledTxs) /\ IsFiniteSet(SettledTxs')
    BY DEF FiniteInv
  <2>6. Cardinality(SettledTxs \cup new) = Cardinality(SettledTxs) + Cardinality(new)
    <3>1. Cardinality(SettledTxs \cap new) = 0
      BY <2>3, FS_EmptySet
    <3>2. Cardinality(SettledTxs \cup new)
            = Cardinality(SettledTxs) + Cardinality(new) - Cardinality(SettledTxs \cap new)
      BY <2>2, <2>5, FS_Union
    <3>3. Cardinality(new) \in Nat
      BY <2>1, <2>2
    <3>4. QED
      BY <1>4, <3>1, <3>2, <3>3
  <2>7. Cardinality(SettledTxs \cup new) <= Cardinality(SettledTxs')
    <3>1. SettledTxs \cup new \in SUBSET SettledTxs'
      BY <1>3, <2>4
    <3>2. QED
      BY <2>5, <3>1, FS_Subset
  <2>8. totalTxNum' + num' = (totalTxNum + num) + pool[k][n].num
    BY <1>1, <1>2, <1>5, <2>1
  <2>9. totalTxNum + num <= Cardinality(SettledTxs)
    BY DEF TotalInv
  <2>10. totalTxNum' + num' <= Cardinality(SettledTxs')
    BY <1>1, <1>2, <1>4, <2>1, <2>2, <2>6, <2>7, <2>8, <2>9
  <2>11. QED
    BY <2>10 DEF TotalInv
<1>6. CASE ~(Settled(k) < n)
  BY <1>1, <1>2, <1>4, <1>6 DEF TotalInv
<1>7. QED
  BY <1>5, <1>6

\* No other step counts anything.
LEMMA StepTotal ==
  ASSUME IndInv, FiniteInv, FiniteInv', TotalInv, [Next]_vars
  PROVE  TotalInv'
<1>1. CASE VerifyShard
  BY <1>1, VerifyTotal
<1>2. ASSUME UNCHANGED (totalTxNum + num),
             \A s \in Shards : \A i \in 1..Settled(s) :
               i \in 1..Settled(s)' /\ pool'[s][i] = pool[s][i]
      PROVE  TotalInv'
  <2>1. SettledTxs \subseteq SettledTxs'
    BY <1>2, SettledKept
  <2>2. Cardinality(SettledTxs) <= Cardinality(SettledTxs')
        /\ Cardinality(SettledTxs) \in Nat /\ Cardinality(SettledTxs') \in Nat
    BY <2>1, FS_Subset, FS_CardinalityType DEF FiniteInv
  <2>3. totalTxNum \in Nat /\ num \in Nat
    BY DEF IndInv, TypeOK
  <2>4. QED
    BY <1>2, <2>2, <2>3 DEF TotalInv
<1>3. /\ \A s \in Shards : Settled(s) \in 0..Len(pool[s])
      /\ pool \in [Shards -> Seq(Uploads)]
  BY SettledWritten DEF IndInv, TypeOK
<1>4. CASE \/ UNCHANGED vars \/ Commit \/ CommitPanics \/ MapRace \/ StrayPanics \/ AddTotal
           \/ \E c \in Clients : Upload(c) \/ Vote(c)
  BY <1>2, <1>4, SettledFrame
<1>5. ASSUME NEW c \in Clients, WriteRelays(c)
      PROVE  TotalInv'
  <2>1. /\ UNCHANGED <<totalTxNum, num>> /\ ShardOf[c] \in Shards /\ request[c] \in Uploads
        /\ pool' = [pool EXCEPT ![ShardOf[c]] = Append(pool[ShardOf[c]], request[c])]
        /\ \A s \in Shards : Settled(s)' = Settled(s)
    BY <1>5, WriteSettles
  <2>2. \A s \in Shards : \A i \in 1..Settled(s) :
          i \in 1..Settled(s)' /\ pool'[s][i] = pool[s][i]
    <3> TAKE s \in Shards
    <3> TAKE i \in 1..Settled(s)
    <3>1. i \in 1..Len(pool[s]) /\ i \in 1..Settled(s)'
      BY <1>3, <2>1
    <3>2. pool[s] \in Seq(Uploads)
      BY <1>3
    <3>3. pool'[s] = pool[s] \/ pool'[s] = Append(pool[s], request[c])
      BY <1>3, <2>1
    <3>4. QED
      BY <2>1, <3>1, <3>2, <3>3
  <2>3. QED
    BY <1>2, <2>1, <2>2
<1>6. ASSUME ResetShard, NEW k, k = shard
      PROVE  TotalInv'
  <2>1. /\ UNCHANGED <<pool, totalTxNum, num>> /\ k \in Shards
        /\ Settled(k)' = Len(pool[k])
        /\ \A s \in Shards \ {k} : Settled(s)' = Settled(s)
    BY <1>6, ResetSettles
  <2>2. \A s \in Shards : \A i \in 1..Settled(s) :
          i \in 1..Settled(s)' /\ pool'[s][i] = pool[s][i]
    <3> TAKE s \in Shards
    <3>1. Len(pool[s]) \in Nat /\ Settled(s) \in 0..Len(pool[s])
      BY <1>3
    <3>2. QED
      BY <2>1, <3>1
  <2>3. QED
    BY <1>2, <2>1, <2>2
<1>7. QED
  BY <1>1, <1>4, <1>5, <1>6 DEF Next, Committing

LEMMA InitTotal == Init => TotalInv
<1> SUFFICES ASSUME Init PROVE TotalInv
  OBVIOUS
<1>1. IsFiniteSet(SettledTxs)
  BY InitInv, FiniteSettled DEF FiniteInv
<1>2. Cardinality(SettledTxs) \in Nat
  BY <1>1, FS_CardinalityType
<1>3. QED
  BY <1>2 DEF Init, TotalInv

(* TotalTxNum never exceeds the number of transactions that a quorum validated,
   whatever comes between the verification of a shard and its reset. *)
THEOREM NoneCountedTwice == Spec => []NoTransactionCountedTwice
<1>1. IndInv /\ FiniteInv /\ FiniteInv' /\ TotalInv /\ [Next]_vars => TotalInv'
  BY StepTotal
<1>2. IndInv /\ FiniteInv /\ TotalInv => NoTransactionCountedTwice
  <2> SUFFICES ASSUME IndInv, FiniteInv, TotalInv PROVE NoTransactionCountedTwice
    OBVIOUS
  <2>1. Cardinality(SettledTxs) <= Cardinality(ValidatedTxs)
    BY FS_Subset DEF FiniteInv
  <2>2. /\ Cardinality(SettledTxs) \in Nat /\ Cardinality(ValidatedTxs) \in Nat
        /\ totalTxNum \in Nat /\ num \in Nat
    BY FS_CardinalityType DEF FiniteInv, IndInv, TypeOK
  <2>3. QED
    BY <2>1, <2>2 DEF TotalInv, NoTransactionCountedTwice
<1>3. QED
  BY <1>1, <1>2, FiniteSettled, InitInv, InitTotal, StepInv, PTL DEF Spec
=============================================================================
