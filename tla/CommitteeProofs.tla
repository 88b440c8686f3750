--------------------------- MODULE CommitteeProofs ---------------------------
(***************************************************************************)
(* Proofs about Committee, for every set of registrations, committee size, *)
(* number of blocks, and for all faults of the tables and the sockets.     *)
(***************************************************************************)
EXTENDS Committee, FiniteSetTheorems, TLAPS

\* The next block's height is a height of rows.
LEMMA NextHeight == ASSUME TypeOK PROVE height + 1 \in Heights
BY ConstantsAssumption DEF TypeOK, Heights

\* Of two full lists one of which contains the other, neither has more members.
LEMMA SameFullList ==
  ASSUME NEW S \in SUBSET Registrations, NEW T \in SUBSET Registrations,
         IsFull(S), IsFull(T), S \subseteq T \/ T \subseteq S
  PROVE  S = T
<1>1. IsFiniteSet(S) /\ IsFiniteSet(T)
  BY ConstantsAssumption, FS_Subset
<1>2. Cardinality(S) = Cardinality(T)
  BY DEF IsFull
<1>3. CASE S \subseteq T
  <2>1. S \in SUBSET T
    BY <1>3
  <2>2. QED
    BY <1>1, <1>2, <2>1, FS_Subset
<1>4. CASE T \subseteq S
  <2>1. T \in SUBSET S
    BY <1>4
  <2>2. QED
    BY <1>1, <1>2, <2>1, FS_Subset
<1>5. QED
  BY <1>3, <1>4

-----------------------------------------------------------------------------
(* Types.                                                                  *)

LEMMA InitTypes == Init => TypeOK
<1> SUFFICES ASSUME Init PROVE TypeOK
  OBVIOUS
<1>1. 1 \in Heights
  BY ConstantsAssumption DEF Heights
<1>2. QED
  BY <1>1, ConstantsAssumption DEF Init, TypeOK, PCs, Messages

LEMMA StepTypes == TypeOK /\ [Next]_vars => TypeOK'
<1> SUFFICES ASSUME TypeOK, [Next]_vars PROVE TypeOK'
  OBVIOUS
<1> USE NextHeight
<1>1. CASE PreRegister
  BY <1>1 DEF PreRegister, TypeOK, handler
<1>2. CASE CommitBlock
  BY <1>2, ConstantsAssumption DEF CommitBlock, TypeOK, table, handler
<1>3. ASSUME NEW r \in Registrations, ReadHeight(r) PROVE TypeOK'
  BY <1>3 DEF ReadHeight, Goto, TypeOK, PCs, table
<1>4. ASSUME NEW r \in Registrations, CountRows(r) PROVE TypeOK'
  BY <1>4 DEF CountRows, Goto, TypeOK, PCs, table
<1>5. ASSUME NEW r \in Registrations, Join(r) PROVE TypeOK'
  <2>1. h[r] \in Heights /\ waiting[h[r]] \in Nat
    BY DEF TypeOK
  <2>2. waiting' \in [Heights -> Nat]
    <3>1. CASE waiting' = waiting
      BY <3>1 DEF TypeOK
    <3>2. CASE FoundWaiting(r) /\ waiting' = [waiting EXCEPT ![h[r]] = @ - 1]
      <4>1. waiting[h[r]] - 1 \in Nat
        BY <2>1, <3>2 DEF FoundWaiting
      <4>2. QED
        BY <2>1, <3>2, <4>1 DEF TypeOK
    <3>3. QED
      BY <1>5, <3>1, <3>2 DEF Join
  <2>3. rows' \in [Heights -> SUBSET Registrations]
    BY <1>5, <2>1 DEF Join, TypeOK
  <2>4. QED
    BY <1>5, <2>2, <2>3 DEF Join, Goto, TypeOK, PCs
<1>6. ASSUME NEW r \in Registrations, JoinFails(r) PROVE TypeOK'
  BY <1>6 DEF JoinFails, Goto, TypeOK, PCs, table
<1>7. ASSUME NEW r \in Registrations, Upgrade(r) PROVE TypeOK'
  BY <1>7 DEF Upgrade, MembersRead, Goto, TypeOK, PCs, table
<1>8. ASSUME NEW r \in Registrations, UpgradeFails(r) PROVE TypeOK'
  BY <1>8 DEF UpgradeFails, Goto, TypeOK, PCs, table
<1>9. ASSUME NEW r \in Registrations, Connect(r) PROVE TypeOK'
  BY <1>9 DEF Connect, Goto, TypeOK, PCs, table
<1>10. ASSUME NEW r \in Registrations, Collect(r) PROVE TypeOK'
  BY <1>10 DEF Collect, Goto, TypeOK, PCs, table
<1>11. ASSUME NEW r \in Registrations, CollectFails(r) PROVE TypeOK'
  BY <1>11 DEF CollectFails, Goto, TypeOK, PCs, table
<1>12. ASSUME NEW r \in Registrations, Notify(r) PROVE TypeOK'
  <2>1. PICK d \in todo[r] :
          /\ ready' = ready \cup {[height |-> h[r], to |-> d, idList |-> clients[r]]}
          /\ todo'  = [todo EXCEPT ![r] = @ \ {d}]
          /\ Goto(r, IF todo[r] = {d} THEN "done" ELSE "notifying")
    BY <1>12 DEF Notify
  <2>2. [height |-> h[r], to |-> d, idList |-> clients[r]] \in Messages
    BY DEF Messages, TypeOK
  <2>3. QED
    BY <1>12, <2>1, <2>2 DEF Notify, Goto, TypeOK, PCs, table
<1>13. ASSUME NEW r \in Registrations, NotifyFails(r) PROVE TypeOK'
  BY <1>13 DEF NotifyFails, Goto, TypeOK, PCs, table
<1>14. CASE UNCHANGED vars
  BY <1>14 DEF vars, table, handler, TypeOK
<1>15. QED
  BY <1>1, <1>2, <1>3, <1>4, <1>5, <1>6, <1>7, <1>8, <1>9, <1>10, <1>11, <1>12,
     <1>13, <1>14 DEF Next, Handle

-----------------------------------------------------------------------------
(* What a step does to the table, the map and the handlers.                *)

\* Rows are never taken back, sockets never taken out of the map.
LEMMA NothingIsRemoved ==
  ASSUME TypeOK, [Next]_vars
  PROVE  /\ connected \subseteq connected'
         /\ \A k \in Heights : rows[k] \subseteq rows[k]'
<1> USE NextHeight
<1>1. ASSUME NEW r \in Registrations, Join(r)
      PROVE  /\ connected \subseteq connected'
             /\ \A k \in Heights : rows[k] \subseteq rows[k]'
  BY <1>1 DEF Join, TypeOK
<1>2. ASSUME NEW r \in Registrations, Connect(r)
      PROVE  /\ connected \subseteq connected'
             /\ \A k \in Heights : rows[k] \subseteq rows[k]'
  BY <1>2 DEF Connect, table
<1>3. ASSUME NEW r \in Registrations, Handle(r), ~Join(r), ~Connect(r)
      PROVE  UNCHANGED <<rows, connected>>
  BY <1>3 DEF Handle, ReadHeight, CountRows, JoinFails, Upgrade, UpgradeFails, Collect,
     CollectFails, Notify, NotifyFails, table
<1>4. CASE PreRegister \/ CommitBlock \/ UNCHANGED vars
  BY <1>4 DEF PreRegister, CommitBlock, vars, table
<1>5. QED
  BY <1>1, <1>2, <1>3, <1>4 DEF Next

\* A handler keeps h but at its first line, and clients but at the query.
LEMMA HandlerSteps ==
  ASSUME TypeOK, NEW r \in Registrations, Handle(r)
  PROVE  /\ \A s \in Registrations \ {r} :
              /\ pc'[s] = pc[s] /\ h'[s] = h[s]
              /\ clients'[s] = clients[s] /\ todo'[s] = todo[s]
         /\ pc'[r] # "start"
         /\ \/ pc[r] = "start" /\ pc'[r] = "counting" /\ clients' = clients
            \/ /\ pc[r] = "upgrading" /\ pc'[r] = "connecting" /\ h' = h
               /\ clients'[r] = rows[h[r]] \/ clients'[r] = {}
            \/ pc[r] # "start" /\ h' = h /\ clients' = clients
         /\ pc[r] = "notifying" => pc'[r] \in {"notifying", "done"}
         /\ pc[r] # "done"
<1>1. CASE ReadHeight(r)
  BY <1>1 DEF ReadHeight, Goto, TypeOK
<1>2. CASE CountRows(r) \/ JoinFails(r) \/ UpgradeFails(r) \/ CollectFails(r) \/ NotifyFails(r)
  BY <1>2 DEF CountRows, JoinFails, UpgradeFails, CollectFails, NotifyFails, Goto, TypeOK
<1>3. CASE Join(r)
  BY <1>3 DEF Join, Goto, TypeOK
<1>4. CASE Upgrade(r)
  BY <1>4 DEF Upgrade, MembersRead, Goto, TypeOK
<1>5. CASE Connect(r)
  BY <1>5 DEF Connect, Goto, TypeOK
<1>6. CASE Collect(r)
  BY <1>6 DEF Collect, Goto, TypeOK
<1>7. CASE Notify(r)
  <2>1. PICK d \in todo[r] :
          /\ todo'  = [todo EXCEPT ![r] = @ \ {d}]
          /\ Goto(r, IF todo[r] = {d} THEN "done" ELSE "notifying")
    BY <1>7 DEF Notify
  <2>2. QED
    BY <1>7, <2>1 DEF Notify, Goto, TypeOK
<1>8. QED
  BY <1>1, <1>2, <1>3, <1>4, <1>5, <1>6, <1>7 DEF Handle

LEMMA OtherSteps ==
  ASSUME [Next]_vars, \A r \in Registrations : ~Handle(r)
  PROVE  UNCHANGED <<pc, h, clients, todo, rows, connected, ready>>
BY DEF Next, PreRegister, CommitBlock, vars, table, handler

-----------------------------------------------------------------------------
(* The parts of the invariant.                                             *)

LEMMA StepSnapshot ==
  ASSUME TypeOK, SnapshotInv, [Next]_vars
  PROVE  SnapshotInv'
<1>1. SUFFICES ASSUME NEW s \in Registrations
               PROVE  /\ clients'[s] \subseteq rows'[h'[s]]
                      /\ pc'[s] = "start" => clients'[s] = {}
  BY DEF SnapshotInv
<1>2. \A k \in Heights : rows[k] \subseteq rows[k]'
  BY NothingIsRemoved
<1>3. clients[s] \subseteq rows[h[s]] /\ (pc[s] = "start" => clients[s] = {})
  BY DEF SnapshotInv
<1>4. h[s] \in Heights
  BY DEF TypeOK
<1>5. CASE \A r \in Registrations : ~Handle(r)
  BY <1>2, <1>3, <1>4, <1>5, OtherSteps
<1>6. ASSUME NEW r \in Registrations, Handle(r), r # s
      PROVE  /\ clients'[s] \subseteq rows'[h'[s]]
             /\ pc'[s] = "start" => clients'[s] = {}
  BY <1>2, <1>3, <1>4, <1>6, HandlerSteps
<1>7. CASE Handle(s)
  BY <1>2, <1>3, <1>4, <1>7, HandlerSteps
<1>8. QED
  BY <1>5, <1>6, <1>7

LEMMA StepOrdered ==
  ASSUME TypeOK, SnapshotInv, OrderedInv, [Next]_vars
  PROVE  OrderedInv'
<1> DEFINE Ordered(S, T) == S \subseteq T \/ T \subseteq S
<1>1. SUFFICES ASSUME NEW r \in Registrations, NEW s \in Registrations, h'[r] = h'[s]
               PROVE  Ordered(clients'[r], clients'[s])
  BY DEF OrderedInv
<1>2. h[r] = h[s] => Ordered(clients[r], clients[s])
  BY DEF OrderedInv
<1>3. CASE \A q \in Registrations : ~Handle(q)
  BY <1>1, <1>2, <1>3, OtherSteps
<1>4. ASSUME NEW q \in Registrations, Handle(q), q # r, q # s
      PROVE  Ordered(clients'[r], clients'[s])
  BY <1>1, <1>2, <1>4, HandlerSteps
\* The handler that moves has just begun, or has just read the table.
<1>5. ASSUME NEW q \in Registrations, NEW p \in Registrations, Handle(q), p # q,
             h'[p] = h'[q]
      PROVE  Ordered(clients'[p], clients'[q])
  <2>1. clients[p] \subseteq rows[h[p]] /\ (pc[q] = "start" => clients[q] = {})
    BY DEF SnapshotInv
  <2>2. h[p] = h[q] => Ordered(clients[p], clients[q])
    BY DEF OrderedInv
  <2>3. QED
    BY <1>5, <2>1, <2>2, HandlerSteps
<1>6. QED
  BY <1>1, <1>3, <1>4, <1>5

\* The loop over the sockets has passed connected members only.
LEMMA StepCalling ==
  ASSUME TypeOK, CallingInv, [Next]_vars
  PROVE  CallingInv'
<1> DEFINE Calling(s) ==
      /\ pc'[s] \in {"collecting", "notifying"} => IsFull(clients'[s])
      /\ pc'[s] = "collecting" => clients'[s] \ todo'[s] \subseteq connected'
      /\ pc'[s] = "notifying" => clients'[s] \subseteq connected'
<1>1. SUFFICES ASSUME NEW s \in Registrations PROVE Calling(s)
  BY DEF CallingInv, IsFull
<1>2. connected \subseteq connected'
  BY NothingIsRemoved
<1>3. /\ pc[s] \in {"collecting", "notifying"} => IsFull(clients[s])
      /\ pc[s] = "collecting" => clients[s] \ todo[s] \subseteq connected
      /\ pc[s] = "notifying" => clients[s] \subseteq connected
  BY DEF CallingInv
<1>4. CASE \A r \in Registrations : ~Handle(r)
  BY <1>2, <1>3, <1>4, OtherSteps
<1>5. ASSUME NEW r \in Registrations, Handle(r), r # s PROVE Calling(s)
  BY <1>2, <1>3, <1>5, HandlerSteps
<1>6. CASE Connect(s)
  BY <1>6 DEF Connect, Goto, TypeOK
<1>7. CASE Collect(s)
  <2>1. PICK d \in todo[s] \cap connected :
          IF todo[s] = {d}
          THEN todo' = [todo EXCEPT ![s] = clients[s]] /\ Goto(s, "notifying")
          ELSE todo' = [todo EXCEPT ![s] = @ \ {d}] /\ UNCHANGED pc
    BY <1>7 DEF Collect
  <2>2. pc[s] = "collecting" /\ clients' = clients /\ connected' = connected
    BY <1>7 DEF Collect
  <2>3. CASE todo[s] = {d}
    <3>1. pc'[s] = "notifying"
      BY <2>1, <2>3 DEF Goto, TypeOK
    <3>2. QED
      BY <1>3, <2>1, <2>2, <2>3, <3>1
  <2>4. CASE todo[s] # {d}
    <3>1. todo'[s] = todo[s] \ {d} /\ pc'[s] = "collecting"
      BY <2>1, <2>2, <2>4 DEF TypeOK
    <3>2. QED
      BY <1>3, <2>1, <2>2, <3>1
  <2>5. QED
    BY <2>3, <2>4
<1>8. CASE Notify(s)
  <2>1. PICK d \in todo[s] : Goto(s, IF todo[s] = {d} THEN "done" ELSE "notifying")
    BY <1>8 DEF Notify
  <2>2. /\ pc[s] = "notifying" /\ pc'[s] \in {"notifying", "done"}
        /\ clients' = clients /\ connected' = connected
    BY <1>8, <2>1 DEF Notify, Goto, TypeOK
  <2>3. QED
    BY <1>3, <2>2
<1>9. CASE Handle(s) /\ ~Connect(s) /\ ~Collect(s) /\ ~Notify(s)
  <2>1. pc'[s] \notin {"collecting", "notifying"}
    BY <1>9 DEF Handle, ReadHeight, CountRows, Join, JoinFails, Upgrade, UpgradeFails,
       CollectFails, NotifyFails, Goto, TypeOK
  <2>2. QED
    BY <2>1
<1>10. QED
  BY <1>4, <1>5, <1>6, <1>7, <1>8, <1>9

\* Messages come from Notify only.
LEMMA ReadySteps ==
  ASSUME [Next]_vars, \A r \in Registrations : ~Notify(r)
  PROVE  ready' = ready
BY DEF Next, Handle, PreRegister, CommitBlock, ReadHeight, CountRows, Join, JoinFails, Upgrade,
   UpgradeFails, Connect, Collect, CollectFails, NotifyFails, vars

LEMMA StepReady ==
  ASSUME TypeOK, CallingInv, ReadyInv, [Next]_vars
  PROVE  ReadyInv'
<1> DEFINE SentBy(r, m) ==
      /\ pc'[r] \in {"notifying", "done"} /\ h'[r] = m.height /\ clients'[r] = m.idList
<1>1. SUFFICES ASSUME NEW m \in ready'
               PROVE  /\ IsFull(m.idList) /\ m.idList \subseteq connected'
                      /\ \E r \in Registrations : SentBy(r, m)
  BY DEF ReadyInv, IsFull
<1>2. connected \subseteq connected'
  BY NothingIsRemoved
<1>3. CASE m \in ready
  <2>1. PICK r \in Registrations :
          pc[r] \in {"notifying", "done"} /\ h[r] = m.height /\ clients[r] = m.idList
    BY <1>3 DEF ReadyInv
  <2>2. SentBy(r, m)
    <3>1. CASE \A q \in Registrations : ~Handle(q)
      BY <2>1, <3>1, OtherSteps
    <3>2. ASSUME NEW q \in Registrations, Handle(q), q # r PROVE SentBy(r, m)
      BY <2>1, <3>2, HandlerSteps
    <3>3. CASE Handle(r)
      BY <2>1, <3>3, HandlerSteps
    <3>4. QED
      BY <3>1, <3>2, <3>3
  <2>3. QED
    BY <1>2, <1>3, <2>2 DEF ReadyInv
<1>4. CASE m \notin ready
  <2>1. PICK r \in Registrations : Notify(r)
    BY <1>1, <1>4, ReadySteps
  <2>2. m.height = h[r] /\ m.idList = clients[r]
    BY <1>1, <1>4, <2>1 DEF Notify
  <2>3. pc[r] = "notifying" /\ h' = h /\ clients' = clients
    BY <2>1 DEF Notify
  <2>4. pc'[r] \in {"notifying", "done"}
    BY <2>1, <2>3, HandlerSteps DEF Handle
  <2>5. IsFull(clients[r]) /\ clients[r] \subseteq connected
    BY <2>3 DEF CallingInv
  <2>6. QED
    BY <1>2, <2>2, <2>3, <2>4, <2>5
<1>5. QED
  BY <1>3, <1>4

-----------------------------------------------------------------------------
(* Theorems.                                                               *)

LEMMA InitInvariant == Init => IndInv
<1> SUFFICES ASSUME Init PROVE IndInv
  OBVIOUS
<1>1. TypeOK
  BY InitTypes
<1>2. SnapshotInv /\ OrderedInv /\ CallingInv /\ ReadyInv
  BY DEF Init, SnapshotInv, OrderedInv, CallingInv, ReadyInv
<1>3. QED
  BY <1>1, <1>2 DEF IndInv

LEMMA StepInvariant == IndInv /\ [Next]_vars => IndInv'
BY StepTypes, StepSnapshot, StepOrdered, StepCalling, StepReady DEF IndInv

(* Whatever the interleaving of the registrations and the failures of their
   transactions and sockets, what handlers read of the table stays ordered and
   every message is from a handler that has read its list as a full committee. *)
THEOREM IndInvariant == Spec => []IndInv
BY InitInvariant, StepInvariant, PTL DEF Spec

(* Every reachable state of the registration is type correct: the lists sent are
   lists of registrations, and the count of waiting rows is never negative. *)
THEOREM TypeCorrect == Spec => []TypeOK
<1>1. IndInv => TypeOK
  BY DEF IndInv
<1>2. QED
  BY <1>1, IndInvariant, PTL

LEMMA OneList == IndInv => OneCommittee
<1> SUFFICES ASSUME IndInv, NEW m \in ready
             PROVE  /\ Cardinality(m.idList) = OrderClientNum
                    /\ \A n \in ready : n.height = m.height => n.idList = m.idList
  BY DEF OneCommittee
<1>1. Cardinality(m.idList) = OrderClientNum
  BY DEF IndInv, ReadyInv, IsFull
<1>2. ASSUME NEW n \in ready, n.height = m.height PROVE n.idList = m.idList
  <2>1. PICK r \in Registrations : h[r] = m.height /\ clients[r] = m.idList
    BY DEF IndInv, ReadyInv
  <2>2. PICK s \in Registrations : h[s] = n.height /\ clients[s] = n.idList
    BY DEF IndInv, ReadyInv
  <2>3. IsFull(clients[r]) /\ IsFull(clients[s])
    BY <2>1, <2>2 DEF IndInv, ReadyInv
  <2>4. clients[r] \subseteq clients[s] \/ clients[s] \subseteq clients[r]
    BY <1>2, <2>1, <2>2 DEF IndInv, OrderedInv
  <2>5. clients[r] \in SUBSET Registrations /\ clients[s] \in SUBSET Registrations
    BY DEF IndInv, TypeOK
  <2>6. clients[r] = clients[s]
    BY <2>3, <2>4, <2>5, SameFullList
  <2>7. QED
    BY <2>1, <2>2, <2>6
<1>3. QED
  BY <1>1, <1>2

(* No two members are told to order the same block with different lists, however
   many handlers of RegisterCommunication find the committee full at once. *)
THEOREM OneCommitteeCalled == Spec => []OneCommittee
BY OneList, IndInvariant, PTL

LEMMA Connected == IndInv => ListedMembersAreConnected
<1> SUFFICES ASSUME IndInv, NEW m \in ready
             PROVE  m.idList \subseteq rows[m.height] \cap connected
  BY DEF ListedMembersAreConnected
<1>1. PICK r \in Registrations : h[r] = m.height /\ clients[r] = m.idList
  BY DEF IndInv, ReadyInv
<1>2. m.idList \subseteq rows[m.height]
  BY <1>1 DEF IndInv, SnapshotInv
<1>3. m.idList \subseteq connected
  BY DEF IndInv, ReadyInv
<1>4. QED
  BY <1>2, <1>3

(* The list a member is sent names only rows of its block with a socket in
   ConsensusCommunicationmap: MessageReady is sent after the loop at lines
   147-154 has found them all, and nothing is ever taken out. *)
THEOREM ListsAreConnected == Spec => []ListedMembersAreConnected
BY Connected, IndInvariant, PTL

-----------------------------------------------------------------------------
(* The refinement.                                                         *)

LEMMA SameCardinality == \A S : E!Cardinality(S) = Cardinality(S)
BY DEF E!Cardinality, Cardinality

\* Messages for block k all carry list S: S is the committee called for k.
LEMMA CalledIs ==
  ASSUME NEW k \in Heights, NEW S, NEW m \in ready, m.height = k,
         \A n \in ready : n.height = k => n.idList = S
  PROVE  Called[k] = S
BY DEF Called

LEMMA NobodyCalled ==
  ASSUME NEW k \in Heights, \A n \in ready : n.height # k
  PROVE  Called[k] = {}
BY DEF Called

LEMMA InitElects == Init => E!Init
<1> SUFFICES ASSUME Init PROVE Called = [k \in Heights |-> {}]
  BY DEF E!Init
<1>1. ASSUME NEW k \in Heights PROVE Called[k] = {}
  BY NobodyCalled DEF Init
<1>2. QED
  BY <1>1 DEF Called

LEMMA StepElects ==
  ASSUME TypeOK, OneCommittee, OneCommittee', [Next]_vars
  PROVE  E!Next \/ UNCHANGED Called
<1>1. CASE \A r \in Registrations : ~Notify(r)
  <2>1. ready' = ready
    BY <1>1, ReadySteps
  <2>2. QED
    BY <2>1 DEF Called
<1>2. ASSUME NEW r \in Registrations, Notify(r)
      PROVE  E!Next \/ UNCHANGED Called
  <2> DEFINE k == h[r]
             S == clients[r]
  <2>1. PICK d \in todo[r] : ready' = ready \cup {[height |-> k, to |-> d, idList |-> S]}
    BY <1>2 DEF Notify
  <2>2. k \in Heights /\ S \in SUBSET Registrations
    BY DEF TypeOK
  <2>3. ASSUME NEW j \in Heights, j # k PROVE Called'[j] = Called[j]
    <3>1. {n \in ready' : n.height = j} = {n \in ready : n.height = j}
      BY <2>1, <2>3
    <3>2. QED
      BY <3>1 DEF Called
  <2>4. /\ Cardinality(S) = OrderClientNum
        /\ \A n \in ready' : n.height = k => n.idList = S
    <3> DEFINE m == [height |-> k, to |-> d, idList |-> S]
    <3>1. m \in ready' /\ m.height = k /\ m.idList = S
      BY <2>1
    <3>2. /\ Cardinality(m.idList) = OrderClientNum
          /\ \A n \in ready' : n.height = m.height => n.idList = m.idList
      BY <3>1 DEF OneCommittee
    <3>3. QED
      BY <3>1, <3>2
  <2>5. Called'[k] = S
    <3>1. \E m \in ready' : m.height = k
      <4>1. [height |-> k, to |-> d, idList |-> S] \in ready'
        BY <2>1
      <4>2. [height |-> k, to |-> d, idList |-> S].height = k
        OBVIOUS
      <4>3. QED
        BY <4>1, <4>2
    <3>2. UNION {n.idList : n \in {x \in ready' : x.height = k}} = S
      BY <2>4, <3>1
    <3>3. QED
      BY <2>2, <3>2 DEF Called
  <2>6. CASE \E m \in ready : m.height = k
    <3>1. \A n \in ready : n.height = k => n.idList = S
      BY <2>1, <2>4
    <3>2. Called[k] = S
      BY <2>2, <2>6, <3>1, CalledIs
    <3>3. Called' = Called
      BY <2>3, <2>5, <3>2 DEF Called
    <3>4. QED
      BY <3>3
  <2>7. CASE \A m \in ready : m.height # k
    <3>1. Called[k] = {}
      BY <2>2, <2>7, NobodyCalled
    <3>2. Called' = [Called EXCEPT ![k] = S]
      BY <2>2, <2>3, <2>5 DEF Called
    <3>3. E!Elect(k, S)
      BY <2>4, <3>1, <3>2, SameCardinality DEF E!Elect
    <3>4. QED
      BY <2>2, <3>3 DEF E!Next
  <2>8. QED
    BY <2>6, <2>7
<1>3. QED
  BY <1>1, <1>2

(* Seen from outside, the registration elects: the first MessageReady for a block
   fixes its committee, of OrderClientNum members, and later messages, double
   notifications among them, change nothing. *)
THEOREM RegistrationImplementsElection == Spec => ImplementsElection
<1>1. Init => E!Init
  BY InitElects
<1>2. TypeOK /\ OneCommittee /\ OneCommittee' /\ [Next]_vars => [E!Next]_Called
  BY StepElects
<1>3. QED
  BY <1>1, <1>2, TypeCorrect, OneCommitteeCalled, PTL DEF Spec, ImplementsElection, E!Spec
=============================================================================
