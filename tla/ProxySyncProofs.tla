-------------------------- MODULE ProxySyncProofs --------------------------
(***************************************************************************)
(* Proofs about ProxySync, for every value of its constants: types,        *)
(* NothingLost, NumbersUnique, and that it implements DeltaOutbox.         *)
(***************************************************************************)
EXTENDS ProxySync, FiniteSetTheorems, TLAPS

(* The types of the numbers that the constants bound.                      *)
LEMMA DeltaType ==
    ASSUME NEW d \in Delta
    PROVE  /\ d.seq \in 0 .. SeqLimit - 1
           /\ d.seq \in Nat
           /\ d.key \in Keys
           /\ d.op \in {"upsert_node", "delete_node", "upsert_edge"}
BY ProxyAssumption DEF Delta

(* The wait the loop computes after a sync() is again within its limits.   *)
LEMMA DoubledType ==
    ASSUME NEW b \in Waits \ {0}
    PROVE  Doubled(b) \in Waits
BY ProxyAssumption DEF Doubled, Waits

(* What the end of a sync() leaves in the variables it writes.             *)
LEMMA EndSyncType ==
    ASSUME TypeOK, NEW s \in Syncers, NEW ok \in BOOLEAN, EndSync(s, ok)
    PROVE  /\ phase' \in [Syncers -> {"idle", "posted", "answered"}]
           /\ batch' \in [Syncers -> SUBSET Delta]
           /\ reply' \in [Syncers -> SUBSET (0 .. SeqLimit - 1)]
           /\ backoff' \in Waits
           /\ \A t \in Syncers : batch'[t] \subseteq batch[t] /\ reply'[t] \subseteq reply[t]
<1>1. SyncInterval \in Waits
  BY DEF Waits
<1>2. backoff' \in Waits
  <2>1. CASE s # Loop
    BY <2>1 DEF EndSync, TypeOK
  <2>2. CASE s = Loop /\ backoff = 0
    BY <2>2, <1>1 DEF EndSync, TypeOK
  <2>3. CASE s = Loop /\ backoff # 0
    <3>1. backoff \in Waits \ {0}
      BY <2>3 DEF TypeOK
    <3>2. backoff' = IF ok THEN SyncInterval ELSE Doubled(backoff)
      BY <2>3 DEF EndSync
    <3>. QED
      BY <3>1, <3>2, <1>1, DoubledType
  <2>. QED
    BY <2>1, <2>2, <2>3
<1>. QED
  BY <1>2 DEF EndSync, TypeOK

(* The numbers of a set of deltas.                                         *)
LEMMA SeqsType ==
    ASSUME NEW D \in SUBSET Delta
    PROVE  Seqs(D) \subseteq 0 .. SeqLimit - 1
BY DeltaType DEF Seqs

----------------------------------------------------------------------------
(* Every step keeps the types. *)
LEMMA TypeStep == TypeOK /\ [Next]_vars => TypeOK'
<1> SUFFICES ASSUME TypeOK, [Next]_vars PROVE TypeOK'
  OBVIOUS
<1> USE ProxyAssumption DEF TypeOK
<1>1. ASSUME NEW k \in Keys, NEW op \in StoreOps(k), BeginWrite(k, op) PROVE TypeOK'
  <2>1. nextSeq \in 0 .. SeqLimit - 1 /\ nextSeq' \in Nat /\ leased' \in Nat
    BY <1>1 DEF BeginWrite, NextSeq
  <2>2. [seq |-> nextSeq, op |-> op, key |-> k] \in Delta
    BY <1>1, <2>1 DEF Delta, StoreOps
  <2>. QED
    BY <1>1, <2>1, <2>2 DEF BeginWrite, sync
<1>2. ASSUME NEW d \in open, CommitWrite(d) PROVE TypeOK'
  <2>1. d \in Delta
    OBVIOUS
  <2>2. graph' \in [Keys -> {Absent} \cup (0 .. SeqLimit - 1)]
    BY <1>2, <2>1, DeltaType DEF CommitWrite
  <2>. QED
    BY <1>2, <2>1, <2>2 DEF CommitWrite, sync
<1>3. ASSUME NEW d \in open, AbortWrite(d) PROVE TypeOK'
  BY <1>3 DEF AbortWrite, sync
<1>4. ASSUME NEW s \in Syncers, NEW ok \in BOOLEAN, SyncNothing(s, ok) PROVE TypeOK'
  <2>1. EndSync(s, ok)
    BY <1>4 DEF SyncNothing
  <2>. QED
    BY <1>4, <2>1, EndSyncType DEF SyncNothing, store
<1>5. ASSUME NEW s \in Syncers, Post(s) PROVE TypeOK'
  BY <1>5 DEF Post, store, Oldest
<1>6. ASSUME NEW s \in Syncers, GiveUp(s) PROVE TypeOK'
  <2>1. EndSync(s, FALSE)
    BY <1>6 DEF GiveUp
  <2>2. late' \subseteq SUBSET Delta
    BY <1>6 DEF GiveUp, StillUnderWay
  <2>. QED
    BY <1>6, <2>1, <2>2, EndSyncType DEF GiveUp, store
<1>7. ASSUME NEW s \in Syncers, Answer(s) PROVE TypeOK'
  <2>1. Acknowledged(batch[s]) \subseteq Delta
    BY DEF Acknowledged
  <2>2. Seqs(Acknowledged(batch[s])) \subseteq 0 .. SeqLimit - 1
    BY <2>1, SeqsType
  <2>. QED
    BY <1>7, <2>1, <2>2 DEF Answer, store
<1>8. ASSUME NEW s \in Syncers, LoseReply(s) PROVE TypeOK'
  <2>1. EndSync(s, FALSE)
    BY <1>8 DEF LoseReply
  <2>. QED
    BY <1>8, <2>1, EndSyncType DEF LoseReply, store
<1>9. ASSUME NEW s \in Syncers, Ack(s) PROVE TypeOK'
  <2>1. EndSync(s, TRUE)
    BY <1>9 DEF Ack
  <2>. QED
    BY <1>9, <2>1, EndSyncType DEF Ack, Unacked
<1>10. ASSUME NEW s \in Syncers, AckFails(s) PROVE TypeOK'
  <2>1. EndSync(s, TRUE)
    BY <1>10 DEF AckFails
  <2>. QED
    BY <1>10, <2>1, EndSyncType DEF AckFails, store
<1>11. ASSUME NEW b \in late, LateArrival(b) PROVE TypeOK'
  BY <1>11 DEF LateArrival, store, Acknowledged
<1>12. ASSUME ForgetMemory, nextSeq' \in Nat, leased' \in Nat PROVE TypeOK'
  <2>1. late' \subseteq SUBSET Delta
    BY <1>12 DEF ForgetMemory, StillUnderWay
  <2>2. 0 \in Waits
    BY DEF Waits
  <2>. QED
    BY <1>12, <2>1, <2>2 DEF ForgetMemory
<1>13. CASE Crash
  BY <1>12, <1>13 DEF Crash
<1>14. CASE Shutdown
  BY <1>12, <1>14 DEF Shutdown
<1>15. CASE UNCHANGED vars
  BY <1>15 DEF vars
<1>. QED
  BY <1>1, <1>2, <1>3, <1>4, <1>5, <1>6, <1>7, <1>8, <1>9, <1>10, <1>11, <1>13, <1>14, <1>15
  DEF Next

(* The variables of the proxy keep their types, and the loop's wait is its *)
(* interval, the cap or between the two, whichever is the longer.          *)
THEOREM TypeCorrect == Spec => []TypeOK
<1>1. Init => TypeOK
  BY ProxyAssumption DEF Init, TypeOK, Absent, Waits
<1>. QED
  BY <1>1, TypeStep, PTL DEF Spec

----------------------------------------------------------------------------
(* The inductive invariant behind the safety properties.                   *)
IInv == Consistent /\ NumbersUnique /\ NothingLost

(* The end of a sync() only forgets batches and answers.                   *)
LEMMA EndSyncShrinks ==
    ASSUME TypeOK, NEW s \in Syncers, NEW ok \in BOOLEAN, EndSync(s, ok),
           NEW t \in Syncers
    PROVE  batch'[t] \subseteq batch[t] /\ reply'[t] \subseteq reply[t]
BY EndSyncType

(* A step that only ends a sync(), or forgets late batches, keeps IInv.    *)
LEMMA QuietStep ==
    ASSUME TypeOK, IInv, UNCHANGED <<store, received>>,
           \A t \in Syncers : batch'[t] \subseteq batch[t] /\ reply'[t] \subseteq reply[t],
           \A b \in late' : b \subseteq made
    PROVE  IInv'
BY DEF IInv, Consistent, NumbersUnique, NothingLost, store, Seqs

(* Every step keeps the safety invariant.                                    *)
LEMMA SafetyStep == TypeOK /\ IInv /\ [Next]_vars => IInv'
<1> SUFFICES ASSUME TypeOK, IInv, [Next]_vars PROVE IInv'
  OBVIOUS
<1>1. ASSUME NEW k \in Keys, NEW op \in StoreOps(k), BeginWrite(k, op) PROVE IInv'
  <2> DEFINE d0 == [seq |-> nextSeq, op |-> op, key |-> k]
  <2>1. /\ open' = open \cup {d0}
        /\ UNCHANGED <<graph, queue, made, sync, received>>
        /\ nextSeq' = nextSeq + 1 /\ nextSeq' <= leased'
        /\ nextSeq \in Nat
    BY <1>1, ProxyAssumption DEF BeginWrite, NextSeq, TypeOK, IInv, Consistent
  <2>2. \A d \in made \cup open : d.seq < nextSeq /\ d.seq \in Nat
    BY DeltaType DEF IInv, Consistent, TypeOK
  <2>3. \A d \in made' \cup open' : d.seq < nextSeq'
    BY <2>1, <2>2
  <2>4. d0 \notin made
    BY <2>1, <2>2
  <2>5. NumbersUnique'
    BY <2>1, <2>2 DEF IInv, NumbersUnique
  <2>6. Consistent'
    BY <2>1, <2>3, <2>4 DEF IInv, Consistent, sync
  <2>. QED
    BY <2>1, <2>5, <2>6 DEF IInv, NothingLost
<1>2. ASSUME NEW d \in open, CommitWrite(d) PROVE IInv'
  <2>1. /\ open' = open \ {d} /\ made' = made \cup {d}
        /\ queue' = {e \in queue : e.seq # d.seq} \cup {d}
        /\ UNCHANGED <<nextSeq, leased, sync, received>>
    BY <1>2 DEF CommitWrite
  <2>2. \A e \in queue : e.seq # d.seq
    BY DEF IInv, Consistent, NumbersUnique
  <2>3. queue' = queue \cup {d}
    BY <2>1, <2>2
  <2>4. made' \cup open' = made \cup open
    BY <2>1
  <2>5. NumbersUnique'
    BY <2>4 DEF IInv, NumbersUnique
  <2>6. Consistent'
    BY <2>1, <2>3, <2>4 DEF IInv, Consistent, sync
  <2>. QED
    BY <2>1, <2>3, <2>5, <2>6 DEF IInv, NothingLost
<1>3. ASSUME NEW d \in open, AbortWrite(d) PROVE IInv'
  BY <1>3 DEF AbortWrite, IInv, Consistent, NumbersUnique, NothingLost, sync
<1>4. ASSUME NEW s \in Syncers, NEW ok \in BOOLEAN, SyncNothing(s, ok) PROVE IInv'
  <2>1. EndSync(s, ok) /\ UNCHANGED <<store, late, received>>
    BY <1>4 DEF SyncNothing
  <2>. QED
    BY <2>1, EndSyncShrinks, QuietStep DEF IInv, Consistent
<1>5. ASSUME NEW s \in Syncers, Post(s) PROVE IInv'
  <2>1. \A t \in Syncers : batch'[t] \subseteq made
    BY <1>5 DEF Post, Oldest, IInv, Consistent, TypeOK
  <2>. QED
    BY <1>5, <2>1 DEF Post, IInv, Consistent, NumbersUnique, NothingLost, store
<1>6. ASSUME NEW s \in Syncers, GiveUp(s) PROVE IInv'
  <2>1. EndSync(s, FALSE) /\ UNCHANGED <<store, received>>
    BY <1>6 DEF GiveUp
  <2>2. \A b \in late' : b \subseteq made
    BY <1>6 DEF GiveUp, StillUnderWay, IInv, Consistent
  <2>. QED
    BY <2>1, <2>2, EndSyncShrinks, QuietStep
<1>7. ASSUME NEW s \in Syncers, Answer(s) PROVE IInv'
  <2>1. /\ received' = received \cup Acknowledged(batch[s])
        /\ Acknowledged(batch[s]) \subseteq made
        /\ UNCHANGED <<store, batch, late>>
    BY <1>7 DEF Answer, Acknowledged, IInv, Consistent
  <2>2. \A t \in Syncers : reply'[t] \subseteq Seqs(received')
    BY <1>7 DEF Answer, Seqs, IInv, Consistent, TypeOK
  <2>. QED
    BY <2>1, <2>2 DEF IInv, Consistent, NumbersUnique, NothingLost, store
<1>8. ASSUME NEW s \in Syncers, LoseReply(s) PROVE IInv'
  <2>1. EndSync(s, FALSE) /\ UNCHANGED <<store, late, received>>
    BY <1>8 DEF LoseReply
  <2>. QED
    BY <2>1, EndSyncShrinks, QuietStep DEF IInv, Consistent
<1>9. ASSUME NEW s \in Syncers, Ack(s) PROVE IInv'
  <2>1. /\ EndSync(s, TRUE)
        /\ queue' = Unacked(queue, reply[s])
        /\ UNCHANGED <<graph, nextSeq, leased, open, made, late, received>>
    BY <1>9 DEF Ack
  <2>2. \A t \in Syncers : batch'[t] \subseteq batch[t] /\ reply'[t] \subseteq reply[t]
    BY <2>1, EndSyncShrinks
  <2>3. ASSUME NEW d \in queue, d \notin queue' PROVE d \in received
    <3>1. d.seq \in reply[s]
      BY <2>1, <2>3 DEF Unacked
    <3>2. PICK e \in received : e.seq = d.seq
      BY <3>1 DEF IInv, Consistent, Seqs
    <3>. QED
      BY <3>2 DEF IInv, Consistent, NumbersUnique
  <2>4. NothingLost'
    BY <2>1, <2>3 DEF IInv, NothingLost
  <2>. QED
    BY <2>1, <2>2, <2>4 DEF IInv, Consistent, NumbersUnique, Unacked
<1>10. ASSUME NEW s \in Syncers, AckFails(s) PROVE IInv'
  <2>1. EndSync(s, TRUE) /\ UNCHANGED <<store, late, received>>
    BY <1>10 DEF AckFails
  <2>. QED
    BY <2>1, EndSyncShrinks, QuietStep DEF IInv, Consistent
<1>11. ASSUME NEW b \in late, LateArrival(b) PROVE IInv'
  <2>1. Acknowledged(b) \subseteq made
    BY DEF Acknowledged, IInv, Consistent
  <2>. QED
    BY <1>11, <2>1 DEF LateArrival, IInv, Consistent, NumbersUnique, NothingLost, store, Seqs
<1>12. ASSUME ForgetMemory, nextSeq' \in Nat, nextSeq <= nextSeq', nextSeq' <= leased' PROVE IInv'
  <2>1. \A b \in late' : b \subseteq made
    BY <1>12 DEF ForgetMemory, StillUnderWay, IInv, Consistent
  <2>2. \A d \in made' \cup open' : d.seq < nextSeq'
    BY <1>12, DeltaType DEF ForgetMemory, IInv, Consistent, TypeOK
  <2>. QED
    BY <1>12, <2>1, <2>2 DEF ForgetMemory, IInv, Consistent, NumbersUnique, NothingLost, Seqs
<1>13. CASE Crash
  BY <1>12, <1>13, ProxyAssumption DEF Crash, IInv, Consistent, TypeOK
<1>14. CASE Shutdown
  BY <1>12, <1>14, ProxyAssumption DEF Shutdown, IInv, Consistent, TypeOK
<1>15. CASE UNCHANGED vars
  BY <1>15 DEF vars, IInv, Consistent, NumbersUnique, NothingLost, Seqs
<1>. QED
  BY <1>1, <1>2, <1>3, <1>4, <1>5, <1>6, <1>7, <1>8, <1>9, <1>10, <1>11, <1>13, <1>14, <1>15
  DEF Next

(* IInv holds in every reachable state.                                    *)
LEMMA SafetyInvariant == Spec => []IInv
<1>1. Init => IInv
  BY ProxyAssumption DEF Init, IInv, Consistent, NumbersUnique, NothingLost, Seqs
<1>. QED
  BY <1>1, SafetyStep, TypeCorrect, PTL DEF Spec

(* "All changes are buffered locally - nothing is lost", for any number of *)
(* concurrent writers, force-syncs, crashes and late batches.              *)
THEOREM NothingIsLost == Spec => []NothingLost
BY SafetyInvariant, PTL DEF IInv

(* No two deltas ever share a sequence number.                             *)
THEOREM NumbersAreUnique == Spec => []NumbersUnique
BY SafetyInvariant, PTL DEF IInv

----------------------------------------------------------------------------
(* Every step of the proxy is a step of the outbox or leaves it alone.     *)
LEMMA OutboxStep == TypeOK /\ IInv /\ [Next]_vars => [Outbox!Next]_(Outbox!vars)
<1> SUFFICES ASSUME TypeOK, IInv, [Next]_vars PROVE [Outbox!Next]_(Outbox!vars)
  OBVIOUS
<1>1. ASSUME UNCHANGED <<made, queue, received>> PROVE [Outbox!Next]_(Outbox!vars)
  BY <1>1 DEF Outbox!vars
<1>2. ASSUME NEW D \in SUBSET made, received' = received \cup D, UNCHANGED <<made, queue>>
      PROVE  [Outbox!Next]_(Outbox!vars)
  BY <1>2 DEF Outbox!Next, Outbox!Deliver
<1>3. ASSUME NEW d \in open, CommitWrite(d) PROVE [Outbox!Next]_(Outbox!vars)
  <2>1. \A e \in queue : e.seq # d.seq
    BY DEF IInv, Consistent, NumbersUnique
  <2>2. queue' = queue \cup {d} /\ made' = made \cup {d} /\ received' = received
    BY <1>3, <2>1 DEF CommitWrite
  <2>3. d \in Delta \ made
    BY DEF IInv, Consistent, TypeOK
  <2>. QED
    BY <2>2, <2>3 DEF Outbox!Next, Outbox!Make
<1>4. ASSUME NEW s \in Syncers, Ack(s) PROVE [Outbox!Next]_(Outbox!vars)
  <2> DEFINE D == queue \ queue'
  <2>1. queue' = Unacked(queue, reply[s]) /\ made' = made /\ received' = received
    BY <1>4 DEF Ack
  <2>2. ASSUME NEW d \in D PROVE d \in received
    <3>1. d \in queue /\ d.seq \in reply[s]
      BY <2>1 DEF Unacked
    <3>2. PICK e \in received : e.seq = d.seq
      BY <3>1 DEF IInv, Consistent, Seqs
    <3>. QED
      BY <3>1, <3>2 DEF IInv, Consistent, NumbersUnique
  <2>3. D \subseteq queue /\ D \subseteq received /\ queue' = queue \ D
    BY <2>1, <2>2 DEF Unacked
  <2>4. Outbox!Forget(D)
    BY <2>1, <2>3 DEF Outbox!Forget
  <2>. QED
    BY <2>3, <2>4 DEF Outbox!Next
<1>5. ASSUME NEW s \in Syncers, Answer(s) PROVE [Outbox!Next]_(Outbox!vars)
  <2>1. Acknowledged(batch[s]) \in SUBSET made
    BY DEF Acknowledged, IInv, Consistent
  <2>. QED
    BY <1>2, <1>5, <2>1 DEF Answer, store
<1>6. ASSUME NEW b \in late, LateArrival(b) PROVE [Outbox!Next]_(Outbox!vars)
  <2>1. Acknowledged(b) \in SUBSET made
    BY DEF Acknowledged, IInv, Consistent
  <2>. QED
    BY <1>2, <1>6, <2>1 DEF LateArrival, store
<1>7. ASSUME NEW k \in Keys, NEW op \in StoreOps(k), BeginWrite(k, op)
      PROVE  [Outbox!Next]_(Outbox!vars)
  BY <1>1, <1>7 DEF BeginWrite
<1>8. ASSUME NEW d \in open, AbortWrite(d) PROVE [Outbox!Next]_(Outbox!vars)
  BY <1>1, <1>8 DEF AbortWrite
<1>9. ASSUME NEW s \in Syncers,
             (\E ok \in BOOLEAN : SyncNothing(s, ok)) \/ Post(s) \/ GiveUp(s)
             \/ LoseReply(s) \/ AckFails(s)
      PROVE  [Outbox!Next]_(Outbox!vars)
  BY <1>1, <1>9 DEF SyncNothing, Post, GiveUp, LoseReply, AckFails, store
<1>10. CASE Crash \/ Shutdown
  BY <1>1, <1>10 DEF Crash, Shutdown, ForgetMemory
<1>11. CASE UNCHANGED vars
  BY <1>1, <1>11 DEF vars
<1>. QED
  BY <1>3, <1>4, <1>5, <1>6, <1>7, <1>8, <1>9, <1>10, <1>11 DEF Next

(* The proxy implements the outbox its README promises: changes are        *)
(* buffered as they are made and forgotten only when the cloud has them.   *)
THEOREM ImplementsOutbox == Spec => OutboxSpec
<1>1. Init => Outbox!Init
  BY DEF Init, Outbox!Init
<1>. QED
  BY <1>1, OutboxStep, TypeCorrect, SafetyInvariant, PTL DEF Spec, OutboxSpec, Outbox!Spec

----------------------------------------------------------------------------
(***************************************************************************)
(* Ordering.  With one write transaction at a time (MaxOpen <= 1) numbers  *)
(* are committed in the order they are taken, and then deltas reach the    *)
(* cloud in order and replay to the local graph.                           *)
(***************************************************************************)

(* A set of deltas that has, of what was made before its members, all that *)
(* the cloud does not have.                                                *)
ClosedBelow(b) == \A e \in b : \A d \in made : d.seq < e.seq => d \in b \/ d \in received

OrderInv ==
    /\ IsFiniteSet(open) /\ IsFiniteSet(queue)
    /\ \A d, e \in open : d = e
    /\ \A d \in made : \A e \in open : d.seq < e.seq
    /\ \A s \in Syncers : ClosedBelow(batch[s])
    /\ \A b \in late : ClosedBelow(b)
    /\ InOrder
    /\ ReplayGivesGraph

(* The oldest deltas of a queue are closed below within the queue.         *)
LEMMA OldestDownClosed ==
    ASSUME NEW Q \in SUBSET Delta, IsFiniteSet(Q), NEW n \in Nat,
           NEW e \in Oldest(Q, n), NEW d \in Q, d.seq < e.seq
    PROVE  d \in Oldest(Q, n)
<1> DEFINE Below(x) == {y \in Q : y.seq < x.seq}
<1>1. e \in Q /\ Cardinality(Below(e)) < n
  BY DEF Oldest
<1>2. Below(d) \subseteq Below(e)
  BY <1>1, DeltaType
<1>3. IsFiniteSet(Below(e)) /\ IsFiniteSet(Below(d))
  BY FS_Subset
<1>4. Cardinality(Below(d)) <= Cardinality(Below(e))
  BY <1>2, <1>3, FS_Subset
<1>5. Cardinality(Below(d)) \in Nat /\ Cardinality(Below(e)) \in Nat
  BY <1>3, FS_CardinalityType
<1>. QED
  BY <1>1, <1>4, <1>5 DEF Oldest

(* The cloud acknowledges every delta the store makes.                     *)
LEMMA AllAcknowledged == ASSUME NEW b \in SUBSET Delta PROVE Acknowledged(b) = b
BY DeltaType DEF Acknowledged, AckedOps

(* With no write transaction open, the next number is above all others.    *)
LEMMA NoneOpen ==
    ASSUME MaxOpen <= 1, IsFiniteSet(open), Cardinality(open) < MaxOpen
    PROVE  open = {}
BY ProxyAssumption, FS_EmptySet, FS_CardinalityType

(* The last change of each record when d, with the highest number, is made.*)
LEMMA LastAfterCommit ==
    ASSUME TypeOK, NEW d \in Delta, made' = made \cup {d},
           \A e \in made : e.seq < d.seq, NEW k \in Keys
    PROVE  LastOf(k)' = IF k = d.key THEN {d} ELSE LastOf(k)
<1>1. d.seq \in Nat /\ \A e \in made : e.seq \in Nat
  BY DeltaType DEF TypeOK
<1>2. CASE k = d.key
  <2>1. LastOf(k)' = {x \in made \cup {d} : x.key = k /\
                         \A e \in made \cup {d} : e.key = k => e.seq <= x.seq}
    BY DEF LastOf
  <2>2. ASSUME NEW x \in made \cup {d}, d.seq <= x.seq PROVE x = d
    BY <1>1, <2>2
  <2>3. \A e \in made \cup {d} : e.seq <= d.seq
    BY <1>1
  <2>. QED
    BY <1>2, <2>1, <2>2, <2>3
<1>3. CASE k # d.key
  BY <1>3 DEF LastOf
<1>. QED
  BY <1>2, <1>3

(* A step that leaves the store alone and adds to what the cloud has only  *)
(* a set closed below keeps the order.                                     *)
LEMMA ReceiveInOrder ==
    ASSUME TypeOK, IInv, OrderInv, NEW b \in SUBSET made, ClosedBelow(b),
           received' = received \cup b, UNCHANGED made
    PROVE  InOrder' /\ \A c \in SUBSET made : ClosedBelow(c) => ClosedBelow(c)'
<1>1. ASSUME NEW d \in made, NEW e \in made, d.seq < e.seq, e \in received \cup b
      PROVE  d \in received \cup b
  BY <1>1 DEF ClosedBelow, OrderInv, InOrder
<1>2. InOrder'
  BY <1>1 DEF InOrder
<1>3. ASSUME NEW c \in SUBSET made, ClosedBelow(c) PROVE ClosedBelow(c)'
  BY <1>3 DEF ClosedBelow
<1>. QED
  BY <1>2, <1>3

(* Replay depends on the store alone.                                      *)
LEMMA SameReplay ==
    ASSUME ReplayGivesGraph, UNCHANGED <<graph, made>> PROVE ReplayGivesGraph'
BY DEF ReplayGivesGraph, LastOf

(* A step that changes neither what was made nor what the cloud has, ends  *)
(* batches or moves them, and removes from queue and open, keeps the order.*)
LEMMA QuietOrder ==
    ASSUME OrderInv, UNCHANGED <<graph, made, received>>,
           open' \subseteq open, queue' \subseteq queue,
           \A s \in Syncers : ClosedBelow(batch'[s]),
           \A b \in late' : ClosedBelow(b)
    PROVE  OrderInv'
<1>1. IsFiniteSet(open') /\ IsFiniteSet(queue')
  BY FS_Subset DEF OrderInv
<1>3. InOrder'
  BY DEF OrderInv, InOrder
<1>4. ReplayGivesGraph'
  BY SameReplay DEF OrderInv
<1>5. (\A s \in Syncers : ClosedBelow(batch[s]))' /\ (\A b \in late : ClosedBelow(b))'
  BY DEF ClosedBelow
<1>. QED
  BY <1>1, <1>3, <1>4, <1>5 DEF OrderInv

(* A commit: the new delta is the last of all, nothing under way or in the *)
(* cloud lies above it, and it is what the record now holds.               *)
LEMMA CommitOrder ==
    ASSUME TypeOK, IInv, OrderInv, NEW d \in open, CommitWrite(d)
    PROVE  OrderInv'
<1>1. d \in Delta /\ d.seq \in Nat /\ d.key \in Keys
  BY DeltaType DEF TypeOK, Delta
<1>2. made' = made \cup {d} /\ open' = {} /\ UNCHANGED <<batch, late, received>>
  BY DEF CommitWrite, OrderInv, sync
<1>3. \A e \in made : e.seq < d.seq /\ e.seq \in Nat
  BY DeltaType DEF OrderInv, TypeOK
<1>4. IsFiniteSet(open') /\ IsFiniteSet(queue')
  <2>1. IsFiniteSet({e \in queue : e.seq # d.seq})
    BY FS_Subset DEF OrderInv
  <2>. QED
    BY <1>2, <2>1, FS_EmptySet, FS_AddElement DEF CommitWrite
<1>5. \A b \in SUBSET made : ClosedBelow(b) => ClosedBelow(b)'
  <2>. SUFFICES ASSUME NEW b \in SUBSET made, ClosedBelow(b),
                       NEW e \in b, NEW x \in made \cup {d}, x.seq < e.seq
                PROVE  x \in b \/ x \in received
    BY <1>2 DEF ClosedBelow
  <2>1. x # d
    BY <1>1, <1>3
  <2>. QED
    BY <2>1 DEF ClosedBelow
<1>6. InOrder'
  <2>. SUFFICES ASSUME NEW x \in made \cup {d}, NEW e \in made \cup {d},
                       x.seq < e.seq, e \in received
                PROVE  x \in received
    BY <1>2 DEF InOrder
  <2>1. e \in made
    BY DEF IInv, Consistent
  <2>2. x # d
    BY <1>1, <1>3, <2>1
  <2>. QED
    BY <2>1, <2>2 DEF OrderInv, InOrder
<1>7. ReplayGivesGraph'
  <2>. SUFFICES ASSUME NEW k \in Keys
                PROVE  graph'[k] = IF \E e \in LastOf(k)' : e.op # "delete_node"
                                   THEN CHOOSE n \in Seqs(LastOf(k)') : TRUE
                                   ELSE Absent
    BY DEF ReplayGivesGraph, Seqs
  <2>1. LastOf(k)' = IF k = d.key THEN {d} ELSE LastOf(k)
    BY <1>1, <1>2, <1>3, LastAfterCommit
  <2>2. CASE k = d.key
    <3>1. graph'[k] = IF d.op = "delete_node" THEN Absent ELSE d.seq
      BY <2>2 DEF CommitWrite, TypeOK
    <3>2. Seqs({d}) = {d.seq}
      BY DEF Seqs
    <3>. QED
      BY <2>1, <2>2, <3>1, <3>2
  <2>3. CASE k # d.key
    <3>1. graph'[k] = graph[k]
      BY <2>3 DEF CommitWrite, TypeOK
    <3>. QED
      BY <2>1, <2>3, <3>1 DEF OrderInv, ReplayGivesGraph
  <2>. QED
    BY <2>2, <2>3
<1>. QED
  BY <1>2, <1>4, <1>5, <1>6, <1>7 DEF OrderInv, IInv, Consistent

(* What a sync() reads from the queue is closed below: what is made and not*)
(* in the queue is in the cloud, and the oldest of the queue come first.   *)
LEMMA OldestClosed ==
    ASSUME TypeOK, IInv, OrderInv PROVE ClosedBelow(Oldest(queue, BatchSize))
<1>. SUFFICES ASSUME NEW e \in Oldest(queue, BatchSize), NEW d \in made,
                     d.seq < e.seq, d \notin received
              PROVE  d \in Oldest(queue, BatchSize)
  BY DEF ClosedBelow
<1>1. d \in queue
  BY DEF IInv, NothingLost
<1>. QED
  BY <1>1, OldestDownClosed, ProxyAssumption DEF OrderInv, TypeOK

(* Every step keeps the order when write transactions do not overlap.      *)
LEMMA OrderStep ==
    ASSUME MaxOpen <= 1, TypeOK, IInv, IInv', OrderInv, [Next]_vars
    PROVE  OrderInv'
<1>1. ClosedBelow({})
  BY DEF ClosedBelow
<1>2. ASSUME NEW k \in Keys, NEW op \in StoreOps(k), BeginWrite(k, op) PROVE OrderInv'
  <2> DEFINE d == [seq |-> nextSeq, op |-> op, key |-> k]
  <2>1. open = {} /\ open' = {d}
    BY <1>2, NoneOpen DEF BeginWrite, OrderInv
  <2>2. IsFiniteSet(open')
    <3>1. IsFiniteSet({d})
      BY FS_Singleton
    <3>. QED
      BY <2>1, <3>1
  <2>3. \A e \in made : e.seq < d.seq
    BY DEF IInv, Consistent
  <2>4. UNCHANGED <<graph, queue, made, received, batch, late>>
    BY <1>2 DEF BeginWrite, sync
  <2>5. ReplayGivesGraph'
    BY <2>4, SameReplay DEF OrderInv
  <2>6. InOrder'
    BY <2>4 DEF OrderInv, InOrder
  <2>7. (\A s \in Syncers : ClosedBelow(batch[s]))' /\ (\A b \in late : ClosedBelow(b))'
    BY <2>4 DEF OrderInv, ClosedBelow
  <2>. QED
    BY <2>1, <2>2, <2>3, <2>4, <2>5, <2>6, <2>7 DEF OrderInv
<1>3. ASSUME NEW d \in open, CommitWrite(d) PROVE OrderInv'
  BY <1>3, CommitOrder
<1>4. ASSUME NEW d \in open, AbortWrite(d) PROVE OrderInv'
  BY <1>4, QuietOrder DEF AbortWrite, sync, OrderInv
<1>5. ASSUME NEW s \in Syncers, NEW ok \in BOOLEAN, EndSync(s, ok), NEW t \in Syncers
      PROVE  ClosedBelow(batch'[t])
  BY <1>1, <1>5 DEF EndSync, TypeOK, OrderInv
<1>6. ASSUME NEW s \in Syncers, NEW ok \in BOOLEAN, SyncNothing(s, ok) PROVE OrderInv'
  BY <1>5, <1>6, QuietOrder DEF SyncNothing, store, OrderInv
<1>7. ASSUME NEW s \in Syncers, Post(s) PROVE OrderInv'
  <2>1. \A t \in Syncers : ClosedBelow(batch'[t])
    BY <1>7, OldestClosed DEF Post, TypeOK, OrderInv
  <2>. QED
    BY <1>7, <2>1, QuietOrder DEF Post, store, OrderInv
<1>8. ASSUME NEW s \in Syncers, GiveUp(s) PROVE OrderInv'
  BY <1>5, <1>8, QuietOrder DEF GiveUp, StillUnderWay, store, OrderInv
<1>9. ASSUME NEW s \in Syncers, LoseReply(s) \/ Ack(s) \/ AckFails(s) PROVE OrderInv'
  BY <1>5, <1>9, QuietOrder DEF LoseReply, Ack, AckFails, Unacked, store, OrderInv
<1>10. ASSUME NEW s \in Syncers, Answer(s) PROVE OrderInv'
  <2>1. batch[s] \in SUBSET made /\ ClosedBelow(batch[s])
    BY DEF IInv, Consistent, OrderInv
  <2>2. received' = received \cup batch[s]
    BY <1>10, AllAcknowledged DEF Answer, TypeOK
  <2>3. UNCHANGED <<graph, queue, open, made, batch, late>>
    BY <1>10 DEF Answer, store
  <2>4. InOrder' /\ \A c \in SUBSET made : ClosedBelow(c) => ClosedBelow(c)'
    BY <2>1, <2>2, <2>3, ReceiveInOrder
  <2>5. ReplayGivesGraph'
    BY <2>3, SameReplay DEF OrderInv
  <2>. QED
    BY <2>3, <2>4, <2>5 DEF OrderInv, IInv, Consistent
<1>11. ASSUME NEW b \in late, LateArrival(b) PROVE OrderInv'
  <2>1. b \in SUBSET made /\ ClosedBelow(b)
    BY DEF IInv, Consistent, OrderInv
  <2>2. received' = received \cup b
    BY <1>11, AllAcknowledged DEF LateArrival, TypeOK
  <2>3. UNCHANGED <<graph, queue, open, made, batch>> /\ late' \subseteq late
    BY <1>11 DEF LateArrival, store
  <2>4. InOrder' /\ \A c \in SUBSET made : ClosedBelow(c) => ClosedBelow(c)'
    BY <2>1, <2>2, <2>3, ReceiveInOrder
  <2>5. ReplayGivesGraph'
    BY <2>3, SameReplay DEF OrderInv
  <2>. QED
    BY <2>3, <2>4, <2>5 DEF OrderInv, IInv, Consistent
<1>12. CASE Crash \/ Shutdown
  <2>1. ForgetMemory
    BY <1>12 DEF Crash, Shutdown
  <2>2. \A s \in Syncers : ClosedBelow(batch'[s])
    BY <1>1, <2>1 DEF ForgetMemory
  <2>3. \A b \in late' : ClosedBelow(b)
    BY <2>1 DEF ForgetMemory, StillUnderWay, OrderInv
  <2>. QED
    BY <2>1, <2>2, <2>3, QuietOrder DEF ForgetMemory
<1>13. CASE UNCHANGED vars
  BY <1>13, QuietOrder DEF vars, OrderInv
<1>. QED
  BY <1>2, <1>3, <1>4, <1>6, <1>7, <1>8, <1>9, <1>10, <1>11, <1>12, <1>13 DEF Next

(* When write transactions do not overlap, the cloud has every record's    *)
(* changes in the order they were made, and replaying them by number gives *)
(* the local graph - across crashes, lost answers and late batches.        *)
THEOREM OrderedWhenSerialized ==
    ASSUME MaxOpen <= 1 PROVE Spec => [](InOrder /\ ReplayGivesGraph)
<1>1. Init => OrderInv
  BY FS_EmptySet DEF Init, OrderInv, ClosedBelow, InOrder, ReplayGivesGraph, LastOf
<1>2. TypeOK /\ IInv /\ IInv' /\ OrderInv /\ [Next]_vars => OrderInv'
  BY OrderStep
<1>3. OrderInv => InOrder /\ ReplayGivesGraph
  BY DEF OrderInv
<1>. QED
  BY <1>1, <1>2, <1>3, TypeCorrect, SafetyInvariant, PTL DEF Spec

(* In particular the cloud never has a change without the changes made     *)
(* before it: DrainDeltas takes what is pending in sequence order and the  *)
(* syncer sends one batch after the other.                                 *)
THEOREM DeliveredInOrder ==
    ASSUME MaxOpen <= 1 PROVE Spec => []InOrder
<1>1. InOrder /\ ReplayGivesGraph => InOrder
  OBVIOUS
<1>. QED
  BY <1>1, OrderedWhenSerialized, PTL
=============================================================================
