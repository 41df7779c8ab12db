----------------------------- MODULE ProxySync -----------------------------
(***************************************************************************)
(* dgraph-proxy: the local graph store with its delta queue                *)
(* (dgraph-proxy/internal/store), the syncer that uploads the deltas       *)
(* (dgraph-proxy/internal/sync) and the cloud endpoint that acknowledges   *)
(* them (src/dgraphai/api/proxy_sync.py).                                  *)
(*                                                                         *)
(* Local API requests write nodes and edges, each in one Badger            *)
(* transaction that also queues a delta under the next sequence number.    *)
(* The background loop and any number of POST /api/v1/sync/force requests  *)
(* run the same sync(): read the head of the queue, post it, delete what   *)
(* the cloud acknowledged.  Requests and answers get lost or come late,    *)
(* and the process crashes.                                                *)
(***************************************************************************)
EXTENDS ProxyState, FiniteSets

Syncers == {Loop} \cup Forcers

(* The operations the store queues; no operation of it deletes an edge. *)
StoreOps(k) == IF k \in Nodes THEN {"upsert_node", "delete_node"} ELSE {"upsert_edge"}

(* Variant: an endpoint that does not know deletions. *)
AckedOpsWithoutDelete == {"upsert_node", "upsert_edge"}

(* The operations the cloud acknowledges.  The store gives every upsert a  *)
(* payload and every delete an id, so the endpoint's other tests hold.     *)
AckedOps == {"upsert_node", "delete_node", "upsert_edge", "delete_edge"}

Absent == -1

store == <<graph, queue, nextSeq, leased, open, made>>
sync  == <<phase, batch, reply, late, backoff>>
vars  == <<graph, queue, nextSeq, leased, open, phase, batch, reply, late,
           backoff, received, made, restarts>>

Seqs(D) == {d.seq : d \in D}

Init ==
    /\ graph = [k \in Keys |-> Absent]
    /\ queue = {} /\ open = {} /\ made = {} /\ received = {} /\ late = {}
    /\ nextSeq = 0
    /\ leased = Bandwidth
    /\ phase = [s \in Syncers |-> "idle"]
    /\ batch = [s \in Syncers |-> {}]
    /\ reply = [s \in Syncers |-> {}]
    /\ backoff = 0
    /\ restarts = 0

----------------------------------------------------------------------------
(* The store *)

(* Sequence.Next: a new lease is written to disk when the old one is used up. *)
NextSeq ==
    /\ nextSeq < SeqLimit
    /\ nextSeq' = nextSeq + 1
    /\ leased' = IF nextSeq >= leased THEN nextSeq + Bandwidth ELSE leased

(* UpsertNode, DeleteNode and UpsertEdge up to the commit: the delta gets   *)
(* its number inside the transaction, before the transaction commits.       *)
BeginWrite(k, op) ==
    /\ Cardinality(open) < MaxOpen
    /\ op \in StoreOps(k)
    /\ NextSeq
    /\ open' = open \cup {[seq |-> nextSeq, op |-> op, key |-> k]}
    /\ UNCHANGED <<graph, queue, made, sync, received, restarts>>

(* Variant: a deletion is queued but the record stays. *)
CommitWriteKeepingRecord(d) ==
    /\ d \in open
    /\ open' = open \ {d}
    /\ graph' = [graph EXCEPT ![d.key] = IF d.op = "delete_node" THEN @ ELSE d.seq]
    /\ queue' = {e \in queue : e.seq # d.seq} \cup {d}
    /\ made' = made \cup {d}
    /\ UNCHANGED <<nextSeq, leased, sync, received, restarts>>

(* The commit makes record and delta durable together.  The transactions    *)
(* read nothing, so Badger sees no conflict between them and they commit in *)
(* any order.  A delta is stored under its number.                          *)
CommitWrite(d) ==
    /\ d \in open
    /\ open' = open \ {d}
    /\ graph' = [graph EXCEPT ![d.key] = IF d.op = "delete_node" THEN Absent ELSE d.seq]
    /\ queue' = {e \in queue : e.seq # d.seq} \cup {d}
    /\ made' = made \cup {d}
    /\ UNCHANGED <<nextSeq, leased, sync, received, restarts>>

(* The transaction fails: its number is never used. *)
AbortWrite(d) ==
    /\ d \in open
    /\ open' = open \ {d}
    /\ UNCHANGED <<graph, queue, nextSeq, leased, made, sync, received, restarts>>

(* Variant: the newest n deltas (a reverse iterator). *)
Newest(Q, n) == {d \in Q : Cardinality({e \in Q : e.seq > d.seq}) < n}

(* DrainDeltas(n): the first n deltas in sequence order.  A read: nothing   *)
(* marks them as in flight.                                                 *)
Oldest(Q, n) == {d \in Q : Cardinality({e \in Q : e.seq < d.seq}) < n}

(* Variant: an acknowledgement covers all lower numbers too. *)
UnackedAboveMark(Q, acked) == {d \in Q : \A a \in acked : d.seq > a}

(* AckDeltas: the deltas stored under the acknowledged numbers go. *)
Unacked(Q, acked) == {d \in Q : d.seq \notin acked}

----------------------------------------------------------------------------
(* The syncer *)

(* Variant: the wait doubles without a limit. *)
DoubledForever(b) == 2 * b

(* Run: the wait doubles after a failed sync(), up to MaxBackoff, and is    *)
(* SyncInterval again after a good one.  No check keeps the interval below  *)
(* the cap, and where it is above a failure shortens the wait.  The result  *)
(* of the first sync() is ignored; ForceSync leaves the loop's wait alone.  *)
Doubled(b) == IF 2 * b < MaxBackoff THEN 2 * b ELSE MaxBackoff

EndSync(s, ok) ==
    /\ phase' = [phase EXCEPT ![s] = "idle"]
    /\ batch' = [batch EXCEPT ![s] = {}]
    /\ reply' = [reply EXCEPT ![s] = {}]
    /\ backoff' = CASE s # Loop               -> backoff
                    [] s = Loop /\ backoff = 0 -> SyncInterval
                    [] OTHER                   -> IF ok THEN SyncInterval ELSE Doubled(backoff)

(* sync() posts nothing: it cannot read the queue, or finds it empty and   *)
(* sends a heartbeat, which arrives or fails.                               *)
SyncNothing(s, ok) ==
    /\ phase[s] = "idle"
    /\ ok => queue = {} /\ TenantLookupWorks
    /\ EndSync(s, ok)
    /\ UNCHANGED <<store, late, received, restarts>>

(* sync() reads a batch and posts it. *)
Post(s) ==
    /\ phase[s] = "idle"
    /\ queue # {}
    /\ phase' = [phase EXCEPT ![s] = "posted"]
    /\ batch' = [batch EXCEPT ![s] = Oldest(queue, BatchSize)]
    /\ UNCHANGED <<store, reply, late, backoff, received, restarts>>

(* Batches nobody waits for any more, which may reach the cloud or not. *)
StillUnderWay(L) == /\ late' = late \cup L
                    /\ Cardinality(late') <= MaxLate

(* Variant: a batch is dropped from the queue once it is posted. *)
GiveUpDroppingBatch(s) ==
    /\ phase[s] = "posted"
    /\ queue' = queue \ batch[s]
    /\ StillUnderWay({batch[s]})
    /\ EndSync(s, FALSE)
    /\ UNCHANGED <<graph, nextSeq, leased, open, made, received, restarts>>

(* The post fails or its 30 s run out, or the force-sync client hangs up:   *)
(* the batch may still be on its way to the cloud.                          *)
GiveUp(s) ==
    /\ phase[s] = "posted"
    /\ \/ late' = late
       \/ StillUnderWay({batch[s]})
    /\ EndSync(s, FALSE)
    /\ UNCHANGED <<store, received, restarts>>

(* The answer was sent and does not arrive. *)
LoseReply(s) ==
    /\ phase[s] = "answered"
    /\ EndSync(s, FALSE)
    /\ UNCHANGED <<store, late, received, restarts>>

(* The answer arrives: the acknowledged deltas are deleted. *)
Ack(s) ==
    /\ phase[s] = "answered"
    /\ queue' = Unacked(queue, reply[s])
    /\ EndSync(s, TRUE)
    /\ UNCHANGED <<graph, nextSeq, leased, open, made, late, received, restarts>>

(* AckDeltas fails; the error is logged and the sync counts as a success. *)
AckFails(s) ==
    /\ phase[s] = "answered"
    /\ EndSync(s, TRUE)
    /\ UNCHANGED <<store, late, received, restarts>>

----------------------------------------------------------------------------
(* The cloud *)

(* proxy_sync: which deltas of a batch are acknowledged. *)
Acknowledged(b) == {d \in b : d.op \in AckedOps}

(* A request is answered; with the tenant lookup broken it fails instead    *)
(* (GiveUp).                                                                *)
Answer(s) ==
    /\ TenantLookupWorks
    /\ phase[s] = "posted"
    /\ received' = received \cup Acknowledged(batch[s])
    /\ phase' = [phase EXCEPT ![s] = "answered"]
    /\ reply' = [reply EXCEPT ![s] = Seqs(Acknowledged(batch[s]))]
    /\ UNCHANGED <<store, batch, late, backoff, restarts>>

(* A batch whose sender has given up arrives after all. *)
LateArrival(b) ==
    /\ TenantLookupWorks
    /\ b \in late
    /\ late' = late \ {b}
    /\ received' = received \cup Acknowledged(b)
    /\ UNCHANGED <<store, phase, batch, reply, backoff, restarts>>

----------------------------------------------------------------------------
(* Restarts *)

(* What the memory of the process held is gone; posted batches may arrive.  *)
ForgetMemory ==
    /\ restarts < MaxRestarts
    /\ restarts' = restarts + 1
    /\ open' = {}
    /\ phase' = [s \in Syncers |-> "idle"]
    /\ batch' = [s \in Syncers |-> {}]
    /\ reply' = [s \in Syncers |-> {}]
    /\ \E L \in SUBSET {batch[s] : s \in {t \in Syncers : phase[t] = "posted"}} :
          StillUnderWay(L)
    /\ backoff' = 0
    /\ UNCHANGED <<graph, queue, made, received>>

(* Variant: numbering resumes after the last delta still in the queue. *)
CrashResumingFromQueue ==
    /\ ForgetMemory
    /\ nextSeq' = IF queue = {} THEN 0
                   ELSE 1 + (CHOOSE n \in Seqs(queue) : \A m \in Seqs(queue) : m <= n)
    /\ leased' = nextSeq' + Bandwidth

(* A crash loses the unused part of the lease. *)
Crash ==
    /\ ForgetMemory
    /\ nextSeq' = leased
    /\ leased' = leased + Bandwidth

(* SIGTERM: the API server finishes its requests and Close releases the     *)
(* unused part of the lease.                                                *)
Shutdown ==
    /\ open = {}
    /\ ForgetMemory
    /\ nextSeq' = nextSeq
    /\ leased' = nextSeq + Bandwidth

Next ==
    \/ \E k \in Keys : \E op \in StoreOps(k) : BeginWrite(k, op)
    \/ \E d \in open : CommitWrite(d) \/ AbortWrite(d)
    \/ \E s \in Syncers :
          \/ \E ok \in BOOLEAN : SyncNothing(s, ok)
          \/ Post(s) \/ GiveUp(s) \/ Answer(s) \/ LoseReply(s) \/ Ack(s) \/ AckFails(s)
    \/ \E b \in late : LateArrival(b)
    \/ Crash
    \/ Shutdown

Spec == Init /\ [][Next]_vars

(* The loop ticks for ever and starts a sync() when none of its own runs.   *)
(* The network is bad but not for ever: of the loop's requests infinitely   *)
(* many are answered, and of the answers infinitely many arrive.            *)
FairSpec == /\ Spec
            /\ WF_vars(Post(Loop))
            /\ SF_vars(Answer(Loop))
            /\ SF_vars(Ack(Loop))

----------------------------------------------------------------------------
(* Properties *)

(* The waits between two rounds of the loop; none before the first is over. *)
Waits == {0, SyncInterval, MaxBackoff} \cup (SyncInterval .. MaxBackoff)

(* Every variable has its type; once the first sync() is over the loop's    *)
(* wait is its interval, the cap, or between the two, also when somebody    *)
(* configures an interval above the cap (syncer.go:87, config.go:65).       *)
TypeOK ==
    /\ graph \in [Keys -> {Absent} \cup (0 .. SeqLimit - 1)]
    /\ queue \subseteq Delta /\ open \subseteq Delta
    /\ made \subseteq Delta /\ received \subseteq Delta
    /\ nextSeq \in Nat /\ leased \in Nat
    /\ phase \in [Syncers -> {"idle", "posted", "answered"}]
    /\ batch \in [Syncers -> SUBSET Delta]
    /\ reply \in [Syncers -> SUBSET (0 .. SeqLimit - 1)]
    /\ late \subseteq SUBSET Delta
    /\ backoff \in Waits
    /\ restarts \in Nat

(* The state behind NothingLost: numbers are fresh and unique, everything   *)
(* under way was committed, and the cloud has what its answers acknowledge. *)
Consistent ==
    /\ nextSeq <= leased
    /\ \A d \in made \cup open : d.seq < nextSeq
    /\ open \cap made = {}
    /\ queue \subseteq made /\ received \subseteq made
    /\ \A s \in Syncers : batch[s] \subseteq made /\ reply[s] \subseteq Seqs(received)
    /\ \A b \in late : b \subseteq made

(* "up to n pending deltas in sequence order" (DrainDeltas): the cloud never*)
(* has a change of a record without the changes of it made before.          *)
InOrder == \A d, e \in made : d.seq < e.seq /\ e \in received => d \in received

(* "monotonic sequence for delta ordering" (store.go): replaying the deltas *)
(* of a record in sequence order gives the record the store holds.          *)
LastOf(k) == {d \in made : d.key = k /\ \A e \in made : e.key = k => e.seq <= d.seq}

ReplayGivesGraph ==
    \A k \in Keys :
        graph[k] = IF \E d \in LastOf(k) : d.op # "delete_node"
                   THEN CHOOSE n \in Seqs(LastOf(k)) : TRUE
                   ELSE Absent

(* README, "Syncs deltas to cloud when network is available": every queued  *)
(* delta is uploaded and leaves the queue in the end.  The endpoint as it   *)
(* is answers no post (proxy_sync.py:197), so that none ever does.          *)
EventuallySynced == \A n \in 0 .. SeqLimit - 1 : n \in Seqs(queue) ~> n \notin Seqs(queue)

(* What the proxy does for it: were the endpoint's look-up repaired, every  *)
(* delta would leave the queue, whatever is lost, late or restarted.        *)
SyncedOnceRepaired == TenantLookupWorks => EventuallySynced
=============================================================================
