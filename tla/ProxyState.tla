----------------------------- MODULE ProxyState -----------------------------
(* The parameters and the state of ProxySync, and what it promises of every *)
(* change, however writes and syncs overlap.                                *)
EXTENDS Integers

CONSTANTS
    Nodes, Edges,     \* ids of graph nodes and edges
    Loop,             \* the background sync loop
    Forcers,          \* concurrent force-sync requests
    BatchSize,        \* config.SyncBatchSize
    Bandwidth,        \* sequence numbers leased at a time (1000 in the code)
    SyncInterval,     \* config.SyncInterval
    MaxBackoff,       \* 30 minutes in the code; the interval may be longer
    TenantLookupWorks,\* FALSE: get_db() hands the endpoint an AsyncSession
    MaxOpen,          \* bound: write transactions open at the same time
    MaxLate,          \* bound: abandoned batches under way at the same time
    SeqLimit,         \* bound: sequence numbers used
    MaxRestarts       \* bound: restarts of the proxy

ASSUME ProxyAssumption ==
    /\ Loop \notin Forcers
    /\ Nodes \cap Edges = {}
    /\ BatchSize \in Nat \ {0}
    /\ Bandwidth \in Nat \ {0}
    /\ SyncInterval \in Nat \ {0}
    /\ MaxBackoff \in Nat \ {0}
    /\ TenantLookupWorks \in BOOLEAN
    /\ MaxOpen \in Nat
    /\ MaxLate \in Nat
    /\ SeqLimit \in Nat
    /\ MaxRestarts \in Nat

Keys == Nodes \cup Edges

Delta == [seq : 0 .. SeqLimit - 1,
          op : {"upsert_node", "delete_node", "upsert_edge"}, key : Keys]

VARIABLES
    graph,      \* n: and e: records; the seq of the write it comes from, or Absent
    queue,      \* d: records, the deltas waiting for upload
    nextSeq,    \* Sequence.next: the next number, in memory
    leased,     \* Sequence.leased: numbers below it are reserved on disk
    open,       \* deltas of write transactions that have a number, not committed
    phase,      \* what each sync() in progress is doing
    batch,      \* the deltas each sync() has read from the queue
    reply,      \* the sequence numbers acknowledged in the answer each sync() got
    late,       \* batches whose sender no longer waits, still under way
    backoff,    \* the loop's wait; 0 until its first sync() is over
    received,   \* deltas the cloud has received and acknowledged (history)
    made,       \* deltas ever committed by the store (history)
    restarts    \* restarts so far

----------------------------------------------------------------------------
(* Properties *)

(* README, "All changes are buffered locally - nothing is lost": what the   *)
(* store committed is still queued or the cloud has it.                     *)
NothingLost == \A d \in made : d \in queue \/ d \in received

(* A delta is known by its number alone, in the queue's keys and in the     *)
(* acknowledgements, so two deltas never share one, not even across a crash.*)
NumbersUnique == \A d, e \in made \cup open : d.seq = e.seq => d = e

(* The proxy implements the outbox its README promises. *)
Outbox == INSTANCE DeltaOutbox WITH held <- queue
OutboxSpec == Outbox!Spec
=============================================================================
