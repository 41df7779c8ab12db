---------------------------- MODULE IngestState ----------------------------
(* The parameters and the state of IngestBatcher, and what it promises.     *)
EXTENDS Integers

CONSTANTS
    Requests,   \* POST /ingest/delta requests
    Tenants,    \* X-Tenant-ID values
    MaxFiles,   \* bound: records in a request
    BatchSize   \* batchSize (500 in the code)

ASSUME IngestAssumption ==
    /\ MaxFiles \in Nat \ {0}
    /\ BatchSize \in Nat \ {0}

VARIABLES
    tenant,     \* the tenant of each request
    size,       \* the number of its records
    handler,    \* where its handler is
    next,       \* the record its Submit appends next
    mutex,      \* b.mu: the request that holds it, or Free
    pending,    \* b.pending: <<request, record>> pairs
    answer,     \* respCh: what has been put into it
    written,    \* records in Neo4j
    flushed,    \* the batches handed on, each the set of its records
    server      \* "up", "draining" (Shutdown) or "exited"

----------------------------------------------------------------------------
Records(r) == {<<r, i>> : i \in 1 .. size[r]}

Items(batch) == {batch[i] : i \in DOMAIN batch}

(* What is queued for enrichment: all that was handed on. *)
enriched == UNION flushed

Active(r) == handler[r] \in {"arrived", "submitting", "waiting"}

----------------------------------------------------------------------------
(* Properties *)

(* What Submit has appended is either in the buffer, once, or has gone      *)
(* through one flush: nothing is lost between requests, and no record waits *)
(* in the buffer that was handed on before.                                 *)
Handled ==
    /\ \A r \in Requests : {it \in Records(r) : it[2] < next[r]} =
                           {it \in Items(pending) \cup enriched : it[1] = r}
    /\ enriched \cap Items(pending) = {}
    /\ \A i, j \in DOMAIN pending : pending[i] = pending[j] => i = j

(* What "accepted" is worth: the batch that took the first record of the    *)
(* request was written completely, for every tenant in it.                  *)
AcceptedBatchWritten ==
    \A r \in Requests : handler[r] = "accepted" =>
        \E batch \in flushed : <<r, 1>> \in batch /\ batch \subseteq written

(* Every request the server has taken is answered unless the process dies,  *)
(* during a shutdown too.                                                   *)
EveryRequestAnswered ==
    \A r \in Requests : Active(r) ~> handler[r] \in {"accepted", "failed"} \/ server = "exited"
============================================================================
