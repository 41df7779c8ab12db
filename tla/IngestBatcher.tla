--------------------------- MODULE IngestBatcher ---------------------------
(***************************************************************************)
(* dgraph-ingest: the write batcher that scanner requests share            *)
(* (agent-go/cmd/dgraph-ingest/main.go).                                   *)
(*                                                                         *)
(* A request appends its records to the buffer under a mutex and waits for *)
(* an answer.  A full buffer is written at once, by the request that fills *)
(* it, any other by the flush loop; each tenant's part of a batch is one   *)
(* write to Neo4j, which may fail.  On SIGTERM the server answers the      *)
(* requests it has and exits.                                              *)
(***************************************************************************)
EXTENDS IngestState, Sequences, FiniteSets

vars == <<tenant, size, handler, next, mutex, pending, answer, written, flushed, server>>

Free == "free"

Init ==
    /\ tenant \in [Requests -> Tenants]
    /\ size \in [Requests -> 1 .. MaxFiles]
    /\ handler = [r \in Requests |-> "new"]
    /\ next = [r \in Requests |-> 1]
    /\ mutex = Free
    /\ pending = <<>>
    /\ answer = [r \in Requests |-> "none"]
    /\ written = {} /\ flushed = {}
    /\ server = "up"

TenantsOf(batch) == {tenant[it[1]] : it \in Items(batch)}

(* Variant: only the first record of a batch has its request answered. *)
AnswerFirst(batch, failing) ==
    answer' = [answer EXCEPT ![batch[1][1]] = IF @ # "none" THEN @
                                              ELSE IF failing = {} THEN "ok" ELSE "failed"]

(* Variant: a request gets the error of its own tenant's write only. *)
AnswerOfTenant(batch, failing) ==
    answer' = [r \in Requests |->
                 IF answer[r] = "none" /\ \E it \in Items(batch) : it[1] = r
                 THEN IF tenant[r] \notin failing THEN "ok" ELSE "failed"
                 ELSE answer[r]]

(* Every request with a record in the batch gets the error of the batch,    *)
(* whichever tenant's write failed; the channel keeps the first answer.     *)
Answer(batch, failing) ==
    answer' = [r \in Requests |->
                 IF answer[r] = "none" /\ \E it \in Items(batch) : it[1] = r
                 THEN IF failing = {} THEN "ok" ELSE "failed"
                 ELSE answer[r]]

(* Variant: the buffer is not emptied. *)
FlushKeepingBuffer(batch, failing) ==
    /\ pending' = batch
    /\ written' = written \cup {it \in Items(batch) : tenant[it[1]] \notin failing}
    /\ flushed' = flushed \cup {Items(batch)}
    /\ Answer(batch, failing)

(* flush: one write per tenant, of which some fail; enrichment is queued    *)
(* for all records, written or not.                                         *)
Flush(batch, failing) ==
    /\ pending' = <<>>
    /\ written' = written \cup {it \in Items(batch) : tenant[it[1]] \notin failing}
    /\ flushed' = flushed \cup {Items(batch)}
    /\ Answer(batch, failing)

----------------------------------------------------------------------------
(* Submit *)

(* A request arrives and is found well formed. *)
Arrive(r) ==
    /\ server = "up"
    /\ handler[r] = "new"
    /\ handler' = [handler EXCEPT ![r] = "arrived"]
    /\ UNCHANGED <<tenant, size, next, mutex, pending, answer, written, flushed, server>>

(* Its handler takes the mutex. *)
Lock(r) ==
    /\ server # "exited"
    /\ handler[r] = "arrived"
    /\ mutex = Free
    /\ mutex' = r
    /\ handler' = [handler EXCEPT ![r] = "submitting"]
    /\ UNCHANGED <<tenant, size, next, pending, answer, written, flushed, server>>

(* One record is appended, and a full buffer written. *)
AppendRecord(r) ==
    /\ server # "exited"
    /\ mutex = r
    /\ next[r] <= size[r]
    /\ next' = [next EXCEPT ![r] = @ + 1]
    /\ LET buffer == Append(pending, <<r, next[r]>>)
       IN  IF Len(buffer) >= BatchSize
           THEN \E failing \in SUBSET TenantsOf(buffer) : Flush(buffer, failing)
           ELSE pending' = buffer /\ UNCHANGED <<answer, written, flushed>>
    /\ UNCHANGED <<tenant, size, handler, mutex, server>>

(* All records are appended: the mutex is released and Submit waits. *)
Unlock(r) ==
    /\ server # "exited"
    /\ mutex = r
    /\ next[r] > size[r]
    /\ mutex' = Free
    /\ handler' = [handler EXCEPT ![r] = "waiting"]
    /\ UNCHANGED <<tenant, size, next, pending, answer, written, flushed, server>>

(* The handler gets its answer: "accepted" with all its records, or 500. *)
Respond(r) ==
    /\ server # "exited"
    /\ handler[r] = "waiting"
    /\ answer[r] # "none"
    /\ handler' = [handler EXCEPT ![r] = IF answer[r] = "ok" THEN "accepted" ELSE "failed"]
    /\ UNCHANGED <<tenant, size, next, mutex, pending, answer, written, flushed, server>>

----------------------------------------------------------------------------
(* The flush loop and the server *)

(* The interval is over.  Until the process exits nothing stops the loop:   *)
(* Stop is called when main returns.                                        *)
Tick ==
    /\ server # "exited"
    /\ mutex = Free
    /\ pending # <<>>
    /\ \E failing \in SUBSET TenantsOf(pending) : Flush(pending, failing)
    /\ UNCHANGED <<tenant, size, handler, next, mutex, server>>

(* SIGTERM: Shutdown stops accepting and waits for the handlers. *)
Terminate ==
    /\ server = "up"
    /\ server' = "draining"
    /\ UNCHANGED <<tenant, size, handler, next, mutex, pending, answer, written, flushed>>

(* main returns: Stop only closes a channel, and the process exits before   *)
(* the flush loop can write the rest.                                       *)
Exit ==
    /\ server = "draining"
    /\ \A r \in Requests : ~Active(r)
    /\ server' = "exited"
    /\ UNCHANGED <<tenant, size, handler, next, mutex, pending, answer, written, flushed>>

(* The process is killed. *)
Crash ==
    /\ server # "exited"
    /\ server' = "exited"
    /\ UNCHANGED <<tenant, size, handler, next, mutex, pending, answer, written, flushed>>

Next ==
    \/ \E r \in Requests : Arrive(r) \/ Lock(r) \/ AppendRecord(r) \/ Unlock(r) \/ Respond(r)
    \/ Tick
    \/ Terminate
    \/ Exit
    \/ Crash

Spec == Init /\ [][Next]_vars

(* Handlers run and the ticker ticks.  A Go mutex hands itself to a waiter  *)
(* that starves, so each handler and the flush loop get it in the end.      *)
Fairness ==
    /\ SF_vars(Tick)
    /\ \A r \in Requests : /\ SF_vars(Lock(r)) /\ WF_vars(AppendRecord(r))
                           /\ WF_vars(Unlock(r)) /\ WF_vars(Respond(r))
FairSpec == Spec /\ Fairness

----------------------------------------------------------------------------
(* Every variable has its type, no request appends more than its records,   *)
(* and the buffer never holds a full batch.                                 *)
TypeOK ==
    /\ tenant \in [Requests -> Tenants]
    /\ size \in [Requests -> 1 .. MaxFiles]
    /\ handler \in [Requests -> {"new", "arrived", "submitting", "waiting", "accepted", "failed"}]
    /\ next \in [Requests -> 1 .. MaxFiles + 1]
    /\ \A r \in Requests : next[r] <= size[r] + 1
    /\ mutex \in Requests \cup {Free}
    /\ pending \in Seq(Requests \X (1 .. MaxFiles)) /\ Len(pending) < BatchSize
    /\ answer \in [Requests -> {"none", "ok", "failed"}]
    /\ written \subseteq Requests \X (1 .. MaxFiles)
    /\ flushed \subseteq SUBSET (Requests \X (1 .. MaxFiles))
    /\ server \in {"up", "draining", "exited"}
=============================================================================
