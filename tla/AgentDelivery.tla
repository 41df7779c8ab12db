--------------------------- MODULE AgentDelivery ---------------------------
(***************************************************************************)
(* dgraph-agent: a scan that sends files to the platform in chunks         *)
(* (agent-go/internal/sync/client.go) and the durable queue for chunks     *)
(* that could not be sent (agent-go/internal/queue/sqlite.go).             *)
(*                                                                         *)
(* A chunk is posted a few times, then queued when the client has a queue. *)
(* Flush sends what is queued, oldest first; a row that has failed too     *)
(* often is deleted.  Posts and answers get lost, the process crashes, and *)
(* a later scan walks the same files again.                                *)
(***************************************************************************)
EXTENDS Integers, Sequences, FiniteSets

CONSTANTS
    Files,        \* files 1 .. Files of the connector, in the order of Walk
    ChunkSize,    \* batchSize of the client (500 in the code)
    MaxRetries,   \* maxRetries (3 in the code)
    HasQueue,     \* FALSE in main.go: the client is created without a queue
    Flushers,     \* concurrent FlushQueue calls
    FlushBatch,   \* batchSize of Flush (100 in the code)
    MaxAttempts,  \* maxAttempts of Flush (5 in the code)
    MaxScans,     \* bound: scans
    MaxRows       \* bound: chunks queued

ASSUME DeliveryAssumption ==
    /\ Files \in Nat
    /\ {ChunkSize, MaxRetries, FlushBatch, MaxAttempts} \subseteq Nat \ {0}
    /\ HasQueue \in BOOLEAN
    /\ {MaxScans, MaxRows} \subseteq Nat

VARIABLES
    scan,       \* number of the current scan (scan_id)
    phase,      \* where Sync is
    walked,     \* files Walk has handed over
    batch,      \* files not yet in a chunk that was sent or queued
    chunkIdx,   \* the number of the next chunk
    tries,      \* failed posts of the current chunk
    err,        \* Walk has returned an error
    indexed,    \* files counted in FilesIndexed
    rows,       \* pending_deltas: id, chunk, attempts
    nextId,     \* AUTOINCREMENT
    todo,       \* what each Flush has read and not dealt with
    sent,       \* the outcome of its current send, not yet recorded
    received,   \* chunks the platform has accepted (history)
    delivered,  \* ids of rows sent by Flush (history)
    dropped,    \* rows Flush gave up (history)
    fails       \* failed sends of each row by Flush, up to MaxAttempts (history)

scanner == <<scan, phase, walked, batch, chunkIdx, tries, err, indexed>>
queue   == <<rows, nextId, todo, sent, delivered, dropped, fails>>
vars    == <<scan, phase, walked, batch, chunkIdx, tries, err, indexed, rows, nextId, todo,
             sent, received, delivered, dropped, fails>>

Init ==
    /\ scan = 1 /\ phase = "walking" /\ walked = 0 /\ batch = {} /\ chunkIdx = 0
    /\ tries = 0 /\ err = FALSE /\ indexed = {}
    /\ rows = {} /\ nextId = 1
    /\ todo = [f \in Flushers |-> <<>>]
    /\ sent = [f \in Flushers |-> "none"]
    /\ received = {} /\ delivered = {} /\ dropped = {}
    /\ fails = <<>>

Chunk == [scan |-> scan, index |-> chunkIdx, files |-> batch]

Sending == phase \in {"sending", "last"}

----------------------------------------------------------------------------
(* Sync *)

(* Walk hands over a file; a full batch is flushed. *)
WalkFile ==
    /\ phase = "walking"
    /\ walked < Files
    /\ walked' = walked + 1
    /\ batch' = batch \cup {walked + 1}
    /\ phase' = IF Cardinality(batch') >= ChunkSize THEN "sending" ELSE "walking"
    /\ tries' = 0
    /\ UNCHANGED <<scan, chunkIdx, err, indexed, queue, received>>

(* Walk returns, at the end or with an error of the connector; what is left *)
(* in the batch is flushed.                                                 *)
WalkEnds ==
    /\ phase = "walking"
    /\ err' \in BOOLEAN
    /\ walked < Files => err'
    /\ phase' = IF batch # {} THEN "last" ELSE IF err' THEN "failed" ELSE "completed"
    /\ tries' = 0
    /\ UNCHANGED <<scan, walked, batch, chunkIdx, indexed, queue, received>>

(* Variant: the number of the chunk does not move on. *)
ChunkDoneSameIndex ==
    /\ indexed' = indexed \cup batch
    /\ batch' = {}
    /\ phase' = CASE phase = "sending" -> "walking"
                  [] err               -> "failed"
                  [] OTHER             -> "completed"
    /\ UNCHANGED <<scan, walked, chunkIdx, tries, err>>

(* The chunk is sent or queued: its files count as indexed. *)
ChunkDone ==
    /\ indexed' = indexed \cup batch
    /\ chunkIdx' = chunkIdx + 1
    /\ batch' = {}
    /\ phase' = CASE phase = "sending" -> "walking"
                  [] err               -> "failed"
                  [] OTHER             -> "completed"
    /\ UNCHANGED <<scan, walked, tries, err>>

(* A post succeeds. *)
PostAccepted ==
    /\ Sending /\ tries < MaxRetries
    /\ received' = received \cup {Chunk}
    /\ ChunkDone
    /\ UNCHANGED queue

(* A post fails; the platform may have the chunk all the same. *)
PostFails ==
    /\ Sending /\ tries < MaxRetries
    /\ received' \in {received, received \cup {Chunk}}
    /\ tries' = tries + 1
    /\ UNCHANGED <<scan, phase, walked, batch, chunkIdx, err, indexed, queue>>

(* Variant: the chunk is not queued but counted. *)
EnqueueNothing ==
    /\ Sending /\ tries = MaxRetries /\ HasQueue
    /\ ChunkDone
    /\ UNCHANGED <<queue, received>>

(* All posts failed: the chunk is queued. *)
Enqueue ==
    /\ Sending /\ tries = MaxRetries /\ HasQueue
    /\ nextId <= MaxRows
    /\ rows' = rows \cup {[id |-> nextId, chunk |-> Chunk, attempts |-> 0]}
    /\ nextId' = nextId + 1
    /\ fails' = Append(fails, 0)
    /\ ChunkDone
    /\ UNCHANGED <<todo, sent, received, delivered, dropped>>

(* Variant: the scan goes on after a chunk it could not send. *)
ChunkFailsSilently ==
    /\ Sending /\ tries = MaxRetries
    /\ phase' = IF phase = "sending" THEN "walking" ELSE IF err THEN "failed" ELSE "completed"
    /\ batch' = {}
    /\ tries' = 0
    /\ UNCHANGED <<scan, walked, chunkIdx, err, indexed, queue, received>>

(* Without a queue, when the insert fails, or when the context is cancelled *)
(* between two posts, flush returns an error.  It ends Walk, and the same   *)
(* chunk is flushed once more as the last one.                              *)
ChunkFails ==
    /\ Sending /\ tries > 0
    /\ phase' = IF phase = "sending" THEN "last" ELSE "failed"
    /\ err' = TRUE
    /\ tries' = 0
    /\ UNCHANGED <<scan, walked, batch, chunkIdx, indexed, queue, received>>

(* The next scan of the connector. *)
Rescan ==
    /\ phase \in {"completed", "failed", "dead"}
    /\ scan < MaxScans
    /\ scan' = scan + 1
    /\ phase' = "walking" /\ walked' = 0 /\ batch' = {} /\ chunkIdx' = 0
    /\ tries' = 0 /\ err' = FALSE /\ indexed' = {}
    /\ UNCHANGED <<queue, received>>

----------------------------------------------------------------------------
(* Flush *)

(* The first n rows of R by id, or all of them, as the query returns them:  *)
(* the one sequence in this set.                                            *)
Oldest(R, n) ==
    {s \in [1 .. (IF Cardinality(R) < n THEN Cardinality(R) ELSE n) -> R] :
        /\ \A i, j \in DOMAIN s : i < j => s[i].id < s[j].id
        /\ \A r \in R : (\A i \in DOMAIN s : s[i] # r) => \A i \in DOMAIN s : s[i].id < r.id}

(* A Flush reads the oldest rows, when it starts and after each batch. *)
ReadRows(f) ==
    /\ phase # "dead"
    /\ todo[f] = <<>>
    /\ rows # {}
    /\ \E oldest \in Oldest(rows, FlushBatch) : todo' = [todo EXCEPT ![f] = oldest]
    /\ UNCHANGED <<scanner, rows, nextId, sent, received, delivered, dropped, fails>>

(* The next row is sent, outside the lock.  A send that fails may have      *)
(* reached the platform.                                                    *)
SendRow(f) ==
    /\ todo[f] # <<>> /\ sent[f] = "none"
    /\ LET row == Head(todo[f])
       IN  \/ /\ sent' = [sent EXCEPT ![f] = "ok"]
              /\ received' = received \cup {row.chunk}
              /\ delivered' = delivered \cup {row.id}
              /\ UNCHANGED fails
           \/ /\ sent' = [sent EXCEPT ![f] = "failed"]
              /\ received' \in {received, received \cup {row.chunk}}
              /\ fails' = [fails EXCEPT ![row.id] = IF @ < MaxAttempts THEN @ + 1 ELSE @]
              /\ UNCHANGED delivered
    /\ UNCHANGED <<scanner, rows, nextId, todo, dropped>>

Without(id) == {r \in rows : r.id # id}

(* A row that was sent is deleted. *)
DeleteSent(f) ==
    /\ sent[f] = "ok"
    /\ rows' = Without(Head(todo[f]).id)
    /\ todo' = [todo EXCEPT ![f] = Tail(@)]
    /\ sent' = [sent EXCEPT ![f] = "none"]
    /\ UNCHANGED <<scanner, nextId, received, delivered, dropped, fails>>

(* Variant: the failure is not counted. *)
CountNothing(f) ==
    /\ sent[f] = "failed"
    /\ todo' = [todo EXCEPT ![f] = Tail(@)]
    /\ sent' = [sent EXCEPT ![f] = "none"]
    /\ UNCHANGED <<scanner, rows, nextId, received, delivered, dropped, fails>>

(* Variant: one attempt too few. *)
CountFailureEarly(f) ==
    /\ sent[f] = "failed"
    /\ LET row == Head(todo[f])
       IN  IF row.attempts + 2 >= MaxAttempts
           THEN rows' = Without(row.id) /\ dropped' = dropped \cup {row}
           ELSE /\ rows' = {IF r.id = row.id THEN [r EXCEPT !.attempts = row.attempts + 1] ELSE r
                              : r \in rows}
                /\ UNCHANGED dropped
    /\ todo' = [todo EXCEPT ![f] = Tail(@)]
    /\ sent' = [sent EXCEPT ![f] = "none"]
    /\ UNCHANGED <<scanner, nextId, received, delivered, fails>>

(* A row that was not sent gets the count it was read with plus one, or is  *)
(* deleted at the limit.                                                    *)
CountFailure(f) ==
    /\ sent[f] = "failed"
    /\ LET row == Head(todo[f])
       IN  IF row.attempts + 1 >= MaxAttempts
           THEN rows' = Without(row.id) /\ dropped' = dropped \cup {row}
           ELSE /\ rows' = {IF r.id = row.id THEN [r EXCEPT !.attempts = row.attempts + 1] ELSE r
                              : r \in rows}
                /\ UNCHANGED dropped
    /\ todo' = [todo EXCEPT ![f] = Tail(@)]
    /\ sent' = [sent EXCEPT ![f] = "none"]
    /\ UNCHANGED <<scanner, nextId, received, delivered, fails>>

----------------------------------------------------------------------------
(* The process dies, or is stopped; the queue's file survives. *)
Crash ==
    /\ phase # "dead"
    /\ scan < MaxScans
    /\ phase' = "dead"
    /\ todo' = [f \in Flushers |-> <<>>]
    /\ sent' = [f \in Flushers |-> "none"]
    /\ UNCHANGED <<scan, walked, batch, chunkIdx, tries, err, indexed, rows, nextId, received,
                   delivered, dropped, fails>>

Next ==
    \/ WalkFile \/ WalkEnds \/ PostAccepted \/ PostFails \/ Enqueue \/ ChunkFails
    \/ Rescan \/ Crash
    \/ \E f \in Flushers : ReadRows(f) \/ SendRow(f) \/ DeleteSent(f) \/ CountFailure(f)

Spec == Init /\ [][Next]_vars

(* A Flush that runs goes on until it finds no rows; the agent comes up     *)
(* again after a crash.                                                     *)
Fairness ==
    /\ WF_vars(Rescan)
    /\ \A f \in Flushers : /\ WF_vars(ReadRows(f)) /\ WF_vars(SendRow(f))
                           /\ WF_vars(DeleteSent(f)) /\ WF_vars(CountFailure(f))
FairSpec == Spec /\ Fairness

----------------------------------------------------------------------------
(* Properties *)

FilesOf(C) == UNION {c.files : c \in C}

Chunks == [scan : Nat \ {0}, index : Nat, files : SUBSET (1 .. Files)]

Row == [id : Nat \ {0}, chunk : Chunks, attempts : 0 .. MaxAttempts - 1]

(* Every variable has its type, and no chunk is larger than the batch size. *)
TypeOK ==
    /\ scan \in Nat \ {0}
    /\ phase \in {"walking", "sending", "last", "completed", "failed", "dead"}
    /\ walked \in 0 .. Files /\ batch \subseteq 1 .. walked /\ indexed \subseteq 1 .. walked
    /\ Cardinality(batch) <= ChunkSize
    /\ chunkIdx \in Nat /\ tries \in 0 .. MaxRetries /\ err \in BOOLEAN
    /\ rows \subseteq Row /\ dropped \subseteq Row
    /\ nextId \in Nat \ {0}
    /\ todo \in [Flushers -> Seq(Row)]
    /\ sent \in [Flushers -> {"none", "ok", "failed"}]
    /\ received \subseteq Chunks
    /\ delivered \subseteq Nat
    /\ fails \in Seq(0 .. MaxAttempts) /\ Len(fails) = nextId - 1

(* A file that counts as indexed has reached the platform, is queued, or    *)
(* was in a chunk that Flush gave up.                                       *)
IndexedIsAccounted ==
    indexed \subseteq FilesOf(received) \cup FilesOf({r.chunk : r \in rows \cup dropped})

(* A scan that completes has indexed every file.                            *)
CompletedIsWhole == phase = "completed" => indexed = 1 .. Files

(* What a scan promises of its files.                                       *)
ScanIsWhole == CompletedIsWhole /\ IndexedIsAccounted

(* The platform never gets two different chunks under one number: a retry   *)
(* repeats the chunk, also the last flush after a failed one.               *)
OneChunkPerIndex ==
    \A c, d \in received : c.scan = d.scan /\ c.index = d.index => c = d

(* Flush gives a row up only when as many sends of it as the limit have     *)
(* failed, also when two of them share the queue and overwrite each other's *)
(* counts.                                                                  *)
DroppedAfterAttempts == \A r \in dropped : fails[r.id] >= MaxAttempts

(* Flush ends: two of them do not keep a failing row alive for ever by      *)
(* writing back old counts.                                                 *)
RowsLeave == \A n \in 1 .. MaxRows :
                (\E r \in rows : r.id = n) ~> ~ \E r \in rows : r.id = n
=============================================================================
