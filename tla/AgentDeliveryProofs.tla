------------------------ MODULE AgentDeliveryProofs ------------------------
(* Theorems about AgentDelivery for any number of files, chunk sizes, limits *)
(* and concurrent flushes, with or without a queue; and about AgentLoop for  *)
(* any connectors.                                                           *)
EXTENDS AgentDelivery, FiniteSetTheorems, TLAPS

(* The copies of rows that flushes have read and not dealt with, together    *)
(* with the rows themselves, and every chunk that is or may come to be on    *)
(* the platform.                                                             *)
Held == UNION {{todo[f][i] : i \in DOMAIN todo[f]} : f \in Flushers}
Copies == rows \cup Held
Known == received \cup {r.chunk : r \in Copies}

(* What has been walked is indexed or still in the batch, also after an      *)
(* error; only a walk to the end lets a scan complete.                       *)
WalkIsSplit ==
    /\ indexed \cup batch = 1 .. walked
    /\ phase = "walking" => Cardinality(batch) < ChunkSize
    /\ phase = "last" => err \/ walked = Files
    /\ phase = "completed" => batch = {} /\ walked = Files

(* The numbers below chunkIdx are used up; a chunk under chunkIdx itself is  *)
(* the one being sent, which Walk does not add to any more.                  *)
NumbersAreUsedUp ==
    \A c \in Known :
        /\ c.scan <= scan
        /\ c.scan = scan => c.index <= chunkIdx
        /\ c.scan = scan /\ c.index = chunkIdx => c = Chunk /\ phase # "walking"

OneChunkPerNumber == \A c, d \in Known : c.scan = d.scan /\ c.index = d.index => c = d

(* However old, a copy of a row has the row's chunk, and its count is one of *)
(* sends that failed.                                                        *)
CopiesAreTrue ==
    /\ \A r \in Copies : r.id < nextId /\ r.attempts <= fails[r.id]
    /\ \A r, q \in Copies : r.id = q.id => r.chunk = q.chunk

(* Between a send and its record, the send is already part of the history.   *)
SendIsDone ==
    \A f \in Flushers :
        /\ sent[f] # "none" => todo[f] # <<>>
        /\ sent[f] = "ok" => Head(todo[f]).chunk \in received
        /\ sent[f] = "failed" => Head(todo[f]).attempts < fails[Head(todo[f]).id]

DroppedIsSpent == \A r \in dropped : r.id < nextId /\ fails[r.id] >= MaxAttempts

ScanInv == WalkIsSplit /\ NumbersAreUsedUp /\ OneChunkPerNumber
QueueInv == IsFiniteSet(rows) /\ CopiesAreTrue /\ SendIsDone /\ DroppedIsSpent

(* The inductive invariant.                                                  *)
IInv == TypeOK /\ ScanInv /\ QueueInv /\ IndexedIsAccounted

----------------------------------------------------------------------------
(* Lemmas *)

(* The bounds are numbers, and what must be positive is.                     *)
LEMMA ConstantsType ==
    /\ Files \in Nat /\ ChunkSize \in Nat \ {0} /\ MaxRetries \in Nat \ {0}
    /\ FlushBatch \in Nat \ {0} /\ MaxAttempts \in Nat \ {0}
    /\ MaxScans \in Nat /\ MaxRows \in Nat
BY DeliveryAssumption

(* Copies are rows and their chunks are chunks.                              *)
LEMMA CopiesType ==
    ASSUME TypeOK
    PROVE  Held \subseteq Row /\ Copies \subseteq Row /\ Known \subseteq Chunks
<1>1. ASSUME NEW f \in Flushers, NEW i \in DOMAIN todo[f] PROVE todo[f][i] \in Row
    <2>1. todo[f] \in Seq(Row)
        BY DEF TypeOK
    <2> QED
        BY <2>1
<1>2. Held \subseteq Row
    BY <1>1 DEF Held
<1>3. Copies \subseteq Row
    BY <1>2 DEF Copies, TypeOK
<1>4. \A r \in Row : r.chunk \in Chunks
    BY DEF Row
<1> QED
    BY <1>2, <1>3, <1>4 DEF Known, TypeOK

(* The row a flush sends is one of its copies; taking it off leaves copies   *)
(* that were there.                                                          *)
LEMMA HeadIsHeld ==
    ASSUME TypeOK, NEW f \in Flushers, todo[f] # <<>>
    PROVE  Head(todo[f]) \in Held /\ Head(todo[f]) \in Row
<1>1. todo[f] \in Seq(Row)
    BY DEF TypeOK
<1>2. 1 \in DOMAIN todo[f] /\ Head(todo[f]) = todo[f][1]
    BY <1>1
<1> QED
    BY <1>1, <1>2 DEF Held

(* A flush that is done with a row holds the others.                         *)
LEMMA TailShrinks ==
    ASSUME TypeOK, NEW f \in Flushers, todo[f] # <<>>,
           todo' = [todo EXCEPT ![f] = Tail(@)]
    PROVE  todo' \in [Flushers -> Seq(Row)] /\ Held' \subseteq Held
<1>1. todo \in [Flushers -> Seq(Row)] /\ todo[f] \in Seq(Row)
    BY DEF TypeOK
<1>2. /\ Tail(todo[f]) \in Seq(Row)
      /\ \A i \in DOMAIN Tail(todo[f]) : i + 1 \in DOMAIN todo[f] /\ Tail(todo[f])[i] = todo[f][i + 1]
    BY <1>1
<1>3. todo' \in [Flushers -> Seq(Row)]
    BY <1>1, <1>2
<1>4. ASSUME NEW g \in Flushers, NEW i \in DOMAIN todo'[g] PROVE todo'[g][i] \in Held
    <2>1. CASE g = f
        BY <1>1, <1>2, <2>1, <1>4 DEF Held
    <2>2. CASE g # f
        BY <1>1, <2>2, <1>4 DEF Held
    <2> QED
        BY <2>1, <2>2
<1> QED
    BY <1>3, <1>4 DEF Held

(* The initial state: nothing is sent or queued.                             *)
LEMMA InitIInv == Init => IInv
<1> SUFFICES ASSUME Init PROVE IInv
    OBVIOUS
<1>1. Held = {} /\ Copies = {} /\ Known = {}
    BY DEF Init, Held, Copies, Known
<1>2. Cardinality({}) = 0 /\ 1 .. 0 = {}
    BY FS_EmptySet
<1>3. TypeOK
    <2>1. fails \in Seq(0 .. MaxAttempts) /\ Len(fails) = nextId - 1
        BY DEF Init
    <2>2. todo \in [Flushers -> Seq(Row)]
        BY DEF Init
    <2>3. /\ walked \in 0 .. Files /\ batch \subseteq 1 .. walked /\ indexed \subseteq 1 .. walked
          /\ Cardinality(batch) <= ChunkSize /\ tries \in 0 .. MaxRetries
        BY <1>2, ConstantsType DEF Init
    <2>4. sent \in [Flushers -> {"none", "ok", "failed"}]
        BY DEF Init
    <2>5. /\ scan \in Nat \ {0} /\ chunkIdx \in Nat /\ nextId \in Nat \ {0}
          /\ phase \in {"walking", "sending", "last", "completed", "failed", "dead"}
          /\ rows \subseteq Row /\ dropped \subseteq Row /\ received \subseteq Chunks
          /\ delivered \subseteq Nat
        BY DEF Init
    <2>6. err \in BOOLEAN
        BY Zenon DEF Init
    <2> QED
        BY <2>1, <2>2, <2>3, <2>4, <2>5, <2>6 DEF TypeOK
<1>4. ScanInv
    BY <1>1, <1>2, ConstantsType
    DEF Init, ScanInv, WalkIsSplit, NumbersAreUsedUp, OneChunkPerNumber
<1>5. QueueInv
    BY <1>1, FS_EmptySet DEF Init, QueueInv, CopiesAreTrue, SendIsDone, DroppedIsSpent
<1>6. IndexedIsAccounted
    BY DEF Init, IndexedIsAccounted
<1> QED
    BY <1>3, <1>4, <1>5, <1>6 DEF IInv

(* The scan does not disturb the queue.                                      *)
LEMMA QueueLeftAlone ==
    ASSUME QueueInv, UNCHANGED queue, received \subseteq received'
    PROVE  QueueInv' /\ Copies' = Copies
<1>1. UNCHANGED <<rows, todo, sent, nextId, dropped, fails>>
    BY DEF queue
<1>2. Copies' = Copies
    BY <1>1 DEF Copies, Held
<1>3. CopiesAreTrue'
    BY <1>1, <1>2 DEF QueueInv, CopiesAreTrue
<1>4. SendIsDone'
    BY <1>1 DEF QueueInv, SendIsDone
<1>5. DroppedIsSpent'
    BY <1>1 DEF QueueInv, DroppedIsSpent
<1> QED
    BY <1>1, <1>2, <1>3, <1>4, <1>5 DEF QueueInv

(* A flush does not disturb the scan: what it sends was queued.              *)
LEMMA ScanLeftAlone ==
    ASSUME ScanInv, UNCHANGED scanner, Known' \subseteq Known
    PROVE  ScanInv'
<1>1. UNCHANGED <<scan, phase, walked, batch, chunkIdx, tries, err, indexed>>
    BY DEF scanner
<1>2. WalkIsSplit'
    BY <1>1 DEF ScanInv, WalkIsSplit
<1>3. Chunk' = Chunk
    BY <1>1 DEF Chunk
<1>4. NumbersAreUsedUp' /\ OneChunkPerNumber'
    BY <1>1, <1>3 DEF ScanInv, NumbersAreUsedUp, OneChunkPerNumber
<1> QED
    BY <1>2, <1>4 DEF ScanInv

(* Sending or queueing the current chunk uses its number up.                 *)
LEMMA ChunkDoneKeeps ==
    ASSUME TypeOK, ScanInv, Sending, ChunkDone, Known' \subseteq Known \cup {Chunk}
    PROVE  ScanInv'
<1> USE ConstantsType
<1>1. /\ Known \subseteq Chunks
      /\ Chunk \in Chunks /\ Chunk.scan = scan /\ Chunk.index = chunkIdx
    BY CopiesType DEF TypeOK, Chunks, Chunk
<1>2. /\ scan' = scan /\ chunkIdx' = chunkIdx + 1 /\ batch' = {} /\ walked' = walked
      /\ indexed' = indexed \cup batch
      /\ phase' \in {"walking", "failed", "completed"}
      /\ phase' = "completed" => phase = "last" /\ ~err
    BY DEF ChunkDone, Sending
<1>3. WalkIsSplit'
    <2>1. Cardinality(batch') = 0
        BY <1>2, FS_EmptySet
    <2> QED
        BY <1>2, <2>1 DEF ScanInv, WalkIsSplit, TypeOK
<1>4. ASSUME NEW c \in Known' PROVE c.scan <= scan /\ (c.scan = scan => c.index < chunkIdx')
    <2>1. CASE c = Chunk
        BY <1>1, <1>2, <2>1 DEF TypeOK
    <2>2. CASE c \in Known
        <3>1. c.scan \in Nat /\ c.index \in Nat
            BY <1>1, <2>2 DEF Chunks
        <3> QED
            BY <1>2, <2>2, <3>1 DEF ScanInv, NumbersAreUsedUp, TypeOK
    <2> QED
        BY <2>1, <2>2
<1>5. NumbersAreUsedUp'
    <2>1. ASSUME NEW c \in Known'
          PROVE  /\ c.scan <= scan'
                 /\ c.scan = scan' => c.index <= chunkIdx'
                 /\ c.scan = scan' => c.index # chunkIdx'
        <3>1. c \in Chunks
            BY <1>1
        <3>2. c.scan \in Nat /\ c.index \in Nat /\ chunkIdx' \in Nat
            BY <1>2, <3>1 DEF Chunks, TypeOK
        <3> QED
            BY <1>2, <1>4, <3>2
    <2> QED
        BY <2>1 DEF NumbersAreUsedUp
<1>6. OneChunkPerNumber'
    BY <1>1 DEF ScanInv, NumbersAreUsedUp, OneChunkPerNumber
<1> QED
    BY <1>3, <1>5, <1>6 DEF ScanInv

(* Going on after a chunk keeps the types of the scan.                       *)
LEMMA ChunkDoneType ==
    ASSUME TypeOK, Sending, ChunkDone
    PROVE  /\ scan' \in Nat \ {0}
           /\ phase' \in {"walking", "sending", "last", "completed", "failed", "dead"}
           /\ walked' \in 0 .. Files /\ batch' \subseteq 1 .. walked' /\ indexed' \subseteq 1 .. walked'
           /\ Cardinality(batch') <= ChunkSize
           /\ chunkIdx' \in Nat /\ tries' \in 0 .. MaxRetries /\ err' \in BOOLEAN
<1>1. Cardinality({}) <= ChunkSize
    BY FS_EmptySet, ConstantsType
<1> QED
    BY <1>1 DEF TypeOK, ChunkDone, Sending

----------------------------------------------------------------------------
(* Steps of the scan *)

(* A file joins the batch of the next chunk, whose number is not in use.     *)
LEMMA WalkFileStep == IInv /\ WalkFile => IInv'
<1> SUFFICES ASSUME IInv, WalkFile PROVE IInv'
    OBVIOUS
<1> USE ConstantsType
<1>1. /\ UNCHANGED <<scan, chunkIdx, err, indexed, received>> /\ UNCHANGED queue
      /\ walked' = walked + 1 /\ walked' \in 0 .. Files
      /\ batch' = batch \cup {walked + 1} /\ tries' = 0
      /\ phase = "walking" /\ phase' \in {"walking", "sending"}
      /\ phase' = "walking" => ~(Cardinality(batch') >= ChunkSize)
    BY DEF WalkFile, IInv, TypeOK
<1>2. QueueInv' /\ Copies' = Copies
    BY <1>1, QueueLeftAlone DEF IInv
<1>3. IsFiniteSet(batch) /\ Cardinality(batch) \in Nat /\ Cardinality(batch) < ChunkSize
    <2>1. batch \subseteq 1 .. walked /\ walked \in Nat
        BY DEF IInv, TypeOK
    <2>2. IsFiniteSet(1 .. walked)
        BY <2>1, FS_Interval
    <2>3. IsFiniteSet(batch)
        BY <2>1, <2>2, FS_Subset
    <2> QED
        BY <1>1, <2>3, FS_CardinalityType DEF IInv, ScanInv, WalkIsSplit
<1>4. Cardinality(batch') \in Nat /\ Cardinality(batch') <= ChunkSize
    BY <1>1, <1>3, FS_AddElement
<1>5. TypeOK'
    <2>1. batch' \subseteq 1 .. walked' /\ indexed' \subseteq 1 .. walked'
        BY <1>1 DEF IInv, TypeOK
    <2> QED
        BY <1>1, <1>4, <2>1 DEF IInv, TypeOK, queue
<1>6. WalkIsSplit'
    <2>1. indexed' \cup batch' = 1 .. walked'
        BY <1>1 DEF IInv, TypeOK, ScanInv, WalkIsSplit
    <2> QED
        BY <1>1, <1>4, <2>1 DEF WalkIsSplit
<1>7. Known' = Known
    BY <1>1, <1>2 DEF Known
<1>8. NumbersAreUsedUp' /\ OneChunkPerNumber'
    BY <1>1, <1>7 DEF IInv, ScanInv, NumbersAreUsedUp, OneChunkPerNumber
<1>9. IndexedIsAccounted'
    BY <1>1 DEF IInv, IndexedIsAccounted, FilesOf, queue
<1> QED
    BY <1>2, <1>5, <1>6, <1>8, <1>9 DEF IInv, ScanInv

(* Walk ends, a chunk could not be sent, or the next scan begins.            *)
LEMMA PhaseStep == IInv /\ (WalkEnds \/ ChunkFails \/ Rescan) => IInv'
<1> SUFFICES ASSUME IInv, WalkEnds \/ ChunkFails \/ Rescan PROVE IInv'
    OBVIOUS
<1> USE ConstantsType
<1>1. UNCHANGED queue /\ received' = received
    BY DEF WalkEnds, ChunkFails, Rescan
<1>2. QueueInv' /\ Copies' = Copies
    BY <1>1, QueueLeftAlone DEF IInv
<1>3. Known' = Known /\ Known \subseteq Chunks
    BY <1>1, <1>2, CopiesType DEF Known, IInv
<1>4. Cardinality({}) = 0 /\ 1 .. 0 = {}
    BY FS_EmptySet
<1>5. TypeOK'
    <2>1. CASE WalkEnds
        BY <1>1, <2>1 DEF IInv, TypeOK, WalkEnds, queue
    <2>2. CASE ChunkFails
        BY <1>1, <2>2 DEF IInv, TypeOK, ChunkFails, queue
    <2>3. CASE Rescan
        <3>1. /\ walked' = 0 /\ batch' = {} /\ indexed' = {} /\ scan' = scan + 1 /\ phase' = "walking"
              /\ chunkIdx' = 0 /\ tries' = 0
            BY <2>3 DEF Rescan
        <3>3. err' \in BOOLEAN
            BY <2>3, Zenon DEF Rescan
        <3>2. /\ walked' \in 0 .. Files /\ batch' \subseteq 1 .. walked' /\ indexed' \subseteq 1 .. walked'
              /\ Cardinality(batch') <= ChunkSize /\ tries' \in 0 .. MaxRetries
            BY <1>4, <3>1
        <3> QED
            BY <1>1, <3>1, <3>2, <3>3 DEF IInv, TypeOK, queue
    <2> QED
        BY <2>1, <2>2, <2>3
<1>6. WalkIsSplit'
    <2>1. CASE WalkEnds
        BY <2>1 DEF IInv, TypeOK, ScanInv, WalkIsSplit, WalkEnds
    <2>2. CASE ChunkFails
        BY <2>2 DEF IInv, TypeOK, ScanInv, WalkIsSplit, ChunkFails, Sending
    <2>3. CASE Rescan
        BY <1>4, <2>3 DEF WalkIsSplit, Rescan
    <2> QED
        BY <2>1, <2>2, <2>3
<1>7. NumbersAreUsedUp'
    <2>1. CASE WalkEnds \/ ChunkFails
        BY <1>3, <2>1 DEF IInv, ScanInv, NumbersAreUsedUp, WalkEnds, ChunkFails, Sending, Chunk
    <2>2. CASE Rescan
        <3>1. \A c \in Known : c.scan \in Nat /\ c.scan <= scan
            BY <1>3 DEF IInv, ScanInv, NumbersAreUsedUp, Chunks
        <3>2. scan' = scan + 1 /\ scan \in Nat
            BY <2>2 DEF Rescan, IInv, TypeOK
        <3>3. \A c \in Known : c.scan <= scan' /\ c.scan # scan'
            BY <3>1, <3>2
        <3> QED
            BY <1>3, <3>3 DEF NumbersAreUsedUp
    <2> QED
        BY <2>1, <2>2
<1>8. OneChunkPerNumber'
    BY <1>3 DEF IInv, ScanInv, OneChunkPerNumber
<1>9. IndexedIsAccounted'
    <2>1. indexed' \subseteq indexed
        BY DEF WalkEnds, ChunkFails, Rescan
    <2> QED
        BY <1>1, <2>1 DEF IInv, IndexedIsAccounted, FilesOf, queue
<1> QED
    BY <1>2, <1>5, <1>6, <1>7, <1>8, <1>9 DEF IInv, ScanInv

(* A post, accepted or with its answer lost, puts the current chunk on the   *)
(* platform; queueing it makes a row of it.                                  *)
LEMMA PostAcceptedStep == IInv /\ PostAccepted => IInv'
<1> SUFFICES ASSUME IInv, PostAccepted PROVE IInv'
    OBVIOUS
<1> USE ConstantsType
<1>1. /\ received' = received \cup {Chunk} /\ UNCHANGED queue /\ ChunkDone /\ Sending
      /\ Chunk \in Chunks
    BY DEF PostAccepted, IInv, TypeOK, Chunk, Chunks
<1>2. QueueInv' /\ Copies' = Copies
    BY <1>1, QueueLeftAlone DEF IInv
<1>3. Known' \subseteq Known \cup {Chunk}
    BY <1>1, <1>2 DEF Known
<1>4. ScanInv'
    BY <1>1, <1>3, ChunkDoneKeeps DEF IInv
<1>5. TypeOK'
    BY <1>1, ChunkDoneType DEF IInv, TypeOK, queue
<1>6. IndexedIsAccounted'
    BY <1>1 DEF IInv, IndexedIsAccounted, FilesOf, queue, ChunkDone, Chunk
<1> QED
    BY <1>2, <1>4, <1>5, <1>6 DEF IInv

(* A post that fails may have been stored all the same; the chunk is tried   *)
(* again under the number it had.                                            *)
LEMMA PostFailsStep == IInv /\ PostFails => IInv'
<1> SUFFICES ASSUME IInv, PostFails PROVE IInv'
    OBVIOUS
<1> USE ConstantsType
<1>1. /\ received \subseteq received' /\ received' \subseteq received \cup {Chunk}
      /\ UNCHANGED queue /\ Sending
      /\ UNCHANGED <<scan, phase, walked, batch, chunkIdx, err, indexed>>
      /\ tries' = tries + 1 /\ tries < MaxRetries
      /\ Chunk \in Chunks /\ Chunk' = Chunk
    BY DEF PostFails, IInv, TypeOK, Chunk, Chunks
<1>2. QueueInv' /\ Copies' = Copies
    BY <1>1, QueueLeftAlone DEF IInv
<1>3. Known' \subseteq Known \cup {Chunk}
    BY <1>1, <1>2 DEF Known
<1>4. WalkIsSplit'
    BY <1>1 DEF IInv, ScanInv, WalkIsSplit
<1>5. NumbersAreUsedUp' /\ OneChunkPerNumber'
    <2>1. Chunk.scan = scan /\ Chunk.index = chunkIdx /\ phase # "walking"
        BY <1>1 DEF Chunk, Sending
    <2>2. scan \in Nat /\ chunkIdx \in Nat
        BY DEF IInv, TypeOK
    <2> QED
        BY <1>1, <1>3, <2>1, <2>2 DEF IInv, ScanInv, NumbersAreUsedUp, OneChunkPerNumber
<1>6. TypeOK'
    BY <1>1 DEF IInv, TypeOK, queue
<1>7. IndexedIsAccounted'
    BY <1>1 DEF IInv, IndexedIsAccounted, FilesOf, queue
<1> QED
    BY <1>2, <1>4, <1>5, <1>6, <1>7 DEF IInv, ScanInv

(* The retries are used up: the chunk becomes a row of the queue.            *)
LEMMA EnqueueStep == IInv /\ Enqueue => IInv'
<1> SUFFICES ASSUME IInv, Enqueue PROVE IInv'
    OBVIOUS
<1> USE ConstantsType
<1> DEFINE row == [id |-> nextId, chunk |-> Chunk, attempts |-> 0]
<1>1. /\ rows' = rows \cup {row} /\ nextId' = nextId + 1 /\ nextId \in Nat \ {0}
      /\ fails' = Append(fails, 0)
      /\ ChunkDone /\ Sending
      /\ UNCHANGED <<todo, sent, received, delivered, dropped>>
      /\ Chunk \in Chunks
    BY DEF Enqueue, IInv, TypeOK, Chunk, Chunks
<1>2. row \in Row
    BY <1>1 DEF Row
<1>3. Held' = Held /\ Copies' = Copies \cup {row}
    BY <1>1 DEF Held, Copies
<1>4. Copies \subseteq Row /\ Held \subseteq Row
    BY CopiesType DEF IInv
<1>5. /\ fails' \in Seq(0 .. MaxAttempts) /\ Len(fails') = nextId' - 1
      /\ \A i \in 1 .. nextId - 1 : fails'[i] = fails[i]
      /\ fails'[nextId] = 0
    BY <1>1 DEF IInv, TypeOK
<1>6. ScanInv'
    <2>1. Known' \subseteq Known \cup {Chunk}
        BY <1>1, <1>3 DEF Known
    <2> QED
        BY <1>1, <2>1, ChunkDoneKeeps DEF IInv
<1>7. CopiesAreTrue'
    <2>1. ASSUME NEW r \in Copies
          PROVE  r.id < nextId /\ r.id \in 1 .. nextId - 1 /\ r.attempts <= fails[r.id]
        BY <1>1, <1>4 DEF IInv, QueueInv, CopiesAreTrue, Row
    <2>2. \A r \in Copies' : r.id < nextId' /\ r.attempts <= fails'[r.id]
        BY <1>1, <1>3, <1>5, <2>1
    <2>3. \A r, q \in Copies' : r.id = q.id => r.chunk = q.chunk
        BY <1>1, <1>3, <2>1 DEF IInv, QueueInv, CopiesAreTrue
    <2> QED
        BY <2>2, <2>3 DEF CopiesAreTrue
<1>8. SendIsDone'
    <2>1. ASSUME NEW f \in Flushers, sent[f] # "none"
          PROVE  fails'[Head(todo[f]).id] = fails[Head(todo[f]).id]
        <3>1. todo[f] # <<>>
            BY <2>1 DEF IInv, QueueInv, SendIsDone
        <3>2. Head(todo[f]) \in Held /\ Head(todo[f]) \in Row
            BY <3>1, HeadIsHeld DEF IInv
        <3>3. Head(todo[f]).id < nextId /\ Head(todo[f]).id \in Nat \ {0}
            BY <3>2 DEF IInv, QueueInv, CopiesAreTrue, Copies, Row
        <3> QED
            BY <1>1, <1>5, <3>3
    <2> QED
        BY <1>1, <2>1 DEF IInv, QueueInv, SendIsDone
<1>9. DroppedIsSpent'
    <2>1. \A r \in dropped : r.id \in 1 .. nextId - 1
        BY <1>1 DEF IInv, TypeOK, Row, QueueInv, DroppedIsSpent
    <2> QED
        BY <1>1, <1>5, <2>1 DEF IInv, QueueInv, DroppedIsSpent
<1>10. TypeOK'
    BY SMTT(30), <1>1, <1>2, <1>5, ChunkDoneType DEF IInv, TypeOK
<1>11. IndexedIsAccounted'
    <2>1. indexed' = indexed \cup Chunk.files
        BY <1>1 DEF ChunkDone, Chunk
    <2>2. Chunk.files \subseteq FilesOf({r.chunk : r \in rows' \cup dropped'})
        <3>1. row \in rows' \cup dropped' /\ row.chunk = Chunk
            BY <1>1
        <3>2. Chunk \in {r.chunk : r \in rows' \cup dropped'}
            BY <3>1
        <3> QED
            BY <3>2 DEF FilesOf
    <2>3. /\ FilesOf(received') = FilesOf(received)
          /\ FilesOf({r.chunk : r \in rows \cup dropped}) \subseteq FilesOf({r.chunk : r \in rows' \cup dropped'})
        BY <1>1 DEF FilesOf
    <2> QED
        BY <2>1, <2>2, <2>3 DEF IInv, IndexedIsAccounted
<1>12. IsFiniteSet(rows')
    BY <1>1, FS_AddElement DEF IInv, QueueInv
<1> QED
    BY <1>6, <1>7, <1>8, <1>9, <1>10, <1>11, <1>12 DEF IInv, QueueInv

(* A flush that is done with a row leaves the other flushes as they were.    *)
LEMMA FlushMoves ==
    ASSUME TypeOK, QueueInv, NEW f \in Flushers,
           rows' \subseteq rows, Copies' \subseteq Copies,
           UNCHANGED <<nextId, dropped, fails, received>>,
           todo' = [todo EXCEPT ![f] = Tail(@)], sent' = [sent EXCEPT ![f] = "none"]
    PROVE  QueueInv'
<1>1. IsFiniteSet(rows')
    BY FS_Subset DEF QueueInv
<1>2. CopiesAreTrue' /\ DroppedIsSpent'
    BY DEF QueueInv, CopiesAreTrue, DroppedIsSpent
<1>3. SendIsDone'
    BY DEF QueueInv, SendIsDone, TypeOK
<1> QED
    BY <1>1, <1>2, <1>3 DEF QueueInv

----------------------------------------------------------------------------
(* Steps of a flush and of the process *)

(* Reading rows makes copies of them.                                        *)
LEMMA ReadRowsStep == ASSUME IInv, NEW f \in Flushers, ReadRows(f) PROVE IInv'
<1> USE ConstantsType
<1>1. /\ UNCHANGED scanner
      /\ UNCHANGED <<rows, nextId, sent, received, delivered, dropped, fails>>
      /\ todo[f] = <<>>
    BY DEF ReadRows
<1> DEFINE n == IF Cardinality(rows) < FlushBatch THEN Cardinality(rows) ELSE FlushBatch
<1>2. PICK s \in [1 .. n -> rows] : todo' = [todo EXCEPT ![f] = s]
    BY DEF ReadRows, Oldest
<1>3. s \in Seq(Row) /\ DOMAIN s = 1 .. n /\ \A i \in 1 .. n : s[i] \in rows
    <2>1. Cardinality(rows) \in Nat
        BY FS_CardinalityType DEF IInv, QueueInv
    <2>2. n \in Nat
        BY <2>1
    <2> HIDE DEF n
    <2>3. rows \subseteq Row
        BY DEF IInv, TypeOK
    <2> QED
        BY <1>2, <2>2, <2>3
<1>4. todo' \in [Flushers -> Seq(Row)]
    BY <1>2, <1>3 DEF IInv, TypeOK
<1>5. TypeOK'
    BY <1>1, <1>4 DEF IInv, TypeOK, scanner
<1>6. Copies' \subseteq Copies
    <2>1. ASSUME NEW g \in Flushers, NEW i \in DOMAIN todo'[g] PROVE todo'[g][i] \in Copies
        <3>1. CASE g = f
            BY <1>2, <1>3, <2>1, <3>1 DEF Copies, IInv, TypeOK
        <3>2. CASE g # f
            BY <1>2, <2>1, <3>2 DEF Copies, Held, IInv, TypeOK
        <3> QED
            BY <3>1, <3>2
    <2>2. Held' \subseteq Copies
        BY <2>1 DEF Held
    <2> QED
        BY <1>1, <2>2 DEF Copies
<1>7. ScanInv'
    BY <1>1, <1>6, ScanLeftAlone DEF IInv, Known
<1>8. CopiesAreTrue' /\ DroppedIsSpent'
    BY <1>1, <1>6 DEF IInv, QueueInv, CopiesAreTrue, DroppedIsSpent
<1>9. SendIsDone'
    <2>1. ASSUME NEW g \in Flushers, sent[g] # "none" PROVE g # f /\ todo'[g] = todo[g]
        BY <1>1, <1>2, <2>1 DEF IInv, QueueInv, SendIsDone, TypeOK
    <2> QED
        BY <1>1, <2>1 DEF IInv, QueueInv, SendIsDone
<1>10. IndexedIsAccounted'
    BY <1>1 DEF IInv, IndexedIsAccounted, FilesOf, scanner
<1> QED
    BY <1>1, <1>5, <1>7, <1>8, <1>9, <1>10 DEF IInv, QueueInv

(* A send is in the history at once, whether its answer came or not.         *)
LEMMA SendRowStep == ASSUME IInv, NEW f \in Flushers, SendRow(f) PROVE IInv'
<1> USE ConstantsType
<1> DEFINE row == Head(todo[f])
<1>1. /\ UNCHANGED scanner /\ UNCHANGED <<rows, nextId, todo, dropped>>
      /\ todo[f] # <<>> /\ sent[f] = "none"
      /\ received \subseteq received' /\ received' \subseteq received \cup {row.chunk}
    BY DEF SendRow
<1>2. row \in Held /\ row \in Copies /\ row \in Row
    BY <1>1, HeadIsHeld DEF IInv, Copies
<1> HIDE DEF row
<1>3. /\ row.id \in 1 .. nextId - 1 /\ row.attempts <= fails[row.id]
      /\ row.attempts \in 0 .. MaxAttempts - 1 /\ row.chunk \in Chunks
    BY <1>2 DEF IInv, QueueInv, CopiesAreTrue, Row, TypeOK
<1>4. /\ fails \in Seq(0 .. MaxAttempts) /\ Len(fails) = nextId - 1
      /\ DOMAIN fails = 1 .. nextId - 1
      /\ fails[row.id] \in 0 .. MaxAttempts
    BY <1>3 DEF IInv, TypeOK
<1>5. \/ /\ sent' = [sent EXCEPT ![f] = "ok"] /\ row.chunk \in received'
         /\ delivered' = delivered \cup {row.id} /\ fails' = fails
      \/ /\ sent' = [sent EXCEPT ![f] = "failed"] /\ delivered' = delivered
         /\ fails' = [fails EXCEPT ![row.id] = IF fails[row.id] < MaxAttempts
                                               THEN fails[row.id] + 1 ELSE fails[row.id]]
    BY DEF SendRow, row
<1>6. /\ fails' \in Seq(0 .. MaxAttempts) /\ Len(fails') = nextId - 1
      /\ \A i \in 1 .. nextId - 1 : fails'[i] \in Nat /\ fails[i] \in Nat /\ fails[i] <= fails'[i]
      /\ sent'[f] = "failed" => row.attempts < fails'[row.id]
    <2>1. CASE fails' = fails /\ sent'[f] = "ok"
        BY <1>4, <2>1
    <2>2. CASE fails' = [fails EXCEPT ![row.id] = IF fails[row.id] < MaxAttempts
                                                  THEN fails[row.id] + 1 ELSE fails[row.id]]
        <3> DEFINE more == IF fails[row.id] < MaxAttempts THEN fails[row.id] + 1 ELSE fails[row.id]
        <3>1. more \in 0 .. MaxAttempts /\ fails[row.id] <= more /\ row.attempts < more
            BY <1>3, <1>4
        <3> HIDE DEF more
        <3>2. fails' = [fails EXCEPT ![row.id] = more]
            BY <2>2 DEF more
        <3> QED
            BY <1>3, <1>4, <3>1, <3>2
    <2> QED
        BY <1>5, <2>1, <2>2 DEF IInv, TypeOK
<1>7. sent' \in [Flushers -> {"none", "ok", "failed"}] /\ \A g \in Flushers : g # f => sent'[g] = sent[g]
    BY <1>5 DEF IInv, TypeOK
<1>8. TypeOK'
    <2>1. received' \subseteq Chunks
        BY <1>1, <1>3 DEF IInv, TypeOK
    <2>2. delivered \subseteq Nat /\ row.id \in Nat
        BY <1>3 DEF IInv, TypeOK
    <2>3. delivered' \subseteq Nat
        BY <1>5, <2>2
    <2> QED
        BY <1>1, <1>6, <1>7, <2>1, <2>3 DEF IInv, TypeOK, scanner
<1>9. Held' = Held /\ Copies' = Copies
    BY <1>1 DEF Held, Copies
<1>10. ScanInv'
    <2>1. Known' \subseteq Known
        BY <1>1, <1>2, <1>9 DEF Known
    <2> QED
        BY <1>1, <2>1, ScanLeftAlone DEF IInv
<1>11. ASSUME NEW r \in Copies \cup dropped
       PROVE  r.id < nextId /\ r.id \in 1 .. nextId - 1 /\ fails[r.id] <= fails'[r.id]
              /\ r.attempts \in Nat /\ fails[r.id] \in Nat /\ fails'[r.id] \in Nat
    <2>1. r \in Row
        BY <1>11, CopiesType DEF IInv, TypeOK
    <2>2. r.id < nextId
        BY <1>11 DEF IInv, QueueInv, CopiesAreTrue, DroppedIsSpent
    <2> QED
        BY SMTT(30), <1>6, <2>1, <2>2 DEF Row, IInv, TypeOK
<1>12. CopiesAreTrue'
    BY <1>1, <1>9, <1>11 DEF IInv, QueueInv, CopiesAreTrue
<1>13. DroppedIsSpent'
    BY <1>1, <1>11 DEF IInv, QueueInv, DroppedIsSpent
<1>14. SendIsDone'
    <2>1. ASSUME NEW g \in Flushers, g # f, sent[g] # "none"
          PROVE  /\ Head(todo[g]).attempts \in Nat
                 /\ fails[Head(todo[g]).id] \in Nat /\ fails'[Head(todo[g]).id] \in Nat
                 /\ fails[Head(todo[g]).id] <= fails'[Head(todo[g]).id]
        <3>1. Head(todo[g]) \in Copies
            BY <2>1, HeadIsHeld DEF IInv, QueueInv, SendIsDone, Copies
        <3> QED
            BY <1>11, <3>1
    <2>2. ASSUME NEW g \in Flushers, g # f
          PROVE  /\ sent'[g] # "none" => todo'[g] # <<>>
                 /\ sent'[g] = "ok" => Head(todo'[g]).chunk \in received'
                 /\ sent'[g] = "failed" => Head(todo'[g]).attempts < fails'[Head(todo'[g]).id]
        BY <1>1, <1>7, <2>1, <2>2 DEF IInv, QueueInv, SendIsDone
    <2>3. /\ todo'[f] # <<>> /\ todo' = todo
          /\ sent'[f] = "ok" => row.chunk \in received'
          /\ sent'[f] = "failed" => row.attempts < fails'[row.id]
        BY <1>1, <1>5, <1>6 DEF IInv, TypeOK
    <2> QED
        BY <2>2, <2>3 DEF SendIsDone, row
<1>15. IndexedIsAccounted'
    <2>1. FilesOf(received) \subseteq FilesOf(received')
        BY <1>1 DEF FilesOf
    <2> QED
        BY <1>1, <2>1 DEF IInv, IndexedIsAccounted, scanner
<1> QED
    BY <1>1, <1>8, <1>10, <1>12, <1>13, <1>14, <1>15 DEF IInv, QueueInv

(* A row that was sent is deleted with all its copies' chunk on the platform.*)
LEMMA DeleteSentStep == ASSUME IInv, NEW f \in Flushers, DeleteSent(f) PROVE IInv'
<1> USE ConstantsType
<1> DEFINE row == Head(todo[f])
<1>1. /\ UNCHANGED scanner /\ UNCHANGED <<nextId, received, delivered, dropped, fails>>
      /\ sent[f] = "ok" /\ rows' = {r \in rows : r.id # row.id}
      /\ todo' = [todo EXCEPT ![f] = Tail(@)]
      /\ sent' = [sent EXCEPT ![f] = "none"]
    BY DEF DeleteSent, Without
<1>2. todo[f] # <<>> /\ row.chunk \in received /\ row \in Copies
    BY <1>1, HeadIsHeld DEF IInv, QueueInv, SendIsDone, Copies
<1>3. todo' \in [Flushers -> Seq(Row)] /\ Held' \subseteq Held
    BY <1>1, <1>2, TailShrinks DEF IInv
<1>4. Copies' \subseteq Copies
    BY <1>1, <1>3 DEF Copies
<1>5. TypeOK'
    BY <1>1, <1>3 DEF IInv, TypeOK, scanner
<1>6. ScanInv'
    BY <1>1, <1>4, ScanLeftAlone DEF IInv, Known
<1>7. QueueInv'
    BY <1>1, <1>2, <1>3, <1>4, FlushMoves DEF IInv, TypeOK
<1>8. IndexedIsAccounted'
    <2>1. ASSUME NEW r \in rows \cup dropped
          PROVE  r.chunk.files \subseteq FilesOf(received') \cup FilesOf({q.chunk : q \in rows' \cup dropped'})
        <3>1. CASE r \in rows' \cup dropped'
            BY <3>1 DEF FilesOf
        <3>2. CASE r \in rows /\ r.id = row.id
            <4>1. r.chunk = row.chunk
                BY <1>2, <3>2 DEF IInv, QueueInv, CopiesAreTrue, Copies
            <4> QED
                BY <1>1, <1>2, <4>1 DEF FilesOf
        <3> QED
            BY <1>1, <2>1, <3>1, <3>2
    <2>2. FilesOf({r.chunk : r \in rows \cup dropped})
             \subseteq FilesOf(received') \cup FilesOf({q.chunk : q \in rows' \cup dropped'})
        BY <2>1 DEF FilesOf
    <2> QED
        BY <1>1, <2>2 DEF IInv, IndexedIsAccounted, scanner
<1> QED
    BY <1>5, <1>6, <1>7, <1>8 DEF IInv

(* A failed send is counted on the row from the copy, or ends it.            *)
LEMMA CountFailureStep == ASSUME IInv, NEW f \in Flushers, CountFailure(f) PROVE IInv'
<1> USE ConstantsType
<1> DEFINE row == Head(todo[f])
           counted == [r \in rows |-> IF r.id = row.id THEN [r EXCEPT !.attempts = row.attempts + 1] ELSE r]
<1>1. /\ UNCHANGED scanner /\ UNCHANGED <<nextId, received, delivered, fails>>
      /\ sent[f] = "failed"
      /\ todo' = [todo EXCEPT ![f] = Tail(@)]
      /\ sent' = [sent EXCEPT ![f] = "none"]
    BY DEF CountFailure
<1>2. /\ todo[f] # <<>> /\ row.attempts < fails[row.id]
      /\ row \in Held /\ row \in Copies /\ row \in Row
    BY <1>1, HeadIsHeld DEF IInv, QueueInv, SendIsDone, Copies
<1>3. /\ row.id < nextId /\ row.id \in 1 .. nextId - 1 /\ row.attempts \in 0 .. MaxAttempts - 1
      /\ fails[row.id] \in 0 .. MaxAttempts
    BY SMTT(30), <1>2 DEF IInv, QueueInv, CopiesAreTrue, Row, TypeOK
<1>4. todo' \in [Flushers -> Seq(Row)] /\ Held' \subseteq Held
    BY <1>1, <1>2, TailShrinks DEF IInv
<1>5. Copies \subseteq Row /\ IsFiniteSet(rows)
    BY CopiesType DEF IInv, QueueInv
<1>6. CASE row.attempts + 1 >= MaxAttempts
    <2>1. rows' = {r \in rows : r.id # row.id} /\ dropped' = dropped \cup {row}
        BY <1>6 DEF CountFailure, Without
    <2>2. Copies' \subseteq Copies
        BY <1>4, <2>1 DEF Copies
    <2>3. TypeOK'
        BY <1>1, <1>2, <1>4, <2>1 DEF IInv, TypeOK, scanner
    <2>4. ScanInv'
        BY <1>1, <2>2, ScanLeftAlone DEF IInv, Known
    <2>5. fails[row.id] >= MaxAttempts
        BY <1>2, <1>3, <1>6
    <2>6. QueueInv'
        <3>1. IsFiniteSet(rows') /\ CopiesAreTrue'
            BY <1>1, <1>5, <2>1, <2>2, FS_Subset DEF IInv, QueueInv, CopiesAreTrue
        <3>2. SendIsDone'
            BY <1>1 DEF IInv, QueueInv, SendIsDone, TypeOK
        <3>3. DroppedIsSpent'
            BY <1>1, <1>3, <2>1, <2>5 DEF IInv, QueueInv, DroppedIsSpent
        <3> QED
            BY <3>1, <3>2, <3>3 DEF QueueInv
    <2>7. IndexedIsAccounted'
        <3>1. ASSUME NEW r \in rows \cup dropped
              PROVE  r.chunk.files \subseteq FilesOf({q.chunk : q \in rows' \cup dropped'})
            <4>1. CASE r \in rows' \cup dropped'
                BY <4>1 DEF FilesOf
            <4>2. CASE r \in rows /\ r.id = row.id
                <5>1. r.chunk = row.chunk
                    BY <1>2, <4>2 DEF IInv, QueueInv, CopiesAreTrue, Copies
                <5> QED
                    BY <2>1, <5>1 DEF FilesOf
            <4> QED
                BY <2>1, <3>1, <4>1, <4>2
        <3>2. FilesOf({r.chunk : r \in rows \cup dropped})
                 \subseteq FilesOf({q.chunk : q \in rows' \cup dropped'})
            BY <3>1 DEF FilesOf
        <3> QED
            BY <1>1, <3>2 DEF IInv, IndexedIsAccounted, scanner
    <2> QED
        BY <2>3, <2>4, <2>6, <2>7 DEF IInv
<1>7. CASE ~(row.attempts + 1 >= MaxAttempts)
    <2>1. rows' = {counted[r] : r \in rows} /\ dropped' = dropped
        BY <1>7 DEF CountFailure
    <2>2. ASSUME NEW r \in rows
          PROVE  /\ counted[r] \in Row /\ counted[r].id = r.id /\ counted[r].chunk = r.chunk
                 /\ counted[r].attempts <= fails[r.id]
        <3>1. r \in Row /\ r.attempts <= fails[r.id]
            BY <1>5 DEF Copies, IInv, QueueInv, CopiesAreTrue
        <3>2. row.attempts + 1 \in 0 .. MaxAttempts - 1 /\ row.attempts + 1 <= fails[row.id]
            BY <1>2, <1>3, <1>7
        <3> QED
            BY <3>1, <3>2 DEF Row
    <2> HIDE DEF counted
    <2>3. ASSUME NEW r \in Copies'
          PROVE  \E q \in Copies : r.id = q.id /\ r.chunk = q.chunk /\ r.attempts <= fails[q.id]
        <3>1. CASE r \in Held'
            BY <1>4, <3>1 DEF Copies, IInv, QueueInv, CopiesAreTrue
        <3>2. CASE r \in rows'
            BY <2>1, <2>2, <3>2 DEF Copies
        <3> QED
            BY <3>1, <3>2 DEF Copies
    <2>4. TypeOK'
        <3>1. rows' \subseteq Row
            BY <2>1, <2>2
        <3> QED
            BY <1>1, <1>4, <2>1, <3>1 DEF IInv, TypeOK, scanner
    <2>5. ScanInv'
        <3>1. Known' \subseteq Known
            BY <1>1, <2>3 DEF Known
        <3> QED
            BY <1>1, <3>1, ScanLeftAlone DEF IInv
    <2>6. QueueInv'
        <3>1. IsFiniteSet(rows')
            <4>1. counted \in Surjection(rows, rows')
                BY <2>1 DEF Surjection, counted
            <4> QED
                BY <1>5, <4>1, FS_Surjection
        <3>2. CopiesAreTrue'
            BY <1>1, <2>3 DEF IInv, QueueInv, CopiesAreTrue
        <3>3. SendIsDone'
            BY <1>1 DEF IInv, QueueInv, SendIsDone, TypeOK
        <3>4. DroppedIsSpent'
            BY <1>1, <2>1 DEF IInv, QueueInv, DroppedIsSpent
        <3> QED
            BY <3>1, <3>2, <3>3, <3>4 DEF QueueInv
    <2>7. IndexedIsAccounted'
        <3>1. \A r \in rows \cup dropped : \E q \in rows' \cup dropped' : q.chunk = r.chunk
            BY <2>1, <2>2
        <3>2. {r.chunk : r \in rows \cup dropped} \subseteq {q.chunk : q \in rows' \cup dropped'}
            BY <3>1
        <3>3. FilesOf({r.chunk : r \in rows \cup dropped})
                 \subseteq FilesOf({q.chunk : q \in rows' \cup dropped'})
            BY <3>2 DEF FilesOf
        <3> QED
            BY <1>1, <3>3 DEF IInv, IndexedIsAccounted, scanner
    <2> QED
        BY <2>4, <2>5, <2>6, <2>7 DEF IInv
<1> QED
    BY <1>6, <1>7

(* A crash loses the copies and the scan, not the rows.                      *)
LEMMA CrashStep == IInv /\ Crash => IInv'
<1> SUFFICES ASSUME IInv, Crash PROVE IInv'
    OBVIOUS
<1> USE ConstantsType
<1>1. /\ UNCHANGED <<scan, walked, batch, chunkIdx, tries, err, indexed, rows, nextId, received,
                     delivered, dropped, fails>>
      /\ phase' = "dead"
      /\ todo' = [f \in Flushers |-> <<>>] /\ sent' = [f \in Flushers |-> "none"]
    BY DEF Crash
<1>2. Copies' \subseteq Copies
    BY <1>1 DEF Copies, Held
<1>3. TypeOK'
    BY <1>1 DEF IInv, TypeOK
<1>4. ScanInv'
    <2>1. Known' \subseteq Known /\ Chunk' = Chunk
        BY <1>1, <1>2 DEF Known, Chunk
    <2>2. WalkIsSplit'
        BY <1>1 DEF IInv, ScanInv, WalkIsSplit
    <2>3. NumbersAreUsedUp' /\ OneChunkPerNumber'
        BY <1>1, <2>1 DEF IInv, ScanInv, NumbersAreUsedUp, OneChunkPerNumber
    <2> QED
        BY <2>2, <2>3 DEF ScanInv
<1>5. QueueInv'
    BY <1>1, <1>2 DEF IInv, QueueInv, CopiesAreTrue, SendIsDone, DroppedIsSpent
<1>6. IndexedIsAccounted'
    BY <1>1 DEF IInv, IndexedIsAccounted, FilesOf
<1> QED
    BY <1>3, <1>4, <1>5, <1>6 DEF IInv

(* The invariant is inductive.                                               *)
LEMMA StepIInv == IInv /\ [Next]_vars => IInv'
<1> SUFFICES ASSUME IInv, [Next]_vars PROVE IInv'
    OBVIOUS
<1>1. CASE WalkFile
    BY <1>1, WalkFileStep
<1>2. CASE WalkEnds \/ ChunkFails \/ Rescan
    BY <1>2, PhaseStep
<1>3. CASE PostAccepted
    BY <1>3, PostAcceptedStep
<1>4. CASE PostFails
    BY <1>4, PostFailsStep
<1>5. CASE Enqueue
    BY <1>5, EnqueueStep
<1>6. CASE Crash
    BY <1>6, CrashStep
<1>7. ASSUME NEW f \in Flushers, ReadRows(f) \/ SendRow(f) \/ DeleteSent(f) \/ CountFailure(f)
      PROVE  IInv'
    BY <1>7, ReadRowsStep, SendRowStep, DeleteSentStep, CountFailureStep
<1>8. CASE UNCHANGED vars
    <2>1. UNCHANGED queue /\ UNCHANGED scanner /\ received' = received
        BY <1>8 DEF vars, queue, scanner
    <2>2. QueueInv' /\ Copies' = Copies
        BY <2>1, QueueLeftAlone DEF IInv
    <2>3. ScanInv'
        BY <2>1, <2>2, ScanLeftAlone DEF IInv, Known
    <2>4. TypeOK' /\ IndexedIsAccounted'
        BY <1>8 DEF vars, IInv, TypeOK, IndexedIsAccounted, FilesOf
    <2> QED
        BY <2>2, <2>3, <2>4 DEF IInv
<1> QED
    BY <1>1, <1>2, <1>3, <1>4, <1>5, <1>6, <1>7, <1>8 DEF Next

(* IInv holds in every reachable state.                                      *)
LEMMA Inductive == Spec => []IInv
BY InitIInv, StepIInv, PTL DEF Spec

----------------------------------------------------------------------------
(* Theorems *)

(* Every variable keeps its type, the batch stays within the chunk size and  *)
(* a row within its attempts.                                                *)
THEOREM TypeCorrect == Spec => []TypeOK
<1>1. IInv => TypeOK
    BY DEF IInv
<1> QED
    BY <1>1, Inductive, PTL

(* A completed scan has indexed every file, and what counts as indexed is on *)
(* the platform, queued, or was given up by Flush.                           *)
THEOREM ScansAreWhole == Spec => []ScanIsWhole
<1>1. IInv => ScanIsWhole
    BY DEF IInv, ScanInv, WalkIsSplit, ScanIsWhole, CompletedIsWhole
<1> QED
    BY <1>1, Inductive, PTL

(* A chunk number of a scan never stands for two different chunks, whatever  *)
(* is retried, queued, sent by several flushes or crashes.                   *)
THEOREM NumbersStandForOneChunk == Spec => []OneChunkPerIndex
<1>1. IInv => OneChunkPerIndex
    BY DEF IInv, ScanInv, OneChunkPerNumber, OneChunkPerIndex, Known
<1> QED
    BY <1>1, Inductive, PTL

(* Flushes that share the queue give a row up only after as many failed      *)
(* sends as the limit.                                                       *)
THEOREM DropsAreDue == Spec => []DroppedAfterAttempts
<1>1. IInv => DroppedAfterAttempts
    BY DEF IInv, QueueInv, DroppedIsSpent, DroppedAfterAttempts
<1> QED
    BY <1>1, Inductive, PTL

----------------------------------------------------------------------------
(* The main loop, which decides what is scanned *)

CONSTANTS LoopConnectors, LoopTexts, LoopRefused, LoopStatic, LoopStops
VARIABLES listed, up, connectors, lastConfig, due, remaining, stops

Loop == INSTANCE AgentLoop WITH
  ConnectorConfig <- LoopConnectors, Texts <- LoopTexts, Refused <- LoopRefused,
  Static <- LoopStatic, MaxStops <- LoopStops, todo <- remaining

(* The connectors of the config file are of the kind the platform lists, one *)
(* per id.                                                                   *)
StaticConfig == LoopStatic \subseteq LoopConnectors /\ Loop!OnePerId(LoopStatic) /\ LoopStops \in Nat

(* mergeConnectors names an id once, if both lists do.                       *)
LEMMA MergedOnce ==
    ASSUME NEW old, NEW answer, old \subseteq LoopConnectors, answer \subseteq LoopConnectors,
           Loop!OnePerId(old), Loop!OnePerId(answer)
    PROVE  /\ Loop!MergeConnectors(old, answer) \subseteq LoopConnectors
           /\ Loop!OnePerId(Loop!MergeConnectors(old, answer))
<1> DEFINE kept == {c \in old : \A d \in answer : d.id # c.id}
<1>1. Loop!MergeConnectors(old, answer) = answer \cup kept
    BY DEF Loop!MergeConnectors
<1>2. \A c \in kept : c \in old /\ \A d \in answer : d.id # c.id
    OBVIOUS
<1> HIDE DEF kept
<1>3. ASSUME NEW c \in answer \cup kept, NEW d \in answer \cup kept, c.id = d.id PROVE c = d
    BY <1>2, <1>3 DEF Loop!OnePerId
<1> QED
    BY <1>1, <1>2, <1>3 DEF Loop!OnePerId

(* A list that is fetched decodes and is of connectors, and so is one that   *)
(* was kept.                                                                 *)
LEMMA LoopStep ==
    ASSUME StaticConfig, Loop!TypeOK, Loop!Next
    PROVE  Loop!TypeOK'
<1> USE DEF Loop!TypeOK
<1>1. ASSUME NEW c \in LoopConnectors, Loop!Assign(c) PROVE Loop!TypeOK'
    <2>1. listed' \subseteq LoopConnectors /\ Loop!OnePerId(listed)'
        BY <1>1 DEF Loop!Assign, Loop!OnePerId
    <2> QED
        BY <1>1, <2>1 DEF Loop!Assign
<1>2. ASSUME NEW i \in Loop!Ids, Loop!Withdraw(i) PROVE Loop!TypeOK'
    <2>1. listed' \subseteq LoopConnectors /\ Loop!OnePerId(listed)'
        BY <1>2 DEF Loop!Withdraw, Loop!OnePerId
    <2> QED
        BY <1>2, <2>1 DEF Loop!Withdraw
<1>3. ASSUME NEW old, old \subseteq LoopConnectors, Loop!OnePerId(old),
             NEW a, a \subseteq LoopConnectors, Loop!OnePerId(a), Loop!Merge(old, a)
      PROVE  connectors' \subseteq LoopConnectors /\ Loop!OnePerId(connectors)'
    <2>1. connectors' = Loop!MergeConnectors(old, a)
        BY <1>3 DEF Loop!Merge
    <2>2. Loop!OnePerId(connectors)' <=> \A c, d \in connectors' : c.id = d.id => c = d
        BY DEF Loop!OnePerId
    <2>3. \A c, d \in Loop!MergeConnectors(old, a) : c.id = d.id => c = d
        BY <1>3, MergedOnce DEF Loop!OnePerId
    <2> QED
        BY <1>3, <2>1, <2>2, <2>3, MergedOnce
<1>4. ASSUME Loop!Fetched(listed)
      PROVE  \A a \in lastConfig' : a \subseteq LoopConnectors /\ Loop!Decodes(a) /\ Loop!OnePerId(a)
    BY <1>4 DEF Loop!Fetched
<1>5. ASSUME NEW answered \in BOOLEAN, Loop!Begin(answered) PROVE Loop!TypeOK'
    <2>1. CASE answered /\ Loop!Fetched(listed) /\ Loop!Merge(LoopStatic, listed)
        <3>1. connectors' \subseteq LoopConnectors /\ Loop!OnePerId(connectors)'
            BY <1>3, <2>1 DEF StaticConfig
        <3> QED
            BY <1>4, <1>5, <2>1, <3>1 DEF Loop!Begin, Loop!OnePerId
    <2>2. CASE connectors' = LoopStatic /\ UNCHANGED lastConfig
        BY <1>5, <2>2 DEF Loop!Begin, Loop!OnePerId, StaticConfig
    <2> QED
        BY <1>5, <2>1, <2>2 DEF Loop!Begin
<1>6. ASSUME NEW t \in {"config", "scan"}, Loop!Tick(t) PROVE Loop!TypeOK'
    BY <1>6 DEF Loop!Tick, Loop!OnePerId
<1>7. CASE Loop!Refresh
    <2>1. connectors' \subseteq LoopConnectors /\ Loop!OnePerId(connectors)'
        BY <1>3, <1>7 DEF Loop!Refresh
    <2> QED
        BY <1>4, <1>7, <2>1 DEF Loop!Refresh, Loop!Selecting, Loop!OnePerId
<1>8. CASE Loop!RefreshFails
    <2>1. connectors' \subseteq LoopConnectors /\ Loop!OnePerId(connectors)' /\ lastConfig' = lastConfig
        <3>1. CASE UNCHANGED <<connectors, lastConfig>>
            BY <3>1 DEF Loop!OnePerId
        <3>2. ASSUME NEW a \in lastConfig, Loop!Cached(a), Loop!Merge(connectors, a)
              PROVE  connectors' \subseteq LoopConnectors /\ Loop!OnePerId(connectors)' /\ lastConfig' = lastConfig
            BY <1>3, <3>2 DEF Loop!Cached
        <3> QED
            BY <1>8, <3>1, <3>2 DEF Loop!RefreshFails
    <2> QED
        BY <1>8, <2>1 DEF Loop!RefreshFails, Loop!Selecting, Loop!OnePerId
<1>9. CASE Loop!ScanAll \/ Loop!FirstScan
    BY <1>9 DEF Loop!ScanAll, Loop!FirstScan, Loop!Selecting, Loop!Scanners, Loop!OnePerId
<1>10. CASE Loop!Stop
    <2>1. /\ DOMAIN remaining' = Loop!Scanners
          /\ \A v \in Loop!Scanners : remaining'[v] \subseteq LoopConnectors
        BY <1>10 DEF Loop!Stop
    <2>2. stops' \in 0..LoopStops
        BY <1>10 DEF Loop!Stop, StaticConfig
    <2>3. /\ listed' \subseteq LoopConnectors /\ Loop!OnePerId(listed)'
          /\ connectors' \subseteq LoopConnectors /\ Loop!OnePerId(connectors)'
        BY <1>10 DEF Loop!Stop, Loop!OnePerId
    <2> QED
        BY <1>10, <2>1, <2>2, <2>3 DEF Loop!Stop
<1>11. ASSUME NEW w \in Loop!Scanners, NEW c \in LoopConnectors, Loop!Scan(w, c) PROVE Loop!TypeOK'
    <2>1. remaining' = [remaining EXCEPT ![w] = Loop!Rest(w, c)] /\ Loop!Rest(w, c) \subseteq remaining[w]
        BY <1>11 DEF Loop!Scan, Loop!Rest
    <2>2. DOMAIN remaining' = Loop!Scanners /\ \A v \in Loop!Scanners : remaining'[v] \subseteq LoopConnectors
        BY <2>1
    <2> QED
        BY <1>11, <2>2 DEF Loop!Scan, Loop!OnePerId
<1> QED
    BY <1>1, <1>2, <1>5, <1>6, <1>7, <1>8, <1>9, <1>10, <1>11 DEF Loop!Next

(* Whatever the platform lists, in whatever order fetches fail, are answered *)
(* from the cache, or do not decode, the agent configures a connector once   *)
(* (mergeConnectors, main.go): the settings it scans with are those of one   *)
(* source; and what it falls back to is an answer that decoded.              *)
THEOREM ConnectorsAreNamedOnce ==
    ASSUME StaticConfig
    PROVE  Loop!Spec => []Loop!TypeOK
<1>1. Loop!Init => Loop!TypeOK
    <2> SUFFICES ASSUME Loop!Init PROVE Loop!TypeOK
        OBVIOUS
    <2>1. DOMAIN remaining = Loop!Scanners /\ \A v \in Loop!Scanners : remaining[v] \subseteq LoopConnectors
        BY DEF Loop!Init, Loop!Start
    <2>2. Loop!OnePerId(listed) /\ Loop!OnePerId(connectors)
        BY DEF Loop!Init, Loop!Start, Loop!OnePerId
    <2>3. stops \in 0..LoopStops
        BY DEF Loop!Init, Loop!Start, StaticConfig
    <2> QED
        BY <2>1, <2>2, <2>3 DEF Loop!Init, Loop!Start, Loop!TypeOK
<1>2. Loop!TypeOK /\ UNCHANGED Loop!vars => Loop!TypeOK'
    BY DEF Loop!vars, Loop!TypeOK, Loop!OnePerId, Loop!Decodes, Loop!Scanners
<1> QED
    BY <1>1, <1>2, LoopStep, PTL DEF Loop!Spec
=============================================================================
