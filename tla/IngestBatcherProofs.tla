------------------------ MODULE IngestBatcherProofs -------------------------
(* Theorems about IngestBatcher for any number of requests and tenants, any  *)
(* sizes of a request and of a batch.                                        *)
EXTENDS IngestBatcher, TLAPS

(* No record is in the batch twice.                                          *)
Apart(batch) == \A i, j \in DOMAIN batch : batch[i] = batch[j] => i = j

(* The records handed on so far, told apart by where they are.  Handled is   *)
(* this of the buffer; a batch on its way to the database has it too.        *)
Tracked(batch, done, upto) ==
    /\ \A r \in Requests : {it \in Records(r) : it[2] < upto[r]} =
                           {it \in Items(batch) \cup done : it[1] = r}
    /\ done \cap Items(batch) = {}
    /\ Apart(batch)

(* A request has an answer as soon as one of its records went through a      *)
(* flush, and a good one only if that flush took its first record and wrote  *)
(* all its batch.                                                            *)
AnsweredByFirst ==
    \A r \in Requests :
        /\ (\E it \in enriched : it[1] = r) <=> answer[r] # "none"
        /\ answer[r] = "ok" =>
              \E whole \in flushed : <<r, 1>> \in whole /\ whole \subseteq written

(* The inductive invariant.  AcceptedBatchWritten follows from the answer    *)
(* only, and that the answer speaks for the first record follows from        *)
(* Handled: what of a request is not in the buffer has had its answer.       *)
IInv == TypeOK /\ Handled /\ AnsweredByFirst /\ AcceptedBatchWritten

----------------------------------------------------------------------------
(* Lemmas *)

(* The items of a batch are requests' records.                               *)
LEMMA ItemsType ==
    ASSUME NEW S, NEW batch \in Seq(S)
    PROVE  Items(batch) \subseteq S
BY DEF Items

(* Appending a record adds it to the items, and keeps them apart when it is  *)
(* new.                                                                      *)
LEMMA ItemsAppend ==
    ASSUME NEW S, NEW batch \in Seq(S), NEW it \in S
    PROVE  /\ Append(batch, it) \in Seq(S)
           /\ Items(Append(batch, it)) = Items(batch) \cup {it}
           /\ it \notin Items(batch) /\ Apart(batch) => Apart(Append(batch, it))
<1> DEFINE more == Append(batch, it)
<1>1. /\ more \in Seq(S) /\ Len(batch) \in Nat /\ Len(more) = Len(batch) + 1
      /\ DOMAIN more = 1 .. Len(batch) + 1 /\ DOMAIN batch = 1 .. Len(batch)
      /\ \A i \in 1 .. Len(batch) : more[i] = batch[i]
      /\ more[Len(batch) + 1] = it
    OBVIOUS
<1>2. Items(more) = Items(batch) \cup {it}
    BY <1>1 DEF Items
<1>3. ASSUME it \notin Items(batch), Apart(batch),
             NEW i \in DOMAIN more, NEW j \in DOMAIN more, more[i] = more[j]
      PROVE  i = j
    <2>1. \A k \in 1 .. Len(batch) : more[k] # it
        BY <1>1, <1>3 DEF Items
    <2>2. i \in 1 .. Len(batch) <=> j \in 1 .. Len(batch)
        BY <1>1, <1>3, <2>1
    <2> QED
        BY <1>1, <1>3, <2>2 DEF Apart
<1> QED
    BY <1>1, <1>2, <1>3 DEF Apart

(* Nothing is handed on, answered or accepted at the start.                  *)
LEMMA InitIInv == Init => IInv
<1> SUFFICES ASSUME Init PROVE IInv
    OBVIOUS
<1>1. MaxFiles \in Nat \ {0} /\ BatchSize \in Nat \ {0}
    BY IngestAssumption
<1>2. TypeOK
    <2>1. \A r \in Requests : size[r] \in 1 .. MaxFiles
        BY DEF Init
    <2> QED
        BY <1>1, <2>1 DEF Init, TypeOK
<1>3. Items(pending) = {}
    BY DEF Init, Items
<1>4. Handled
    BY <1>1, <1>2, <1>3 DEF Init, Handled, TypeOK, Records, enriched
<1>5. AnsweredByFirst /\ AcceptedBatchWritten
    BY DEF Init, AnsweredByFirst, AcceptedBatchWritten, enriched
<1> QED
    BY <1>2, <1>4, <1>5 DEF IInv

(* A flush moves what it takes from the buffer to the enrichment queue, and  *)
(* an error of one tenant reaches every request of the batch.                *)
LEMMA FlushKeeps ==
    ASSUME IInv, NEW upto \in [Requests -> Nat], NEW failing,
           NEW batch \in Seq(Requests \X (1 .. MaxFiles)),
           \A r \in Requests : upto[r] <= size[r] + 1,
           Tracked(batch, enriched, upto),
           Flush(batch, failing)
    PROVE  /\ Tracked(pending', enriched', upto)
           /\ pending' = <<>> /\ Len(pending') < BatchSize
           /\ flushed \subseteq flushed'
           /\ flushed' \subseteq SUBSET (Requests \X (1 .. MaxFiles))
           /\ written \subseteq written'
           /\ written' \subseteq Requests \X (1 .. MaxFiles)
           /\ answer' \in [Requests -> {"none", "ok", "failed"}]
           /\ AnsweredByFirst'
<1>1. BatchSize \in Nat \ {0} /\ MaxFiles \in Nat \ {0}
    BY IngestAssumption
<1>2. /\ pending' = <<>> /\ Items(pending') = {} /\ Len(pending') = 0
      /\ flushed' = flushed \cup {Items(batch)}
      /\ written' = written \cup {it \in Items(batch) : tenant[it[1]] \notin failing}
      /\ Items(batch) \subseteq Requests \X (1 .. MaxFiles)
    BY ItemsType DEF Flush, Items
<1>9. enriched' = enriched \cup Items(batch)
    BY <1>2, Zenon DEF enriched
<1>3. Tracked(pending', enriched', upto)
    BY <1>2, <1>9 DEF Tracked, Apart
<1>4. answer' \in [Requests -> {"none", "ok", "failed"}]
    BY DEF Flush, Answer, IInv, TypeOK
<1>5. ASSUME NEW r \in Requests
      PROVE  /\ (\E it \in enriched' : it[1] = r) <=> answer'[r] # "none"
             /\ answer'[r] = "ok" =>
                   \E whole \in flushed' : <<r, 1>> \in whole /\ whole \subseteq written'
    <2>1. answer'[r] = IF answer[r] = "none" /\ \E it \in Items(batch) : it[1] = r
                       THEN IF failing = {} THEN "ok" ELSE "failed"
                       ELSE answer[r]
        BY DEF Flush, Answer
    <2>2. (\E it \in enriched' : it[1] = r) <=> answer'[r] # "none"
        BY <1>2, <1>9, <2>1 DEF IInv, AnsweredByFirst
    <2>3. CASE answer[r] = "none" /\ failing = {} /\ \E it \in Items(batch) : it[1] = r
        <3>1. PICK it \in Items(batch) : it[1] = r
            BY <2>3
        <3>2. it \in Records(r) /\ it[2] < upto[r] /\ it[2] \in 1 .. MaxFiles
            BY <1>2, <3>1 DEF Tracked
        <3>3. upto[r] > 1 /\ size[r] \in 1 .. MaxFiles
            BY <1>1, <3>2 DEF IInv, TypeOK
        <3>4. <<r, 1>> \in Records(r) /\ <<r, 1>>[2] < upto[r]
            BY <1>1, <3>3 DEF Records
        <3>5. <<r, 1>> \in Items(batch) \cup enriched
            BY <3>4 DEF Tracked
        <3>6. <<r, 1>> \notin enriched
            BY <2>3 DEF IInv, AnsweredByFirst
        <3>7. <<r, 1>> \in Items(batch) /\ Items(batch) \subseteq written'
            BY <1>2, <2>3, <3>5, <3>6
        <3>8. Items(batch) \in flushed'
            BY <1>2
        <3> QED
            BY <2>2, <3>7, <3>8
    <2>4. CASE ~(answer[r] = "none" /\ failing = {} /\ \E it \in Items(batch) : it[1] = r)
        BY <1>2, <2>1, <2>2, <2>4 DEF IInv, AnsweredByFirst
    <2> QED
        BY <2>3, <2>4
<1>6. AnsweredByFirst'
    BY <1>5 DEF AnsweredByFirst
<1>7. /\ flushed \subseteq flushed'
      /\ flushed' \subseteq SUBSET (Requests \X (1 .. MaxFiles))
      /\ written \subseteq written'
      /\ written' \subseteq Requests \X (1 .. MaxFiles)
    <2>1. /\ flushed \subseteq SUBSET (Requests \X (1 .. MaxFiles))
          /\ written \subseteq Requests \X (1 .. MaxFiles)
        BY DEF IInv, TypeOK
    <2>2. flushed \subseteq flushed' /\ flushed' \subseteq SUBSET (Requests \X (1 .. MaxFiles))
        BY <1>2, <2>1
    <2>3. written \subseteq written' /\ written' \subseteq Requests \X (1 .. MaxFiles)
        BY <1>2, <2>1, Zenon
    <2> QED
        BY <2>2, <2>3
<1>8. pending' = <<>> /\ Len(pending') < BatchSize
    BY <1>1, <1>2
<1> QED
    BY <1>3, <1>4, <1>6, <1>7, <1>8

----------------------------------------------------------------------------
(* Every action preserves the invariant *)

(* The steps of the handlers that do not touch the buffer, and those of the  *)
(* server, change neither records nor answers.                               *)
LEMMA QuietStep ==
    ASSUME IInv,
           \/ \E r \in Requests : Arrive(r) \/ Lock(r) \/ Unlock(r) \/ Respond(r)
           \/ Terminate \/ Exit \/ Crash
           \/ UNCHANGED vars
    PROVE  IInv'
<1>1. UNCHANGED <<tenant, size, next, pending, answer, written, flushed>>
    BY DEF Arrive, Lock, Unlock, Respond, Terminate, Exit, Crash, vars
<1>2. /\ handler' \in [Requests -> {"new", "arrived", "submitting", "waiting", "accepted", "failed"}]
      /\ mutex' \in Requests \cup {Free}
      /\ server' \in {"up", "draining", "exited"}
    BY DEF IInv, TypeOK, Arrive, Lock, Unlock, Respond, Terminate, Exit, Crash, vars
<1>3. TypeOK'
    BY <1>1, <1>2 DEF IInv, TypeOK
<1>4. Handled' /\ AnsweredByFirst'
    BY <1>1 DEF IInv, Handled, AnsweredByFirst, Records, Items, enriched
<1>5. ASSUME NEW q \in Requests, handler'[q] = "accepted"
      PROVE  handler[q] = "accepted" \/ answer[q] = "ok"
    BY <1>5 DEF IInv, TypeOK, Arrive, Lock, Unlock, Respond, Terminate, Exit, Crash, vars
<1>6. AcceptedBatchWritten'
    BY <1>1, <1>5 DEF IInv, AnsweredByFirst, AcceptedBatchWritten
<1> QED
    BY <1>3, <1>4, <1>6 DEF IInv

(* An appended record is new, and either waits or goes through the flush it  *)
(* fills up.                                                                 *)
LEMMA AppendStep ==
    ASSUME IInv, NEW r \in Requests, AppendRecord(r)
    PROVE  IInv'
<1> DEFINE it == <<r, next[r]>>
           buffer == Append(pending, it)
<1>1. /\ MaxFiles \in Nat \ {0} /\ BatchSize \in Nat \ {0}
      /\ next[r] \in 1 .. size[r] /\ size[r] \in 1 .. MaxFiles
      /\ next' = [next EXCEPT ![r] = next[r] + 1]
      /\ UNCHANGED <<tenant, size, handler, mutex, server>>
    BY IngestAssumption DEF IInv, TypeOK, AppendRecord
<1>2. it \in Requests \X (1 .. MaxFiles) /\ it \in Records(r)
    BY <1>1 DEF Records
<1>3. it \notin Items(pending) \cup enriched
    <2>1. ~(it[2] < next[r])
        BY <1>1
    <2> QED
        BY <2>1 DEF IInv, Handled
<1>4. /\ buffer \in Seq(Requests \X (1 .. MaxFiles))
      /\ Items(buffer) = Items(pending) \cup {it}
      /\ Apart(buffer)
    <2>1. pending \in Seq(Requests \X (1 .. MaxFiles))
        BY DEF IInv, TypeOK
    <2>2. it \notin Items(pending) /\ Apart(pending)
        BY <1>3 DEF IInv, Handled, Apart
    <2> QED
        BY <1>2, <2>1, <2>2, ItemsAppend
<1>5. /\ next' \in [Requests -> 1 .. MaxFiles + 1]
      /\ next' \in [Requests -> Nat]
      /\ \A q \in Requests : next'[q] <= size[q] + 1
    BY <1>1 DEF IInv, TypeOK
<1>6. Tracked(buffer, enriched, next')
    <2>1. ASSUME NEW q \in Requests
          PROVE  {rec \in Records(q) : rec[2] < next'[q]} =
                 {rec \in Items(buffer) \cup enriched : rec[1] = q}
        <3>1. {rec \in Records(q) : rec[2] < next[q]} =
              {rec \in Items(pending) \cup enriched : rec[1] = q}
            BY DEF IInv, Handled
        <3>2. CASE q # r
            <4>1. next'[q] = next[q] /\ it[1] # q
                BY <1>1, <3>2 DEF IInv, TypeOK
            <4>2. {rec \in Items(buffer) \cup enriched : rec[1] = q} =
                  {rec \in Items(pending) \cup enriched : rec[1] = q}
                BY <1>4, <4>1
            <4> QED
                BY <3>1, <4>1, <4>2
        <3>3. CASE q = r
            <4>1. \A rec \in Records(r) : rec = <<r, rec[2]>> /\ rec[2] \in 1 .. size[r]
                BY DEF Records
            <4>2. \A rec \in Records(r) : rec[2] < next'[r] <=> rec[2] < next[r] \/ rec = it
                BY <1>1, <4>1 DEF IInv, TypeOK
            <4> QED
                <5>1. it[1] = r
                    OBVIOUS
                <5>2. {rec \in Records(r) : rec[2] < next'[r]} =
                      {rec \in Records(r) : rec[2] < next[r]} \cup {it}
                    BY <1>2, <4>2
                <5>3. {rec \in Items(buffer) \cup enriched : rec[1] = r} =
                      {rec \in Items(pending) \cup enriched : rec[1] = r} \cup {it}
                    BY <1>4, <5>1
                <5> QED
                    BY <3>1, <3>3, <5>2, <5>3
        <3> QED
            BY <3>2, <3>3
    <2> QED
        BY <1>3, <1>4, <2>1 DEF Tracked, IInv, Handled
<1>7. CASE Len(buffer) >= BatchSize
    <2>1. PICK failing : Flush(buffer, failing)
        BY <1>7 DEF AppendRecord
    <2>2. /\ Tracked(pending', enriched', next')
          /\ pending' = <<>> /\ Len(pending') < BatchSize
          /\ flushed \subseteq flushed'
          /\ flushed' \subseteq SUBSET (Requests \X (1 .. MaxFiles))
          /\ written \subseteq written'
          /\ written' \subseteq Requests \X (1 .. MaxFiles)
          /\ answer' \in [Requests -> {"none", "ok", "failed"}]
          /\ AnsweredByFirst'
        BY <1>4, <1>5, <1>6, <2>1, FlushKeeps
    <2>3. TypeOK'
        <3>1. pending' \in Seq(Requests \X (1 .. MaxFiles))
            BY <2>2
        <3> QED
            BY <1>1, <1>5, <2>2, <3>1 DEF IInv, TypeOK
    <2>4. Handled'
        BY <1>1, <2>2 DEF Tracked, Apart, Handled, Records, Items
    <2>5. AcceptedBatchWritten'
        BY <1>1, <2>2 DEF IInv, AcceptedBatchWritten
    <2> QED
        BY <2>2, <2>3, <2>4, <2>5 DEF IInv
<1>8. CASE ~(Len(buffer) >= BatchSize)
    <2>1. pending' = buffer /\ UNCHANGED <<answer, written, flushed>>
        BY <1>8 DEF AppendRecord
    <2>2. Len(buffer) \in Nat
        BY <1>4
    <2>3. TypeOK'
        <3>1. pending' \in Seq(Requests \X (1 .. MaxFiles)) /\ Len(pending') < BatchSize
            BY <1>1, <1>4, <1>8, <2>1, <2>2
        <3> QED
            BY <1>1, <1>5, <2>1, <3>1 DEF IInv, TypeOK
    <2>4. Handled'
        <3>1. Items(pending)' = Items(buffer)
            BY <2>1 DEF Items
        <3>2. \A q \in Requests : Records(q)' = Records(q)
            BY <1>1 DEF Records
        <3> QED
            BY <1>6, <2>1, <3>1, <3>2 DEF Tracked, Apart, Handled, enriched
    <2>5. AnsweredByFirst' /\ AcceptedBatchWritten'
        BY <1>1, <2>1 DEF IInv, AnsweredByFirst, AcceptedBatchWritten, enriched
    <2> QED
        BY <2>3, <2>4, <2>5 DEF IInv
<1> QED
    BY <1>7, <1>8

(* The ticker writes what waits in the buffer.                               *)
LEMMA TickStep == IInv /\ Tick => IInv'
<1> SUFFICES ASSUME IInv, Tick PROVE IInv'
    OBVIOUS
<1>1. UNCHANGED <<tenant, size, handler, next, mutex, server>>
    BY DEF Tick
<1>2. /\ next \in [Requests -> Nat] /\ \A r \in Requests : next[r] <= size[r] + 1
      /\ pending \in Seq(Requests \X (1 .. MaxFiles))
    BY IngestAssumption DEF IInv, TypeOK
<1>3. Tracked(pending, enriched, next)
    BY DEF IInv, Handled, Tracked, Apart
<1>4. PICK failing : Flush(pending, failing)
    BY DEF Tick
<1>5. /\ Tracked(pending', enriched', next)
      /\ pending' = <<>> /\ Len(pending') < BatchSize
      /\ flushed \subseteq flushed'
      /\ flushed' \subseteq SUBSET (Requests \X (1 .. MaxFiles))
      /\ written \subseteq written'
      /\ written' \subseteq Requests \X (1 .. MaxFiles)
      /\ answer' \in [Requests -> {"none", "ok", "failed"}]
      /\ AnsweredByFirst'
    BY <1>2, <1>3, <1>4, FlushKeeps
<1>6. TypeOK'
    BY <1>1, <1>5 DEF IInv, TypeOK
<1>7. Handled'
    BY <1>1, <1>5 DEF Tracked, Apart, Handled, Records, Items
<1>8. AcceptedBatchWritten'
    BY <1>1, <1>5 DEF IInv, AcceptedBatchWritten
<1> QED
    BY <1>5, <1>6, <1>7, <1>8 DEF IInv

(* The invariant is inductive.                                               *)
LEMMA StepIInv == IInv /\ [Next]_vars => IInv'
<1> SUFFICES ASSUME IInv, [Next]_vars PROVE IInv'
    OBVIOUS
<1>1. CASE \E r \in Requests : Arrive(r) \/ Lock(r) \/ Unlock(r) \/ Respond(r)
    BY <1>1, QuietStep
<1>2. CASE \E r \in Requests : AppendRecord(r)
    BY <1>2, AppendStep
<1>3. CASE Tick
    BY <1>3, TickStep
<1>4. CASE Terminate \/ Exit \/ Crash \/ UNCHANGED vars
    BY <1>4, QuietStep
<1> QED
    BY <1>1, <1>2, <1>3, <1>4 DEF Next

(* IInv holds in every reachable state.                                      *)
LEMMA Inductive == Spec => []IInv
BY InitIInv, StepIInv, PTL DEF Spec

----------------------------------------------------------------------------
(* Theorems *)

(* Every variable keeps its type, and the buffer stays below a full batch:   *)
(* the request that fills it writes it before it lets go of the mutex.       *)
THEOREM TypeCorrect == Spec => []TypeOK
<1>1. IInv => TypeOK
    BY DEF IInv
<1> QED
    BY <1>1, Inductive, PTL

(* What Submit has appended is in the buffer once or has gone through one    *)
(* flush, whatever requests share the batch, fail, drain or die.             *)
THEOREM RecordsAreHandled == Spec => []Handled
<1>1. IInv => Handled
    BY DEF IInv
<1> QED
    BY <1>1, Inductive, PTL

(* A request that was told "accepted" had its first record in a batch that   *)
(* Neo4j has whole, the records of other requests and tenants too.           *)
THEOREM AcceptedIsWritten == Spec => []AcceptedBatchWritten
<1>1. IInv => AcceptedBatchWritten
    BY DEF IInv
<1> QED
    BY <1>1, Inductive, PTL
=============================================================================
