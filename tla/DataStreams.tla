----------------------------- MODULE DataStreams ------------------------------
(***************************************************************************)
(* Datasets streamed to training jobs: the choice of a source               *)
(* (streaming/router.py, fed by the heartbeat of api/scanner.py), the       *)
(* requests (api/stream.py) and the serializers (streaming/formats.py).     *)
(* Row i of a query's result is the number i.                               *)
(***************************************************************************)
EXTENDS Integers, FiniteSets, Sequences, SequencesExt, TLC

CONSTANTS Agents, Connectors, Regions,
          Latencies, Bandwidths,  \* of heartbeats; a bandwidth is log2(mbps + 1)
          Formats,                \* the members of FORMATS in play
          Results,                \* how many rows the query may return
          BatchSizes,             \* of requests and the serializers' own
          Limits,                 \* of requests
          RowCap                  \* 100_000 rows

Absent == [gone |-> TRUE]
AgentTopology == [region: Regions, latency: [Regions -> Latencies], bandwidth: Bandwidths,
                  is_online: BOOLEAN, indexed: SUBSET Connectors]
VARIABLES
  topology,  \* StreamRouter._topology
  stream     \* one response: what was taken of the rows, what was yielded
vars == <<topology, stream>>

-----------------------------------------------------------------------------
(* streaming/router.py.  Scores are compared by cross-multiplication.      *)
LatencyTo(a, region) == IF topology[a].region = region THEN 1 ELSE topology[a].latency[region]
Bonus(a) == IF topology[a].bandwidth < 1 THEN 1 ELSE topology[a].bandwidth
Better(a, b, region) == LatencyTo(a, region) * Bonus(b) < LatencyTo(b, region) * Bonus(a)
Viable(cs) == {a \in Agents : /\ topology[a] # Absent /\ topology[a].is_online
                              /\ cs # {} => cs \cap topology[a].indexed # {}}
\* The first of the sorted candidates; a tie goes to either, by dict order.
SelectThenExclude(cs, region, exclude) ==   \* Variant
  {a \in Viable(cs) : \A b \in Viable(cs) : ~Better(b, a, region)} \ exclude
SelectSource(cs, region, exclude) ==
  LET candidates == Viable(cs) \ exclude
  IN {a \in candidates : \A b \in candidates : ~Better(b, a, region)}
\* The orders ranked_sources may return.
RankedSources(cs, region) ==
  {s \in SetToSeqs(Viable(cs)) : \A i, j \in DOMAIN s : i < j => ~Better(s[j], s[i], region)}

\* list_sources shows whoever is online, of any tenant.
ListSources == {a \in Agents : topology[a] # Absent /\ topology[a].is_online}

\* heartbeat: the topology of the agent is replaced by what it reports, online,
\* and stays so: nobody calls mark_offline.
Heartbeat ==
  \E a \in Agents, x \in AgentTopology :
    /\ x.is_online
    /\ topology' = [topology EXCEPT ![a] = x]
    /\ UNCHANGED stream

-----------------------------------------------------------------------------
(* api/stream.py                                                           *)
Least(a, b) == IF a < b THEN a ELSE b
Open(format, size, rows) ==
  /\ stream = Absent
  /\ stream' = [format |-> format, size |-> size, rows |-> rows, next |-> 1, batch |-> <<>>,
                sink |-> <<>>, writer |-> FALSE, out |-> <<>>, done |-> FALSE]
  /\ UNCHANGED topology
\* `limit` of a saved query: -1 stands for all rows, and means the cap.  Its
\* batch_size is no parameter of stream_webdataset: that call raises.
StreamQuery ==
  \E format \in Formats \ {"webdataset"}, size \in BatchSizes, limit \in Limits, result \in Results :
    Open(format, size, Least(result, IF limit > 0 THEN limit ELSE RowCap))
\* An ad-hoc limit slices, rows[:-1] leaves the last row out, and the batch is the
\* serializer's own.
StreamAdhoc ==
  \E format \in Formats, size \in BatchSizes, limit \in Limits, result \in Results :
    Open(format, size, IF limit >= 0 THEN Least(result, limit)
                       ELSE IF result + limit < 0 THEN 0 ELSE result + limit)
HfParquetShard == \E size \in BatchSizes, result \in Results : Open("parquet", size, result)

-----------------------------------------------------------------------------
(* streaming/formats.py.  `out` is what was yielded, chunk by chunk; a      *)
(* chunk is the rows in it.                                                 *)
Yield(s, chunk) == [s EXCEPT !.out = Append(@, chunk)]
Batched(s) == [s EXCEPT !.batch = Append(@, s.next)]
Full(s) == Len(Batched(s).batch) >= s.size
TakeRow(s) ==
  CASE s.format \in {"jsonl", "csv"} -> Yield(s, <<s.next>>)
    [] s.format \in {"parquet", "webdataset"} ->
         IF Full(s) THEN Yield([s EXCEPT !.batch = <<>>], Batched(s).batch) ELSE Batched(s)
    [] s.format = "arrow" ->   \* through the sink, which is truncated after it was read
         IF Full(s) THEN Yield([s EXCEPT !.batch = <<>>, !.writer = TRUE], Batched(s).batch) ELSE Batched(s)
Row == /\ stream # Absent /\ stream.next <= stream.rows
       /\ stream' = [TakeRow(stream) EXCEPT !.next = @ + 1]
       /\ UNCHANGED topology

\* The last, partial batch.  Arrow writes it to the sink behind an open writer
\* and reads the sink, and reads all of it again after closing the writer.
Rest(s) ==
  CASE s.format \in {"jsonl", "csv"} -> s
    [] s.format = "parquet" -> IF s.batch = <<>> THEN s ELSE Yield(s, s.batch)
    [] s.format = "webdataset" -> Yield(s, s.batch)
    [] s.format = "arrow" /\ s.batch = <<>> -> IF s.writer THEN Yield(s, s.sink) ELSE s
    [] s.format = "arrow" /\ s.batch # <<>> ->
         IF s.writer THEN LET sunk == [s EXCEPT !.sink = s.batch]
                          IN Yield(Yield(sunk, sunk.sink), sunk.sink)
         ELSE Yield(s, s.batch)
Finish == /\ stream # Absent /\ ~stream.done /\ stream.next > stream.rows
          /\ stream' = [Rest(stream) EXCEPT !.done = TRUE]
          /\ UNCHANGED topology
\* The client has its response, or has gone; the process may have restarted.
Close == /\ stream # Absent /\ stream' = Absent
         /\ UNCHANGED topology
Restart == /\ topology' = [a \in Agents |-> Absent] /\ stream' = Absent

Init == topology = [a \in Agents |-> Absent] /\ stream = Absent
Next == Heartbeat \/ StreamQuery \/ StreamAdhoc \/ HfParquetShard \/ Row \/ Finish \/ Close \/ Restart
Spec == Init /\ [][Next]_vars

-----------------------------------------------------------------------------
\* A response that ended holds every row that was asked for, once and in order,
\* whatever the batch size and the number of rows (formats.py:11, :35-45), and
\* none of its chunks is longer than a batch ("O(batch_size)", formats.py:12).
\* Only Arrow's may end in a second copy of less than one batch.
Asked == [i \in 1..stream.rows |-> i]
StreamedOnce ==
  stream # Absent =>
    /\ stream.done => LET sent == FlattenSeq(stream.out) IN
         /\ IsPrefix(Asked, sent)
         /\ Len(sent) < stream.rows + (IF stream.format = "arrow" THEN stream.size ELSE 1)
    /\ \A i \in DOMAIN stream.out : Len(stream.out[i]) <= stream.size

\* Going down the fallback chain of ranked_sources is what select_source does
\* when the agents tried so far are excluded (router.py:107, :141), and the chain
\* for no connector in particular ends with no source of list_sources untried.
FallbackChain ==
  \A cs \in SUBSET Connectors, region \in Regions : \A s \in RankedSources(cs, region) :
    /\ \A i \in DOMAIN s : s[i] \in SelectSource(cs, region, {s[j] : j \in 1..i - 1})
    /\ cs = {} => ToSet(s) = ListSources
RoutedAndStreamed == FallbackChain /\ StreamedOnce
=============================================================================
