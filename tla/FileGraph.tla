----------------------------- MODULE FileGraph -----------------------------
(***************************************************************************)
(* What a scanner's sync request does to the graph: api/scanner.py         *)
(* (sync_delta), graph/dedup.py, the graph client and the tenant backends. *)
(* A request is several transactions, any of which may fail or be the last *)
(* one before the process dies; the scanner sends a chunk again whenever it *)
(* got no answer.  A statement of a database (external) is one step and     *)
(* either commits or raises.                                               *)
(*                                                                         *)
(* The File rows of a chunk go to the database of the shared client, the    *)
(* platform's NEO4J_URI, and its other nodes and edges to the database the   *)
(* tenant's own configuration names, which may be another one.              *)
(***************************************************************************)
EXTENDS Integers, Sequences, FiniteSets, SequencesExt

CONSTANTS Tenants, Agents, TenantOf,
          Backend,                     \* tenant -> "neo4j", or "neptune" with IAM
          Database,                    \* tenant -> the database of its backend
          Platform,                    \* the database of the shared client
          Contents,                    \* what files hold, sha256 known
          Paths, Dirs, Handlers,
          MaxFiles                     \* bound: File nodes

VARIABLES file,   \* the File nodes, with the properties a MERGE can match on
          node,   \* the other nodes: <<database, tenant, id>>
          edge,   \* relationships: <<database, tenant, from, to>>
          flight, \* sync requests, handler -> Idle or what it has reached
          clean   \* history: [tenant, chunk] answered with no errors
vars == <<file, node, edge, flight, clean>>

NoId == <<"noId">>
Idle == [step |-> "idle"]

\* make_node_id: the hash when the scanner sent one, else the connector's path.
Hashless == <<"noHash">>
NodeId(f) == IF f.content # Hashless THEN <<"sha256", f.content>>
             ELSE <<"path", f.path>>
FileRow == [content : Contents \cup {Hashless}, path : Paths]
\* Nodes before edges, each an upsert or a delete.
Node(d) == [kind |-> "node", id |-> d]
Edge(a, b) == [kind |-> "edge", from |-> a, to |-> b]
Op(o, x) == [op |-> o, what |-> x]
\* to_node/to_parent_edge: what a scanner sends of one file in one directory;
\* the edge's ends carry the scanner's own identifiers.
Chunk(f, d) ==
  [files |-> <<Op("upsert", f)>>,
   rest  |-> <<Op("upsert", Node(d)), Op("upsert", Edge(<<"scanner", f.path>>, d)),
               Op("upsert", Edge(d, d))>>]
Removal(d) == [files |-> <<>>, rest |-> <<Op("delete", Node(d))>>]
FileRemoval(f) == [files |-> <<Op("delete", f)>>, rest |-> <<>>]
Chunks == {Chunk(f, d) : f \in FileRow, d \in Dirs} \cup {Removal(d) : d \in Dirs}
          \cup {FileRemoval(f) : f \in FileRow}

\* One row of bulk_upsert_query: MERGE on (id, tenant_id); ON CREATE replaces
\* every property by the row's, which has node_id and no id.  All go to Platform.
UpsertFile(g, t, a, f) ==
  LET Same(i) == g[i].id = NodeId(f) /\ g[i].tenant = t
  IN IF \E i \in 1..Len(g) : Same(i)
     THEN [i \in 1..Len(g) |->
             IF Same(i) THEN [g[i] EXCEPT !.paths = @ \cup {f.path}, !.agents = @ \cup {a}]
             ELSE g[i]]
     ELSE Append(g, [at |-> Platform, id |-> NoId, node_id |-> NodeId(f), tenant |-> t,
                     paths |-> {f.path}, agents |-> {a}])
\* A row of a File node, whatever its op is: a delete is merged as well.
UpsertFiles(g, t, a, fs) == FoldLeft(LAMBDA acc, x : UpsertFile(acc, t, a, x.what), g, fs)
\* MATCH (a {id, tenant_id}) over every label of the tenant's database.
Matched(t, id) ==
  \/ <<Database[t], t, id>> \in node
  \/ \E i \in 1..Len(file) : file[i].at = Database[t] /\ file[i].id = id /\ file[i].tenant = t

Go(h, r) == flight' = [flight EXCEPT ![h] = r]

\* The request's scanner is the key's; its tenant must be the claimed one, else
\* 403 and nothing is done.
Accepts(a, t) == TenantOf[a] = t
Arrive(h) ==
  \E a \in Agents, t \in Tenants, c \in Chunks :
    /\ flight[h] = Idle /\ Accepts(a, t)
    /\ Len(file) + Cardinality({i \in Handlers : flight[i] # Idle}) < MaxFiles
    /\ Go(h, [step |-> "files", agent |-> a, tenant |-> t, chunk |-> c,
              todo |-> c.rest, merged |-> 0, errors |-> 0])
    /\ UNCHANGED <<file, node, edge, clean>>

\* The File rows go in one statement of the shared client; a failure of it is
\* counted and the request goes on.
MergeFiles(h) ==
  LET r == flight[h] IN
  /\ r.step = "files" /\ UNCHANGED <<node, edge, clean>>
  /\ \/ /\ file' = UpsertFiles(file, r.tenant, r.agent, r.chunk.files)
        /\ Go(h, [r EXCEPT !.step = "connect", !.merged = Len(r.chunk.files)])
     \/ /\ r.chunk.files # <<>> /\ file' = file
        /\ Go(h, [r EXCEPT !.step = "connect", !.errors = Len(r.chunk.files)])

\* Whether connect() returns: it may raise, and Neptune's IAM login always does,
\* having no boto3 to import and only a placeholder for the signed token.
Connects(kind) == IF kind = "neptune" THEN {FALSE} ELSE BOOLEAN
\* "async with backend": the tenant's own database, or an exception: a 500 with
\* the files already merged.
Connect(h) ==
  /\ flight[h].step = "connect" /\ UNCHANGED <<file, node, edge, clean>>
  /\ \E connected \in Connects(Backend[flight[h].tenant]) :
       Go(h, IF connected THEN [flight[h] EXCEPT !.step = "rest"] ELSE Idle)

FailedUncounted(r) == [r EXCEPT !.todo = Tail(@)]   \* Variant
\* What one failed statement adds to the answer's errors.
Failed(r) == [r EXCEPT !.todo = Tail(@), !.errors = @ + 1]
\* MERGE of a node on (id, tenant); of an edge between the ends that MATCH, which
\* creates nothing when they are not both there, and is counted all the same.
UpsertNode(t, w) == node' = node \cup {<<Database[t], t, w.id>>} /\ edge' = edge
UpsertRel(t, w) ==
  /\ node' = node
  /\ edge' = IF Matched(t, w.from) /\ Matched(t, w.to)
             THEN edge \cup {<<Database[t], t, w.from, w.to>>} ELSE edge
\* One node or edge.  A delete is skipped.
Statement(h) ==
  LET r == flight[h]
      x == Head(r.todo)
      w == x.what
  IN /\ r.step = "rest" /\ r.todo # <<>> /\ UNCHANGED <<file, clean>>
     /\ \/ /\ x.op = "delete" /\ Go(h, [r EXCEPT !.todo = Tail(@)])
           /\ UNCHANGED <<node, edge>>
        \/ /\ x.op = "upsert" /\ Go(h, [r EXCEPT !.todo = Tail(@), !.merged = @ + 1])
           /\ IF w.kind = "node" THEN UpsertNode(r.tenant, w) ELSE UpsertRel(r.tenant, w)
        \/ /\ x.op = "upsert" /\ Go(h, Failed(r)) /\ UNCHANGED <<node, edge>>

Answer(h) ==
  LET r == flight[h] IN
  /\ r.step = "rest" /\ r.todo = <<>> /\ Go(h, Idle)
  /\ clean' = IF r.errors = 0 THEN clean \cup {[tenant |-> r.tenant, chunk |-> r.chunk]}
               ELSE clean
  /\ UNCHANGED <<file, node, edge>>

\* The process dies; the scanner gets no answer.
Crash ==
  /\ \E h \in Handlers : flight[h] # Idle
  /\ flight' = [h \in Handlers |-> Idle] /\ UNCHANGED <<file, node, edge, clean>>

Init == /\ file = <<>> /\ node = {} /\ edge = {} /\ clean = {}
        /\ flight = [h \in Handlers |-> Idle]
Next == Crash \/ \E h \in Handlers :
          Arrive(h) \/ MergeFiles(h) \/ Connect(h) \/ Statement(h) \/ Answer(h)
Spec == Init /\ [][Next]_vars

-----------------------------------------------------------------------------
\* sync_delta answers "accepted" whatever failed (scanner.py:268), so the error
\* count is all the scanner has: of a chunk answered with none, the nodes are in the
\* database of its tenant and the files, as nodes of that tenant, in the platform's,
\* also when requests overlap, fail half way and are sent again.  Where the two
\* databases differ the files are not in the tenant's own.
CleanAnswerIsStored ==
  \A answer \in clean :
    /\ \A x \in ToSet(answer.chunk.files) : \E i \in 1..Len(file) :
         /\ file[i].at = Platform /\ file[i].tenant = answer.tenant
         /\ file[i].node_id = NodeId(x.what)
         /\ x.what.path \in file[i].paths
    /\ \A x \in ToSet(answer.chunk.rest) :
         x.op = "upsert" /\ x.what.kind = "node" =>
            <<Database[answer.tenant], answer.tenant, x.what.id>> \in node
=============================================================================
