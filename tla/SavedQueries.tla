---------------------------- MODULE SavedQueries -----------------------------
(***************************************************************************)
(* The team's library of queries, their runs and exports (api/queries.py    *)
(* over saved_queries and query_exports).                                   *)
(*                                                                         *)
(* A request reads its query (Arrive) and commits later; a run writes its   *)
(* count in between, under the row's lock, and asks the graph holding it.   *)
(* A background task starts once the response was sent.                     *)
(***************************************************************************)
EXTENDS Naturals, FiniteSets

CONSTANTS Users, Admins,  \* of one tenant
          Ids, Names, ExportIds, Handlers,
          MaxRuns         \* bound: committed runs of a query

Absent == [gone |-> TRUE]
SavedQuery == [owner: Users, name: Names, is_public: BOOLEAN, export_format: BOOLEAN, run_count: Nat]
QueryExport == [query: Ids, status: {"pending", "running", "complete", "error"}]

VARIABLES
  query, export,
  tasks,   \* background tasks not started: the export each is for, or None
  files,   \* exports whose file was written
  flight,  \* per handler, the request and the query it read
  runs,    \* history: of each query, the runs answered with rows, and those among
           \*   them that no other run of it overlapped
  alone    \* history: handlers of a run that no other run of its query overlaps
vars == <<query, export, tasks, files, flight, runs, alone>>
Rows(t) == {i \in DOMAIN t : t[i] # Absent}

Idle == [op |-> "idle"]
NoRuns == [answered |-> 0, alone |-> 0]
Requests ==
       [op: {"save"}, user: Users, name: Names, is_public: BOOLEAN, export_format: BOOLEAN]
  \cup [op: {"rename"}, user: Users, id: Ids, name: Names]
  \cup [op: {"share"}, user: Users, id: Ids, is_public: BOOLEAN]
  \cup [op: {"format", "delete", "export"}, user: Users, id: Ids]
  \cup [op: {"run"}, user: Users, id: Ids, export: BOOLEAN]

\* _get_query_or_404: by id, any query of the tenant; with require_owner, one
\* that is the caller's, unless the caller is an admin.
OwnerOnly == {"rename", "share", "format", "delete"}
Reaches(q) == /\ query[q.id] # Absent
              /\ q.op \in OwnerOnly => query[q.id].owner = q.user \/ q.user \in Admins
\* list_queries, which leaves out what only an id reaches, and list_exports.
ListQueries(u) == {i \in Rows(query) : query[i].is_public \/ query[i].owner = u}
ListExports(i) == {e \in Rows(export) : export[e].query = i}

Read(q, row) == [op |-> q.op, q |-> q, row |-> row]
Runs(i) == {g \in Handlers : flight[g].op \in {"run", "counted"} /\ flight[g].q.id = i}
Arrive(h, q) ==
  /\ flight[h] = Idle
  /\ \/ /\ q.op = "save"   \* the name is looked up first
        /\ \A i \in Rows(query) : query[i].name # q.name
        /\ flight' = [flight EXCEPT ![h] = Read(q, Absent)]
     \/ /\ q.op # "save" /\ Reaches(q)
        /\ flight' = [flight EXCEPT ![h] = Read(q, query[q.id])]
  /\ alone' = IF q.op # "run" THEN alone
              ELSE IF Runs(q.id) = {} THEN alone \cup {h} ELSE alone \ Runs(q.id)
  /\ UNCHANGED <<query, export, tasks, files, runs>>

\* The row of a counted run is locked until the run commits: who writes it waits.
Locked(i) == \E g \in Handlers : flight[g].op = "counted" /\ flight[g].q.id = i
Waits(f) == f.op \in OwnerOnly \cup {"run"} /\ Locked(f.q.id)

\* uq_tenant_query_name; an UPDATE needs its row, an export its query.  Ids are
\* uuids: that of a deleted query is not given again while a request has it.
NameFree(id, name) == \A i \in Rows(query) \ {id} : query[i].name # name
Free(t) == DOMAIN t \ Rows(t)
FreeIds == {i \in Free(query) : \A g \in Handlers : flight[g].op \in {"idle", "save"} \/ flight[g].q.id # i}
Accepts(f) ==
  CASE f.op = "save" -> NameFree(0, f.q.name) /\ FreeIds # {}
    [] f.op = "rename" -> query[f.q.id] # Absent /\ NameFree(f.q.id, f.q.name)
    [] f.op \in {"share", "format", "run"} -> query[f.q.id] # Absent
    [] f.op = "delete" -> TRUE
    [] f.op = "counted" -> /\ f.row.run_count < MaxRuns /\ runs[f.q.id].answered < MaxRuns
                           /\ f.q.export => Free(export) # {}
    [] f.op = "export" -> query[f.q.id] # Absent /\ Free(export) # {}
Ends(h) == flight' = [flight EXCEPT ![h] = Idle] /\ alone' = alone \ {h}
Serve(h, ops) == flight[h].op \in ops /\ ~Waits(flight[h]) /\ Accepts(flight[h]) /\ Ends(h)
\* A refused commit or, of a run that was counted, an error of the graph.
Fails(h) == /\ flight[h] # Idle /\ ~Waits(flight[h])
            /\ flight[h].op = "counted" \/ ~Accepts(flight[h])
            /\ Ends(h)
RefuseCounting(h) ==   \* Variant: the count is committed before the graph is asked
  /\ Fails(h)
  /\ query' = IF flight[h].op = "counted" THEN [query EXCEPT ![flight[h].q.id].run_count = @ + 1] ELSE query
  /\ UNCHANGED <<export, tasks, files, runs>>
\* An error answer rolls everything back.
Refuse(h) == Fails(h) /\ UNCHANGED <<query, export, tasks, files, runs>>

SaveQuery(h) ==
  /\ Serve(h, {"save"})
  /\ \E i \in FreeIds :
       /\ query' = [query EXCEPT ![i] = [owner |-> flight[h].q.user, name |-> flight[h].q.name,
                                         is_public |-> flight[h].q.is_public,
                                         export_format |-> flight[h].q.export_format, run_count |-> 0]]
       /\ runs' = [runs EXCEPT ![i] = NoRuns]
  /\ UNCHANGED <<export, tasks, files>>
UpdateQuery(h) ==
  LET f == flight[h] IN
  /\ \/ Serve(h, {"rename"}) /\ query' = [query EXCEPT ![f.q.id].name = f.q.name]
     \/ Serve(h, {"share"}) /\ query' = [query EXCEPT ![f.q.id].is_public = f.q.is_public]
     \/ Serve(h, {"format"}) /\ query' = [query EXCEPT ![f.q.id].export_format = TRUE]
  /\ UNCHANGED <<export, tasks, files, runs>>
\* Deleting a query deletes its exports; their tasks and files stay.
DeleteQuery(h) ==
  LET i == flight[h].q.id IN
  /\ Serve(h, {"delete"})
  /\ query' = [query EXCEPT ![i] = Absent]
  /\ export' = [e \in ExportIds |-> IF export[e] # Absent /\ export[e].query = i THEN Absent ELSE export[e]]
  /\ UNCHANGED <<tasks, files, runs>>
Pending(i) == \E e \in Free(export) :
                /\ export' = [export EXCEPT ![e] = [query |-> i, status |-> "pending"]]
                /\ tasks' = tasks \cup {e}
\* The count that was read, plus one, is written before the graph is asked, and
\* committed with the rows; they are exported if asked for and the query has a format.
CountRun(h) ==
  /\ flight[h].op = "run" /\ ~Waits(flight[h]) /\ Accepts(flight[h])
  /\ flight' = [flight EXCEPT ![h].op = "counted"]
  /\ UNCHANGED <<query, export, tasks, files, runs, alone>>
RunQuery(h) ==
  LET f == flight[h] IN
  /\ Serve(h, {"counted"})
  /\ query' = [query EXCEPT ![f.q.id].run_count = f.row.run_count + 1]
  /\ runs' = [runs EXCEPT ![f.q.id] = [answered |-> @.answered + 1,
                                       alone |-> @.alone + IF h \in alone THEN 1 ELSE 0]]
  /\ IF f.q.export /\ f.row.export_format THEN Pending(f.q.id) ELSE UNCHANGED <<export, tasks>>
  /\ UNCHANGED files
ExportQuery(h) ==
  /\ Serve(h, {"export"})
  /\ Pending(flight[h].q.id)
  /\ UNCHANGED <<query, files, runs>>

\* _run_export writes the rows it was given, or fails silently;
\* _execute_and_export does nothing.  Neither touches the QueryExport.
Background(e) ==
  /\ e \in tasks /\ tasks' = tasks \ {e}
  /\ files' \in {files, files \cup {e}}
  /\ UNCHANGED <<query, export, flight, runs, alone>>
Restart == /\ tasks' = {} /\ flight' = [h \in Handlers |-> Idle] /\ alone' = {}
           /\ UNCHANGED <<query, export, files, runs>>

Init == /\ query = [i \in Ids |-> Absent] /\ export = [e \in ExportIds |-> Absent]
        /\ tasks = {} /\ files = {} /\ flight = [h \in Handlers |-> Idle]
        /\ runs = [i \in Ids |-> NoRuns] /\ alone = {}
Handler(h) == \/ SaveQuery(h) \/ UpdateQuery(h) \/ DeleteQuery(h) \/ CountRun(h) \/ RunQuery(h)
              \/ ExportQuery(h) \/ Refuse(h)
Next == \/ Restart \/ \E e \in ExportIds : Background(e)
        \/ \E h \in Handlers : Handler(h) \/ \E q \in Requests : Arrive(h, q)
Spec == Init /\ [][Next]_vars
-----------------------------------------------------------------------------
\* The rows of both tables, and what the handlers read.
Served == [op: {q.op : q \in Requests} \cup {"counted"}, q: Requests, row: SavedQuery \cup {Absent}]
TypeOK ==
  /\ query \in [Ids -> SavedQuery \cup {Absent}] /\ export \in [ExportIds -> QueryExport \cup {Absent}]
  /\ tasks \subseteq ExportIds /\ files \subseteq ExportIds
  /\ flight \in [Handlers -> {Idle} \cup Served]
  /\ runs \in [Ids -> [answered: Nat, alone: Nat]] /\ alone \subseteq Handlers

\* A run is counted only if it was answered (queries.py:211-214), and every answered
\* run that no other run of its query overlapped is counted, whatever is renamed,
\* hidden, exported or deleted meanwhile; of runs that overlap, the count of one may be
\* lost, and with it those of runs in between.  An export can be polled
\* (queries.py:334) by whoever sees its query, and somebody does.
RunsCounted ==
  /\ \A i \in Rows(query) : query[i].run_count \in runs[i].alone .. runs[i].answered
  /\ \A e \in Rows(export) : \E u \in Users : \E i \in ListQueries(u) : e \in ListExports(i)
=============================================================================
