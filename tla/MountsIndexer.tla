--------------------------- MODULE MountsIndexer ---------------------------
(***************************************************************************)
(* mounts/manager.py and api/indexer.py: mounts kept in one JSON file that  *)
(* every worker process of the API (Dockerfile:32 starts four) reads whole  *)
(* and writes whole, and index jobs kept in the memory of the worker that   *)
(* started them.  A handler has no await between _load and _save, so what   *)
(* interleaves is processes.  write_text truncates before it writes, and an *)
(* empty file reads as no mounts, so a truncated file is the empty map.     *)
(***************************************************************************)
EXTENDS Naturals, FiniteSets

CONSTANTS Workers, Ids, Jobs, Uris   \* Ids and Jobs: the uuids that may be drawn

VARIABLES disk,      \* mounts.json: id -> [protocol, index_status]
          task,      \* worker -> the handler it is in, its event loop is blocked meanwhile
          jobs,      \* job -> [worker, mount, status], in that worker's memory
          watchers,  \* [job, worker, seen]: connected websockets and the last status sent
          wanted,    \* history: the mounts whose addition, not whose removal, was answered
          raced      \* history: two writers overlapped, or one died between its writes
vars == <<disk, task, jobs, watchers, wanted, raced>>

Protocol == [path |-> "local", drive |-> "local", smb |-> "smb", nfs |-> "nfs"]
Idle == [op |-> "idle"]
Free(w) == task[w] = Idle
With(f, k, v) == [i \in DOMAIN f \cup {k} |-> IF i = k THEN v ELSE f[i]]
Writing(w) == task[w].op \in {"add", "remove", "update"}
Torn == \E w \in Workers : Writing(w) /\ task[w].at = "truncated"

_load(w, op, id, new) ==
  /\ task' = [task EXCEPT ![w] = [op |-> op, id |-> id, new |-> new, list |-> disk, at |-> "read"]]
  /\ raced' = (raced \/ \E u \in Workers \ {w} : Writing(u))

add_mount(w, id, uri) ==
  /\ Free(w) /\ uri \in DOMAIN Protocol /\ id \notin wanted \cup DOMAIN disk
  /\ \A u \in Workers : Writing(u) => task[u].id # id
  /\ _load(w, "add", id, [protocol |-> Protocol[uri], index_status |-> "never"])
  /\ UNCHANGED <<disk, jobs, watchers, wanted>>
remove_mount(w, id) ==
  /\ Free(w) /\ id \in DOMAIN disk
  /\ _load(w, "remove", id, Idle) /\ UNCHANGED <<disk, jobs, watchers, wanted>>

UpdatedOrAdded(t) ==   \* Variant
  With(t.list, t.id, [protocol |-> "local", index_status |-> "complete"])
Updated(t) ==
  IF t.id \in DOMAIN t.list THEN [t.list EXCEPT ![t.id].index_status = "complete"] ELSE t.list
Saved(t) ==
  CASE t.op = "add" -> With(t.list, t.id, t.new)
    [] t.op = "remove" -> [i \in DOMAIN t.list \ {t.id} |-> t.list[i]]
    [] t.op = "update" -> Updated(t)

Truncate(w) ==
  /\ Writing(w) /\ task[w].at = "read"
  /\ disk' = <<>> /\ task' = [task EXCEPT ![w].at = "truncated"]
  /\ UNCHANGED <<jobs, watchers, wanted, raced>>
\* The file is whole again and the handler answers; after an update the job's
\* watchers on this worker are told.
_broadcast(w, j, status) ==
  watchers' = {IF x.job = j /\ x.worker = w THEN [x EXCEPT !.seen = status] ELSE x : x \in watchers}
_save(w) ==
  LET t == task[w] IN
  /\ Writing(w) /\ t.at = "truncated"
  /\ disk' = Saved(t) /\ task' = [task EXCEPT ![w] = Idle]
  /\ wanted' = CASE t.op = "add" -> wanted \cup {t.id}
                 [] t.op = "remove" -> wanted \ {t.id}
                 [] t.op = "update" -> wanted
  /\ IF t.op = "update" THEN _broadcast(w, t.new, "complete") ELSE UNCHANGED watchers
  /\ UNCHANGED <<jobs, raced>>

start_index(w, j, id) ==
  /\ Free(w) /\ j \notin DOMAIN jobs /\ (\A x \in watchers : x.job # j) /\ id \in DOMAIN disk
  /\ jobs' = With(jobs, j, [worker |-> w, mount |-> id, status |-> "running"])
  /\ UNCHANGED <<disk, task, watchers, wanted, raced>>
\* The socket is accepted whether or not this worker has the job.
index_progress_ws(w, j) ==
  /\ Free(w)
  /\ watchers' = watchers \cup
       {[job |-> j, worker |-> w,
         seen |-> IF j \in DOMAIN jobs /\ jobs[j].worker = w THEN jobs[j].status ELSE "nothing"]}
  /\ UNCHANGED <<disk, task, jobs, wanted, raced>>
WebSocketDisconnect(x) ==
  /\ x \in watchers /\ Free(x.worker) /\ watchers' = watchers \ {x}
  /\ UNCHANGED <<disk, task, jobs, wanted, raced>>

\* archon's index() is synchronous: the worker serves nothing until it returns.
_run_index(w, j) ==
  /\ Free(w) /\ j \in DOMAIN jobs /\ jobs[j].worker = w /\ jobs[j].status = "running"
  /\ task' = [task EXCEPT ![w] = [op |-> "index", job |-> j]]
  /\ UNCHANGED <<disk, jobs, watchers, wanted, raced>>
Indexed(w) ==
  /\ task[w].op = "index"
  /\ LET j == task[w].job IN
       jobs' = [jobs EXCEPT ![j].status = "complete"] /\ _load(w, "update", jobs[j].mount, j)
  /\ UNCHANGED <<disk, watchers, wanted>>
IndexFailed(w) ==
  /\ task[w].op = "index" /\ task' = [task EXCEPT ![w] = Idle]
  /\ jobs' = [jobs EXCEPT ![task[w].job].status = "error"] /\ _broadcast(w, task[w].job, "error")
  /\ UNCHANGED <<disk, wanted, raced>>

\* A worker process dies and is started again.
Restart(w) ==
  /\ raced' = (raced \/ (Writing(w) /\ task[w].at = "truncated"))
  /\ task' = [task EXCEPT ![w] = Idle]
  /\ jobs' = [j \in {i \in DOMAIN jobs : jobs[i].worker # w} |-> jobs[j]]
  /\ watchers' = {x \in watchers : x.worker # w} /\ UNCHANGED <<disk, wanted>>

Init ==
  /\ disk = <<>> /\ task = [w \in Workers |-> Idle] /\ jobs = <<>> /\ watchers = {}
  /\ wanted = {} /\ raced = FALSE
Next == \E w \in Workers :
  \/ \E id \in Ids : (\E uri \in Uris : add_mount(w, id, uri)) \/ remove_mount(w, id)
  \/ Truncate(w) \/ _save(w) \/ Indexed(w) \/ IndexFailed(w) \/ Restart(w)
  \/ \E j \in Jobs : (\E id \in Ids : start_index(w, j, id)) \/ index_progress_ws(w, j) \/ _run_index(w, j)
  \/ \E x \in watchers : x.worker = w /\ WebSocketDisconnect(x)
Spec == Init /\ [][Next]_vars

-----------------------------------------------------------------------------
\* The entries of mounts.json, jobs and handlers: an index run, or one that has read
\* the whole file and will write it.
Mount == [protocol: {"local", "smb", "nfs"}, index_status: {"never", "complete"}]
Job == [worker: Workers, mount: Ids, status: {"running", "complete", "error"}]
MountsFiles == UNION {[I -> Mount] : I \in SUBSET Ids}
Writer == [op: {"add", "remove", "update"}, id: Ids, new: Mount \cup {Idle} \cup Jobs,
           list: MountsFiles, at: {"read", "truncated"}]
TypeOK ==
  /\ disk \in MountsFiles /\ task \in [Workers -> {Idle} \cup [op: {"index"}, job: Jobs] \cup Writer]
  /\ jobs \in UNION {[J -> Job] : J \in SUBSET Jobs}
  /\ watchers \subseteq [job: Jobs, worker: Workers, seen: {"nothing", "running", "complete", "error"}]
  /\ wanted \subseteq Ids /\ raced \in BOOLEAN

\* "Persists mount configurations" (manager.py:3): unless two processes wrote at
\* once or one died between truncating and writing, the file holds the mounts whose
\* addition was answered and not their removal, whatever index jobs did meanwhile.
MountsSurvive == raced \/ Torn \/ DOMAIN disk = wanted

\* "Streams messages until the job completes" (indexer.py:86): a watcher connected
\* to the job's own worker has seen how it ended once that worker is free again.
EndIsSeen == \A x \in watchers :
  (x.job \in DOMAIN jobs /\ jobs[x.job].worker = x.worker /\ Free(x.worker))
    => x.seen = jobs[x.job].status
MountsAndJobs == MountsSurvive /\ EndIsSeen
=============================================================================
