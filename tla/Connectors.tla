----------------------------- MODULE Connectors ------------------------------
(***************************************************************************)
(* A tenant's connectors: configuration, tests, scan schedules and what      *)
(* their agents are told (api/connectors_full.py, api/scan_schedule.py,     *)
(* get_agent_config of api/agent.py over the table connectors).             *)
(*                                                                         *)
(* A request reads its connector (Arrive) and commits the columns that it   *)
(* assigned another value than the one read.  `config` is one JSON column:  *)
(* the connection parameters, and the schedule that scan_schedule.py keeps  *)
(* in it.                                                                  *)
(***************************************************************************)
EXTENDS Naturals, FiniteSets

CONSTANTS Tenants, Ids, Handlers, Params,
          Schedules,          \* VALID_SCHEDULES with an interval
          Agents, AgentTenant \* agents that exist, and whose they are

Absent == [gone |-> TRUE]
None == "none"
Manual == "manual"   \* the schedule of VALID_SCHEDULES without an interval
Connector == [tenant: Tenants, agent: Agents \cup {None}, is_active: BOOLEAN,
              config: [params: Params, schedule: Schedules \cup {Manual, None}],
              test: {"never", "ok", "failed"}]

VARIABLES
  connector,  \* connectors by id
  beat,       \* beat_schedule of this API process: [interval, tenant] by connector
  flight,     \* per handler, the request and the connector it read
  deleted     \* history: connectors that were deleted
vars == <<connector, beat, flight, deleted>>
Rows == {c \in Ids : connector[c] # Absent}

Idle == [op |-> "idle"]
Fields == [agent: Agents] \cup [is_active: BOOLEAN] \cup [params: Params]
Requests ==
       [op: {"create"}, tenant: Tenants, agent: Agents \cup {None}, params: Params]
  \cup [op: {"update"}, tenant: Tenants, id: Ids, fields: Fields]
  \cup [op: {"delete"}, tenant: Tenants, id: Ids]
  \cup [op: {"test"}, tenant: Tenants, id: Ids, result: {"ok", "failed"}]
  \cup [op: {"schedule"}, tenant: Tenants, id: Ids, schedule: Schedules \cup {Manual}]

\* _get_connector_or_404; create_connector looks its agent up in the tenant.
Owned(t, c) == connector[c] # Absent /\ connector[c].tenant = t
Allowed(q) == IF q.op = "create" THEN q.agent # None => AgentTenant[q.agent] = q.tenant
              ELSE Owned(q.tenant, q.id)
Arrive(h, q) ==
  /\ flight[h] = Idle /\ Allowed(q)
  /\ flight' = [flight EXCEPT ![h] =
       [op |-> q.op, q |-> q, row |-> IF q.op = "create" THEN Absent ELSE connector[q.id]]]
  /\ UNCHANGED <<connector, beat, deleted>>

\* What a column holds after it was assigned a value: an UPDATE names the columns
\* whose value is not the one that was read.
Written(now, read, new) == IF new = read THEN now ELSE new
\* The config with its new schedule, as set_scan_schedule assigns it.
Rescheduled(f) == [f.row.config EXCEPT !.schedule = f.q.schedule]

\* An UPDATE of a row that is gone fails the commit; a DELETE of it does not.
\* update_connector and test_connector always have a new time to write.
Accepts(f) == CASE f.op = "create" -> Rows \cup deleted # Ids
                [] f.op = "delete" -> TRUE
                [] f.op = "schedule" -> connector[f.q.id] = Absent => Rescheduled(f) = f.row.config
                [] OTHER -> connector[f.q.id] # Absent
Serve(h, op) == /\ flight[h].op = op /\ Accepts(flight[h])
                /\ flight' = [flight EXCEPT ![h] = Idle]

\* set_scan_schedule has changed the beat entry by the time its commit fails.
Register(q) == beat' = [beat EXCEPT ![q.id] =
                 IF q.schedule = Manual THEN Absent ELSE [interval |-> q.schedule, tenant |-> q.tenant]]
Refuse(h) ==
  /\ flight[h] # Idle /\ ~Accepts(flight[h])
  /\ flight' = [flight EXCEPT ![h] = Idle]
  /\ IF flight[h].op = "schedule" THEN Register(flight[h].q) ELSE UNCHANGED beat
  /\ UNCHANGED <<connector, deleted>>

Create(h) ==
  LET q == flight[h].q IN
  /\ Serve(h, "create")
  /\ \E c \in Ids \ (Rows \cup deleted) :
       connector' = [connector EXCEPT ![c] =
         [tenant |-> q.tenant, agent |-> q.agent, is_active |-> TRUE, test |-> "never",
          config |-> [params |-> q.params, schedule |-> None]]]
  /\ UNCHANGED <<beat, deleted>>
\* The fields that were sent.  A new agent is not looked up in the tenant, and
\* a new config replaces the schedule kept in the old one.
Sent(fields, k, otherwise) == IF k \in DOMAIN fields THEN fields[k] ELSE otherwise
Changed(now, read, fields) ==
  [now EXCEPT
    !.agent = Written(now.agent, read.agent, Sent(fields, "agent", read.agent)),
    !.is_active = Written(now.is_active, read.is_active, Sent(fields, "is_active", read.is_active)),
    !.config = Written(now.config, read.config,
                 IF "params" \in DOMAIN fields THEN [params |-> fields.params, schedule |-> None]
                 ELSE read.config)]
UpdateWholeRow(h) ==   \* Variant: the row that was read, changed
  LET f == flight[h] IN
  /\ Serve(h, "update")
  /\ connector' = [connector EXCEPT ![f.q.id] = Changed(f.row, f.row, f.q.fields)]
  /\ UNCHANGED <<beat, deleted>>
Update(h) ==
  LET f == flight[h] IN
  /\ Serve(h, "update")
  /\ connector' = [connector EXCEPT ![f.q.id] = Changed(connector[f.q.id], f.row, f.q.fields)]
  /\ UNCHANGED <<beat, deleted>>
Delete(h) ==
  LET q == flight[h].q IN
  /\ Serve(h, "delete")
  /\ connector' = [connector EXCEPT ![q.id] = Absent]
  /\ deleted' = deleted \cup {q.id}
  /\ UNCHANGED beat
Test(h) ==
  LET f == flight[h] IN
  /\ Serve(h, "test")
  /\ connector' = [connector EXCEPT ![f.q.id].test = Written(connector[f.q.id].test, f.row.test, f.q.result)]
  /\ UNCHANGED <<beat, deleted>>
\* The whole config as it was read, with the schedule in it.
SetScanSchedule(h) ==
  LET f == flight[h]
      now == connector[f.q.id]
  IN /\ Serve(h, "schedule")
     /\ connector' = IF now = Absent THEN connector
                     ELSE [connector EXCEPT ![f.q.id].config = Written(now.config, f.row.config, Rescheduled(f))]
     /\ Register(f.q)
     /\ UNCHANGED deleted

\* The API process restarts: requests are cut off, its beat entries are gone.
Restart == /\ flight' = [h \in Handlers |-> Idle]
           /\ beat' = [c \in Ids |-> Absent]
           /\ UNCHANGED <<connector, deleted>>

\* get_agent_config: what agent a is told to scan.
AgentConfig(a) == {[id |-> c, config |-> connector[c].config] :
  c \in {c \in Rows : connector[c].tenant = AgentTenant[a] /\ connector[c].agent = a
                       /\ connector[c].is_active}}
\* _compute_health.  Nothing at this commit records a scan, so that scan stays
\* "never" and the health "unknown", whatever the last test said.
ComputeHealth(scan, test) ==
  CASE scan = "never" -> "unknown"
    [] scan = "error" -> "error"
    [] scan \in {"success", "many_errors", "stale"} /\ test = "failed" -> "error"
    [] scan \in {"many_errors", "stale"} /\ test # "failed" -> "warning"
    [] OTHER -> "healthy"
\* The page of a connector: no config, and its agent whosever that is.
ConnectorDict(c) ==
  [agent |-> connector[c].agent, is_active |-> connector[c].is_active,
   test |-> connector[c].test, health |-> ComputeHealth("never", connector[c].test)]
GetConnectorDetail(t, c) == IF Owned(t, c) THEN ConnectorDict(c) ELSE Absent

Init ==
  /\ connector = [c \in Ids |-> Absent] /\ beat = [c \in Ids |-> Absent]
  /\ flight = [h \in Handlers |-> Idle] /\ deleted = {}
Handler(h) == \/ Create(h) \/ Update(h) \/ Delete(h) \/ Test(h) \/ SetScanSchedule(h) \/ Refuse(h)
Next == Restart \/ \E h \in Handlers : Handler(h) \/ \E q \in Requests : Arrive(h, q)
Spec == Init /\ [][Next]_vars

-----------------------------------------------------------------------------
\* The rows of the table, the entries of Beat, and what a handler read: a
\* connector that was there, if it is not about to create one.
Served == [op: {"create"}, q: Requests, row: {Absent}]
          \cup [op: {"update", "delete", "test", "schedule"}, q: Requests, row: Connector]
TypeOK ==
  /\ connector \in [Ids -> Connector \cup {Absent}]
  /\ beat \in [Ids -> [interval: Schedules, tenant: Tenants] \cup {Absent}]
  /\ flight \in [Handlers -> {Idle} \cup Served] /\ deleted \subseteq Ids

\* Overlapping requests on one connector do not undo each other: a commit
\* changes only what its request names (connectors_full.py:168-172), on the
\* connector's page, in the config that agents are told of it and in who is told,
\* also when the row has changed since it was read, and a deleted connector does
\* not come back.  The exception is `config`, which set_scan_schedule writes back
\* whole.
Named(f, c) == CASE c # f.q.id -> {}
                 [] c = f.q.id /\ f.op = "update" -> DOMAIN f.q.fields
                 [] c = f.q.id /\ f.op = "test" -> {"test", "health"}
                 [] c = f.q.id /\ f.op = "schedule" -> {"params"}
Ends(h) == flight[h].op \in {"update", "test", "schedule"} /\ flight'[h] = Idle
ToldOf(c) == {a \in Agents : \E x \in AgentConfig(a) : x.id = c}
EditKept(c, names) ==
  /\ \A t \in Tenants :
       LET page == GetConnectorDetail(t, c)
       IN page # Absent => \A k \in DOMAIN page \ names : GetConnectorDetail(t, c)'[k] = page[k]
  /\ "params" \notin names => connector'[c].config = connector[c].config
  /\ names \cap {"agent", "is_active"} = {} => ToldOf(c)' = ToldOf(c)
EditSurvives ==
  /\ \A c \in deleted : connector'[c] = Absent
  /\ \A h \in Handlers : Ends(h) => \A c \in Rows : EditKept(c, Named(flight[h], c))
EditsSurvive == [][EditSurvives]_vars
=============================================================================
