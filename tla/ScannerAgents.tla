---------------------------- MODULE ScannerAgents ----------------------------
(***************************************************************************)
(* Scanner agents and their keys (api/agent.py, api/scanner.py over the      *)
(* table scanner_agents).  A request reads the row of its key (Arrive) and  *)
(* commits the columns it assigned; SQLAlchemy writes no other column back. *)
(***************************************************************************)
EXTENDS Naturals, FiniteSets

CONSTANTS Tenants, Agents, Names, Keys, Handlers

Absent == [gone |-> TRUE]
ScannerAgent == [tenant: Tenants, name: Names, key: Keys, is_active: BOOLEAN,
                 last_seen: BOOLEAN,     \* within five minutes
                 last_seen_at: BOOLEAN]  \* within 90 seconds

VARIABLES
  agent,      \* scanner_agents by id
  flight,     \* per handler, the request and the rows it read
  used,       \* history: keys that were ever issued
  retired     \* history: keys rotated away, and keys of revoked agents
vars == <<agent, flight, used, retired>>

Rows == {a \in Agents : agent[a] # Absent}

-----------------------------------------------------------------------------
(* Requests: of an agent, which sends its key, and of a user of a tenant.   *)
Idle == [op |-> "idle"]
AgentRequests == [op: {"agent_heartbeat", "poll_jobs", "scanner_heartbeat", "rotate_key"}, key: Keys]
NewAgents == [op: {"new_agent"}, tenant: Tenants, name: Names]
UserRequests == NewAgents \cup [op: {"revoke_agent"}, tenant: Tenants, agent: Agents]

\* _get_scanner, _get_agent_from_key: the active agents whose key it is.
Authenticated(k) == {a \in Rows : agent[a].key = k /\ agent[a].is_active}

\* The request, and the row it found, of which one column matters later on.
Found(op, a) == [op |-> op, agent |-> a, key |-> agent[a].key]
Arrive(h, q) ==
  /\ flight[h] = Idle
  /\ \/ /\ q \in AgentRequests
        /\ \E a \in Authenticated(q.key) : flight' = [flight EXCEPT ![h] = Found(q.op, a)]
     \/ /\ q \in UserRequests \ NewAgents
        /\ agent[q.agent] # Absent /\ agent[q.agent].tenant = q.tenant
        /\ flight' = [flight EXCEPT ![h] = Found(q.op, q.agent)]
     \/ q \in NewAgents /\ flight' = [flight EXCEPT ![h] = q]
  /\ UNCHANGED <<agent, used, retired>>

\* What the commit needs: a free name (uq_tenant_scanner_name), a fresh key.
Accepts(f) ==
  /\ f.op = "new_agent" => /\ Rows # Agents /\ used # Keys
                           /\ \A a \in Rows : <<agent[a].tenant, agent[a].name>> # <<f.tenant, f.name>>
  /\ f.op = "rotate_key" => used # Keys
Serve(h, ops) == /\ flight[h].op \in ops /\ Accepts(flight[h])
                 /\ flight' = [flight EXCEPT ![h] = Idle]
Refuse(h) == /\ flight[h] # Idle /\ ~Accepts(flight[h])
             /\ flight' = [flight EXCEPT ![h] = Idle]
             /\ UNCHANGED <<agent, used, retired>>

-----------------------------------------------------------------------------
(* api/agent.py, api/scanner.py                                            *)
\* generate_agent_token, register_scanner: a key shown once.
NewAgent(h) ==
  /\ Serve(h, {"new_agent"})
  /\ \E a \in Agents \ Rows, k \in Keys \ used :
       /\ agent' = [agent EXCEPT ![a] = [tenant |-> flight[h].tenant, name |-> flight[h].name,
                      key |-> k, is_active |-> TRUE, last_seen |-> FALSE, last_seen_at |-> FALSE]]
       /\ used' = used \cup {k}
  /\ UNCHANGED retired
\* The heartbeat of dgraph-agent writes last_seen_at, every request of
\* scanner-agent writes last_seen.
AgentHeartbeatWholeRow(h) ==   \* Variant: with the row as it was read
  LET f == flight[h] IN
  /\ Serve(h, {"agent_heartbeat"})
  /\ agent' = [agent EXCEPT ![f.agent].last_seen_at = TRUE, ![f.agent].key = f.key]
  /\ UNCHANGED <<used, retired>>
AgentHeartbeat(h) ==
  /\ Serve(h, {"agent_heartbeat"})
  /\ agent' = [agent EXCEPT ![flight[h].agent].last_seen_at = TRUE]
  /\ UNCHANGED <<used, retired>>
ScannerRequest(h) ==
  /\ Serve(h, {"poll_jobs", "scanner_heartbeat"})
  /\ agent' = [agent EXCEPT ![flight[h].agent].last_seen = TRUE]
  /\ UNCHANGED <<used, retired>>
RotateKey(h) ==
  LET a == flight[h].agent IN
  /\ Serve(h, {"rotate_key"})
  /\ \E k \in Keys \ used :
       /\ agent' = [agent EXCEPT ![a].key = k, ![a].last_seen = TRUE]
       /\ used' = used \cup {k}
  /\ retired' = retired \cup {agent[a].key}
RevokeAgent(h) ==
  LET a == flight[h].agent IN
  /\ Serve(h, {"revoke_agent"})
  /\ agent' = [agent EXCEPT ![a].is_active = FALSE]
  /\ retired' = retired \cup {agent[a].key}
  /\ UNCHANGED used
\* Ninety seconds, or five minutes, without a request.
Silence(a) ==
  /\ agent[a] # Absent
  /\ \/ agent[a].last_seen_at /\ agent' = [agent EXCEPT ![a].last_seen_at = FALSE]
     \/ agent[a].last_seen /\ agent' = [agent EXCEPT ![a].last_seen = FALSE]
  /\ UNCHANGED <<flight, used, retired>>

\* list_agents: the active agents of a tenant, and whether they are online.
AgentStatus(a) == [is_online |-> agent[a].last_seen_at]
ListAgents(t) == {[id |-> a, status |-> AgentStatus(a)] :
                    a \in {b \in Rows : agent[b].tenant = t /\ agent[b].is_active}}

-----------------------------------------------------------------------------
Init ==
  /\ agent = [a \in Agents |-> Absent] /\ flight = [h \in Handlers |-> Idle]
  /\ used = {} /\ retired = {}
Handler(h) == \/ NewAgent(h) \/ AgentHeartbeat(h) \/ ScannerRequest(h) \/ RotateKey(h)
              \/ RevokeAgent(h) \/ Refuse(h)
Next == \/ \E a \in Agents : Silence(a)
        \/ \E h \in Handlers : Handler(h) \/ \E q \in AgentRequests \cup UserRequests : Arrive(h, q)
Spec == Init /\ [][Next]_vars

-----------------------------------------------------------------------------
\* The rows of the table and what requests found of them; a key in it was issued.
Served == [op: {q.op : q \in AgentRequests} \cup {"revoke_agent"}, agent: Agents, key: Keys]
TypeOK ==
  /\ agent \in [Agents -> ScannerAgent \cup {Absent}]
  /\ flight \in [Handlers -> {Idle} \cup NewAgents \cup Served]
  /\ used \subseteq Keys /\ retired \subseteq used /\ \A a \in Rows : agent[a].key \in used

\* A key that was rotated away or revoked stays dead ("Old key immediately
\* invalidated", scanner.py:130), also when heartbeats and rotations that
\* arrived with it commit later; an agent that is listed, online or not, has a
\* key that works.
RetiredKeysStayDead ==
  /\ \A k \in retired : Authenticated(k) = {}
  /\ \A t \in Tenants : \A a \in ListAgents(t) : a.id \in Authenticated(agent[a.id].key)
=============================================================================
