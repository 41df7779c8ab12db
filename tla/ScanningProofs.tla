---------------------------- MODULE ScanningProofs --------------------------
(* Theorems about the services of Scanning, each for any values of its       *)
(* constants.                                                                *)
EXTENDS Scanning, Sequences, Functions, FiniteSetTheorems, TLAPS

----------------------------------------------------------------------------
(* Scanner agents and their keys *)

(* No two agents have one key, and requests are of agents that are there.    *)
KeysApart == \A a, b \in Agent!Rows : agents[a].key = agents[b].key => a = b
AgentsPersist ==
    \A h \in AgentHandlers : agentFlight[h] \in Agent!Served => agentFlight[h].agent \in Agent!Rows
RetiredAreDead == \A k \in retiredKeys : Agent!Authenticated(k) = {}

(* The inductive invariant.  A key that is rotated away is dead only because *)
(* no other agent has it, and stays dead only because rows get keys that     *)
(* were never used.                                                          *)
KeysInv == Agent!TypeOK /\ KeysApart /\ AgentsPersist /\ RetiredAreDead

(* Rows and requests are told apart from nothing by their fields.            *)
LEMMA AgentRowsArePresent ==
    /\ Agent!Absent \notin Agent!ScannerAgent
    /\ \A f \in Agent!NewAgents : f # Agent!Idle /\ f.op = "new_agent"
    /\ \A f \in Agent!Served : f # Agent!Idle /\ f.op # "new_agent"
<1>1. Agent!Absent \notin Agent!ScannerAgent
    BY DEF Agent!Absent, Agent!ScannerAgent
<1>2. \A f \in Agent!NewAgents : f.op = "new_agent"
    BY DEF Agent!NewAgents
<1>3. \A f \in Agent!Served : f.op # "new_agent" /\ f.op # "idle"
    BY DEF Agent!Served, Agent!AgentRequests
<1>4. Agent!Idle.op = "idle"
    BY DEF Agent!Idle
<1> QED
    BY <1>1, <1>2, <1>3, <1>4

(* The request that is served, and the agent it is of.                       *)
LEMMA AgentServed ==
    ASSUME KeysInv, NEW h \in AgentHandlers, agentFlight[h] # Agent!Idle
    PROVE  \/ /\ agentFlight[h] \in Agent!NewAgents /\ agentFlight[h].op = "new_agent"
              /\ agentFlight[h].tenant \in AgentTenants /\ agentFlight[h].name \in AgentNames
           \/ /\ agentFlight[h] \in Agent!Served /\ agentFlight[h].op # "new_agent"
              /\ agentFlight[h].agent \in ScannerAgents
              /\ agents[agentFlight[h].agent] \in Agent!ScannerAgent
<1>1. agentFlight[h] \in Agent!NewAgents \cup Agent!Served
    BY DEF KeysInv, Agent!TypeOK
<1>2. CASE agentFlight[h] \in Agent!NewAgents
    BY <1>2, AgentRowsArePresent DEF Agent!NewAgents
<1>3. CASE agentFlight[h] \in Agent!Served
    <2>1. agentFlight[h].agent \in Agent!Rows
        BY <1>3 DEF KeysInv, AgentsPersist
    <2> QED
        BY <1>3, <2>1, AgentRowsArePresent DEF KeysInv, Agent!TypeOK, Agent!Rows
<1> QED
    BY <1>1, <1>2, <1>3

(* One row changes, in columns that are not the key and that do not make it  *)
(* active, or in the key, to one that was never used.                        *)
LEMMA AgentChanged ==
    ASSUME KeysInv, NEW a \in ScannerAgents, agents[a] # Agent!Absent,
           NEW row \in Agent!ScannerAgent, agents' = [agents EXCEPT ![a] = row],
           row.is_active => agents[a].is_active,
           \/ UNCHANGED <<usedKeys, retiredKeys>> /\ row.key = agents[a].key
           \/ /\ UNCHANGED usedKeys /\ row.key = agents[a].key /\ ~row.is_active
              /\ retiredKeys' = retiredKeys \cup {row.key}
           \/ /\ row.key \in AgentKeys \ usedKeys /\ usedKeys' = usedKeys \cup {row.key}
              /\ retiredKeys' = retiredKeys \cup {agents[a].key}
    PROVE  /\ agents' \in [ScannerAgents -> Agent!ScannerAgent \cup {Agent!Absent}]
           /\ usedKeys' \subseteq AgentKeys /\ retiredKeys' \subseteq usedKeys'
           /\ \A b \in Agent!Rows' : agents'[b].key \in usedKeys'
           /\ Agent!Rows' = Agent!Rows /\ KeysApart' /\ RetiredAreDead'
<1>1. /\ agents \in [ScannerAgents -> Agent!ScannerAgent \cup {Agent!Absent}]
      /\ usedKeys \subseteq AgentKeys /\ retiredKeys \subseteq usedKeys
      /\ \A b \in Agent!Rows : agents[b].key \in usedKeys
    BY DEF KeysInv, Agent!TypeOK
<1>2. row # Agent!Absent
    BY AgentRowsArePresent
<1>3. /\ agents' \in [ScannerAgents -> Agent!ScannerAgent \cup {Agent!Absent}]
      /\ agents'[a] = row /\ \A b \in ScannerAgents : b # a => agents'[b] = agents[b]
    BY <1>1
<1>4. Agent!Rows' = Agent!Rows /\ a \in Agent!Rows /\ Agent!Rows \subseteq ScannerAgents
    BY <1>2, <1>3 DEF Agent!Rows
<1>5. agents[a].key \in usedKeys
    BY <1>1, <1>4
<1>6. \A b \in Agent!Rows' : agents'[b].key \in usedKeys'
    BY <1>1, <1>3, <1>4
<1>7. KeysApart'
    BY <1>1, <1>3, <1>4, <1>5 DEF KeysInv, KeysApart
<1>8. RetiredAreDead'
    <2> SUFFICES ASSUME NEW k \in retiredKeys', NEW b \in Agent!Rows, agents'[b].key = k,
                        agents'[b].is_active
                 PROVE  FALSE
        BY <1>4 DEF RetiredAreDead, Agent!Authenticated
    <2>1. CASE k \in retiredKeys
        BY <1>1, <1>3, <1>4, <2>1 DEF KeysInv, RetiredAreDead, Agent!Authenticated
    <2>2. CASE k \notin retiredKeys
        BY <1>1, <1>3, <1>4, <1>5, <2>2 DEF KeysInv, KeysApart
    <2> QED
        BY <2>1, <2>2
<1> QED
    BY <1>1, <1>3, <1>4, <1>5, <1>6, <1>7, <1>8
(* A handler that ends leaves what the others serve where it is.             *)
LEMMA AgentHandlerEnds ==
    ASSUME KeysInv, NEW h \in AgentHandlers, agentFlight' = [agentFlight EXCEPT ![h] = Agent!Idle],
           Agent!Rows \subseteq Agent!Rows'
    PROVE  /\ agentFlight' \in [AgentHandlers -> {Agent!Idle} \cup Agent!NewAgents \cup Agent!Served]
           /\ AgentsPersist'
<1>1. agentFlight \in [AgentHandlers -> {Agent!Idle} \cup Agent!NewAgents \cup Agent!Served]
    BY DEF KeysInv, Agent!TypeOK
<1>2. Agent!Idle \notin Agent!Served
    BY AgentRowsArePresent
<1>3. Agent!Served' = Agent!Served
    BY DEF Agent!Served, Agent!AgentRequests
<1> QED
    BY <1>1, <1>2, <1>3 DEF KeysInv, AgentsPersist

(* Every handler keeps the invariant.                                        *)
LEMMA AgentHandlerStep ==
    ASSUME KeysInv, NEW h \in AgentHandlers, Agent!Handler(h)
    PROVE  KeysInv'
<1> DEFINE f == agentFlight[h]
           a == f.agent
<1>1. f # Agent!Idle /\ agentFlight' = [agentFlight EXCEPT ![h] = Agent!Idle]
    <2>1. Agent!Idle.op = "idle"
        BY DEF Agent!Idle
    <2> QED
        BY <2>1 DEF Agent!Handler, Agent!Serve, Agent!NewAgent, Agent!AgentHeartbeat,
                    Agent!ScannerRequest, Agent!RotateKey, Agent!RevokeAgent, Agent!Refuse
<1>2. /\ agents \in [ScannerAgents -> Agent!ScannerAgent \cup {Agent!Absent}]
      /\ usedKeys \subseteq AgentKeys /\ retiredKeys \subseteq usedKeys
      /\ \A b \in Agent!Rows : agents[b].key \in usedKeys
    BY DEF KeysInv, Agent!TypeOK
<1>3. ASSUME NEW row, row \in Agent!ScannerAgent, f.op # "new_agent",
             agents' = [agents EXCEPT ![a] = row], row.is_active => agents[a].is_active,
             \/ UNCHANGED <<usedKeys, retiredKeys>> /\ row.key = agents[a].key
             \/ /\ UNCHANGED usedKeys /\ row.key = agents[a].key /\ ~row.is_active
                /\ retiredKeys' = retiredKeys \cup {row.key}
             \/ /\ row.key \in AgentKeys \ usedKeys /\ usedKeys' = usedKeys \cup {row.key}
                /\ retiredKeys' = retiredKeys \cup {agents[a].key}
      PROVE  KeysInv'
    <2>1. a \in ScannerAgents /\ agents[a] # Agent!Absent
        BY <1>1, <1>3, AgentServed, AgentRowsArePresent
    <2>2. /\ agents' \in [ScannerAgents -> Agent!ScannerAgent \cup {Agent!Absent}]
          /\ usedKeys' \subseteq AgentKeys /\ retiredKeys' \subseteq usedKeys'
          /\ \A b \in Agent!Rows' : agents'[b].key \in usedKeys'
          /\ Agent!Rows' = Agent!Rows /\ KeysApart' /\ RetiredAreDead'
        BY <1>3, <2>1, AgentChanged
    <2> QED
        BY <1>1, <2>2, AgentHandlerEnds DEF KeysInv, Agent!TypeOK
<1>4. f.op # "new_agent" =>
          /\ agents[a] \in Agent!ScannerAgent /\ agents[a].key \in AgentKeys
          /\ agents[a].is_active \in BOOLEAN
    BY <1>1, AgentServed DEF Agent!ScannerAgent
<1> HIDE DEF f, a
<1>5. CASE Agent!NewAgent(h)
    <2>1. /\ f.op = "new_agent" /\ retiredKeys' = retiredKeys
          /\ \E b \in ScannerAgents \ Agent!Rows, k \in AgentKeys \ usedKeys :
                /\ agents' = [agents EXCEPT ![b] = [tenant |-> f.tenant, name |-> f.name, key |-> k,
                                  is_active |-> TRUE, last_seen |-> FALSE, last_seen_at |-> FALSE]]
                /\ usedKeys' = usedKeys \cup {k}
        BY <1>5 DEF Agent!NewAgent, Agent!Serve, f
    <2>2. PICK b \in ScannerAgents \ Agent!Rows, k \in AgentKeys \ usedKeys :
                /\ agents' = [agents EXCEPT ![b] = [tenant |-> f.tenant, name |-> f.name, key |-> k,
                                  is_active |-> TRUE, last_seen |-> FALSE, last_seen_at |-> FALSE]]
                /\ usedKeys' = usedKeys \cup {k}
        BY <2>1
    <2> DEFINE row == [tenant |-> f.tenant, name |-> f.name, key |-> k,
                       is_active |-> TRUE, last_seen |-> FALSE, last_seen_at |-> FALSE]
    <2>3. f.tenant \in AgentTenants /\ f.name \in AgentNames
        BY <1>1, <2>1, AgentServed DEF f
    <2>4. row \in Agent!ScannerAgent /\ row.key = k
        BY <2>3 DEF Agent!ScannerAgent
    <2>5. row # Agent!Absent
        BY <2>4, AgentRowsArePresent
    <2> HIDE DEF row
    <2>6. /\ agents' \in [ScannerAgents -> Agent!ScannerAgent \cup {Agent!Absent}]
          /\ agents'[b] = row /\ \A c \in ScannerAgents : c # b => agents'[c] = agents[c]
        BY <1>2, <2>2, <2>4 DEF row
    <2>7. Agent!Rows' = Agent!Rows \cup {b} /\ Agent!Rows \subseteq ScannerAgents
        BY <2>5, <2>6 DEF Agent!Rows
    <2>8. \A c \in Agent!Rows' : agents'[c].key \in usedKeys'
        BY <1>2, <2>2, <2>4, <2>6, <2>7
    <2>9. KeysApart'
        BY <1>2, <2>2, <2>4, <2>6, <2>7 DEF KeysInv, KeysApart
    <2>10. RetiredAreDead'
        BY <1>2, <2>1, <2>2, <2>4, <2>6, <2>7 DEF KeysInv, RetiredAreDead, Agent!Authenticated
    <2> QED
        BY <1>1, <1>2, <2>1, <2>2, <2>6, <2>7, <2>8, <2>9, <2>10, AgentHandlerEnds
        DEF KeysInv, Agent!TypeOK
<1>6. CASE Agent!AgentHeartbeat(h)
    <2>1. [agents[a] EXCEPT !.last_seen_at = TRUE] \in Agent!ScannerAgent
        BY <1>4, <1>6 DEF Agent!AgentHeartbeat, Agent!Serve, Agent!ScannerAgent, f
    <2> QED
        BY <1>3, <1>4, <1>6, <2>1 DEF Agent!AgentHeartbeat, Agent!Serve, f, a, Agent!ScannerAgent
<1>7. CASE Agent!ScannerRequest(h)
    <2>1. [agents[a] EXCEPT !.last_seen = TRUE] \in Agent!ScannerAgent
        BY <1>4, <1>7 DEF Agent!ScannerRequest, Agent!Serve, Agent!ScannerAgent, f
    <2> QED
        BY <1>3, <1>4, <1>7, <2>1 DEF Agent!ScannerRequest, Agent!Serve, f, a, Agent!ScannerAgent
<1>8. CASE Agent!RotateKey(h)
    <2>1. f.op # "new_agent"
        BY <1>8 DEF Agent!RotateKey, Agent!Serve, f
    <2>2. PICK k \in AgentKeys \ usedKeys :
              /\ agents' = [agents EXCEPT ![a].key = k, ![a].last_seen = TRUE]
              /\ usedKeys' = usedKeys \cup {k} /\ retiredKeys' = retiredKeys \cup {agents[a].key}
        BY <1>8 DEF Agent!RotateKey, f, a
    <2> DEFINE row == [[agents[a] EXCEPT !.key = k] EXCEPT !.last_seen = TRUE]
    <2>3. row \in Agent!ScannerAgent /\ row.key = k /\ row.is_active = agents[a].is_active
        BY <1>4, <2>1, <2>2 DEF Agent!ScannerAgent
    <2>4. agents' = [agents EXCEPT ![a] = row]
        BY <1>1, <1>2, <2>1, <2>2, AgentServed DEF f, a
    <2> HIDE DEF row
    <2> QED
        BY <1>3, <2>1, <2>2, <2>3, <2>4
<1>9. CASE Agent!RevokeAgent(h)
    <2>1. /\ f.op # "new_agent" /\ agents' = [agents EXCEPT ![a].is_active = FALSE]
          /\ retiredKeys' = retiredKeys \cup {agents[a].key} /\ UNCHANGED usedKeys
        BY <1>9 DEF Agent!RevokeAgent, Agent!Serve, f, a
    <2> DEFINE row == [agents[a] EXCEPT !.is_active = FALSE]
    <2>2. row \in Agent!ScannerAgent /\ row.key = agents[a].key /\ row.is_active = FALSE
        BY <1>4, <2>1 DEF Agent!ScannerAgent
    <2>3. agents' = [agents EXCEPT ![a] = row]
        BY <2>1
    <2> HIDE DEF row
    <2> QED
        BY <1>3, <2>1, <2>2, <2>3
<1>10. CASE Agent!Refuse(h)
    <2>1. UNCHANGED <<agents, usedKeys, retiredKeys>>
        BY <1>10 DEF Agent!Refuse
    <2>2. Agent!Rows' = Agent!Rows
        BY <2>1 DEF Agent!Rows
    <2> QED
        BY <1>1, <2>1, <2>2, AgentHandlerEnds
        DEF KeysInv, Agent!TypeOK, KeysApart, RetiredAreDead, Agent!Authenticated
<1> QED
    BY <1>5, <1>6, <1>7, <1>8, <1>9, <1>10 DEF Agent!Handler
(* Reading an agent changes no row; going silent, no key.                    *)
LEMMA AgentOtherSteps ==
    ASSUME KeysInv,
           \/ \E a \in ScannerAgents : Agent!Silence(a)
           \/ \E h \in AgentHandlers, q \in Agent!AgentRequests \cup Agent!UserRequests :
                  Agent!Arrive(h, q)
           \/ UNCHANGED Agent!vars
    PROVE  KeysInv'
<1>1. /\ agents \in [ScannerAgents -> Agent!ScannerAgent \cup {Agent!Absent}]
      /\ agentFlight \in [AgentHandlers -> {Agent!Idle} \cup Agent!NewAgents \cup Agent!Served]
    BY DEF KeysInv, Agent!TypeOK
<1>2. CASE \E a \in ScannerAgents : Agent!Silence(a)
    <2>1. PICK a \in ScannerAgents : Agent!Silence(a)
        BY <1>2
    <2>2. /\ agents[a] # Agent!Absent /\ UNCHANGED <<agentFlight, usedKeys, retiredKeys>>
          /\ \/ agents' = [agents EXCEPT ![a].last_seen_at = FALSE]
             \/ agents' = [agents EXCEPT ![a].last_seen = FALSE]
        BY <2>1 DEF Agent!Silence
    <2>3. agents[a] \in Agent!ScannerAgent
        BY <1>1, <2>2
    <2>4. PICK row \in Agent!ScannerAgent : /\ agents' = [agents EXCEPT ![a] = row]
                                            /\ row.key = agents[a].key
                                            /\ row.is_active = agents[a].is_active
        BY <2>2, <2>3 DEF Agent!ScannerAgent
    <2>5. /\ agents' \in [ScannerAgents -> Agent!ScannerAgent \cup {Agent!Absent}]
          /\ usedKeys' \subseteq AgentKeys /\ retiredKeys' \subseteq usedKeys'
          /\ \A b \in Agent!Rows' : agents'[b].key \in usedKeys'
          /\ Agent!Rows' = Agent!Rows /\ KeysApart' /\ RetiredAreDead'
        BY <2>2, <2>4, AgentChanged
    <2> QED
        BY <2>2, <2>5 DEF KeysInv, Agent!TypeOK, AgentsPersist
<1>3. CASE \E h \in AgentHandlers, q \in Agent!AgentRequests \cup Agent!UserRequests :
                  Agent!Arrive(h, q)
    <2>1. PICK h \in AgentHandlers, q \in Agent!AgentRequests \cup Agent!UserRequests :
                  Agent!Arrive(h, q)
        BY <1>3
    <2>2. UNCHANGED <<agents, usedKeys, retiredKeys>>
        BY <2>1 DEF Agent!Arrive
    <2>3. PICK g : /\ agentFlight' = [agentFlight EXCEPT ![h] = g]
                   /\ \/ g \in Agent!NewAgents
                      \/ g \in Agent!Served /\ g.agent \in Agent!Rows
        <3>1. CASE q \in Agent!NewAgents
            <4>1. q.op = "new_agent" /\ q \notin Agent!AgentRequests
                BY <3>1 DEF Agent!NewAgents, Agent!AgentRequests
            <4> QED
                BY <2>1, <3>1, <4>1 DEF Agent!Arrive
        <3>2. CASE q \notin Agent!NewAgents
            <4>1. PICK a \in Agent!Rows : agentFlight' = [agentFlight EXCEPT ![h] = Agent!Found(q.op, a)]
                BY <2>1, <3>2 DEF Agent!Arrive, Agent!Authenticated, Agent!UserRequests, Agent!Rows
            <4>2. agents[a].key \in AgentKeys /\ a \in ScannerAgents
                BY <1>1, <4>1 DEF Agent!Rows, Agent!ScannerAgent
            <4>3. q.op \in {r.op : r \in Agent!AgentRequests} \cup {"revoke_agent"}
                BY <3>2 DEF Agent!UserRequests
            <4>4. Agent!Found(q.op, a) \in Agent!Served /\ Agent!Found(q.op, a).agent = a
                BY <4>2, <4>3 DEF Agent!Found, Agent!Served
            <4> QED
                BY <4>1, <4>4
        <3> QED
            BY <3>1, <3>2
    <2>4. agentFlight' \in [AgentHandlers -> {Agent!Idle} \cup Agent!NewAgents \cup Agent!Served]
        BY <1>1, <2>3
    <2>5. AgentsPersist'
        <3>1. Agent!Rows' = Agent!Rows
            BY <2>2 DEF Agent!Rows
        <3>2. \A f \in Agent!NewAgents : f \notin Agent!Served
            BY AgentRowsArePresent
        <3> QED
            BY <1>1, <2>3, <3>1, <3>2 DEF KeysInv, AgentsPersist
    <2> QED
        BY <2>2, <2>4, <2>5
        DEF KeysInv, Agent!TypeOK, KeysApart, RetiredAreDead, Agent!Authenticated, Agent!Rows
<1>4. CASE UNCHANGED Agent!vars
    BY <1>4 DEF Agent!vars, KeysInv, Agent!TypeOK, KeysApart, AgentsPersist, RetiredAreDead,
                Agent!Authenticated, Agent!Rows
<1> QED
    BY <1>2, <1>3, <1>4

(* Every reachable state has these properties.                               *)
LEMMA KeysInvariant == Agent!Spec => []KeysInv
<1>1. Agent!Init => KeysInv
    <2> SUFFICES ASSUME Agent!Init PROVE KeysInv
        OBVIOUS
    <2>1. Agent!Rows = {} /\ agents = [a \in ScannerAgents |-> Agent!Absent]
        BY DEF Agent!Init, Agent!Rows
    <2>2. agentFlight = [h \in AgentHandlers |-> Agent!Idle] /\ usedKeys = {} /\ retiredKeys = {}
        BY DEF Agent!Init
    <2> QED
        BY <2>1, <2>2, AgentRowsArePresent
        DEF KeysInv, Agent!TypeOK, KeysApart, AgentsPersist, RetiredAreDead
<1>2. KeysInv /\ [Agent!Next]_(Agent!vars) => KeysInv'
    BY AgentHandlerStep, AgentOtherSteps DEF Agent!Next
<1> QED
    BY <1>1, <1>2, PTL DEF Agent!Spec

(* "Old key immediately invalidated" (scanner.py:130): a key that was rotated *)
(* away or revoked is accepted of nobody, also when heartbeats and rotations  *)
(* that arrived with it commit later; a listed agent's key works.             *)
THEOREM KeysStayDead == Agent!Spec => []RetiredKeysStayDead
<1>1. KeysInv => RetiredKeysStayDead
    BY DEF KeysInv, RetiredAreDead, RetiredKeysStayDead, Agent!RetiredKeysStayDead,
           Agent!ListAgents, Agent!Authenticated
<1> QED
    BY <1>1, KeysInvariant, PTL

----------------------------------------------------------------------------
(* Connectors *)

(* The entries of Beat, what a request is, deleted connectors stay deleted.  *)
Beats == [ConnectorIds -> [interval: ConnSchedules, tenant: ConnTenants] \cup {Conn!Absent}]
ConnAsked == \A h \in ConnHandlers : connFlight[h] # Conn!Idle => connFlight[h].op = connFlight[h].q.op
DeletedGone == \A c \in deletedConnectors : connectors[c] = Conn!Absent
ConnInv == Conn!TypeOK /\ ConnAsked /\ DeletedGone

(* Rows and requests are told apart from nothing by their fields.            *)
LEMMA ConnRowsArePresent ==
    /\ Conn!Absent \notin Conn!Connector
    /\ \A f \in Conn!Served : f.op # "idle" /\ f # Conn!Idle
<1>1. Conn!Absent \notin Conn!Connector
    BY DEF Conn!Absent, Conn!Connector
<1>2. \A f \in Conn!Served : f.op \in {"create", "update", "delete", "test", "schedule"}
    BY DEF Conn!Served
<1> QED
    BY <1>1, <1>2 DEF Conn!Idle

(* The fields of a request follow from its operation.                        *)
LEMMA ConnFields ==
    ASSUME NEW q \in Conn!Requests
    PROVE  /\ q.tenant \in ConnTenants
           /\ q.op \in {"create", "update", "delete", "test", "schedule"}
           /\ q.op = "create" => q.agent \in ConnAgents \cup {Conn!None} /\ q.params \in ConnParams
           /\ q.op # "create" => q.id \in ConnectorIds
           /\ q.op = "update" => q.fields \in Conn!Fields
           /\ q.op = "test" => q.result \in {"ok", "failed"}
           /\ q.op = "schedule" => q.schedule \in ConnSchedules \cup {Conn!Manual}
BY DEF Conn!Requests

(* The request that is served, and the row that was read.                    *)
LEMMA ConnServed ==
    ASSUME ConnInv, NEW h \in ConnHandlers, connFlight[h] # Conn!Idle
    PROVE  /\ connFlight[h] \in Conn!Served /\ connFlight[h].q \in Conn!Requests
           /\ connFlight[h].op = connFlight[h].q.op
           /\ connFlight[h].op # "create" => connFlight[h].row \in Conn!Connector
<1>1. connFlight[h] \in Conn!Served
    BY DEF ConnInv, Conn!TypeOK
<1>2. connFlight[h].op = connFlight[h].q.op
    BY DEF ConnInv, ConnAsked
<1> QED
    BY <1>1, <1>2 DEF Conn!Served

(* A handler that ends leaves what the others serve where it is.             *)
LEMMA ConnEnds ==
    ASSUME ConnInv, NEW h \in ConnHandlers, connFlight' = [connFlight EXCEPT ![h] = Conn!Idle]
    PROVE  /\ connFlight' \in [ConnHandlers -> {Conn!Idle} \cup Conn!Served] /\ ConnAsked'
           /\ \A g \in ConnHandlers : g # h => connFlight'[g] = connFlight[g]
<1>1. connFlight \in [ConnHandlers -> {Conn!Idle} \cup Conn!Served]
    BY DEF ConnInv, Conn!TypeOK
<1> QED
    BY <1>1 DEF ConnInv, ConnAsked, Conn!Idle

(* A row that is there changes into a row of its tenant.                     *)
LEMMA ConnChanged ==
    ASSUME ConnInv, NEW c \in ConnectorIds, connectors[c] # Conn!Absent, NEW row \in Conn!Connector,
           connectors' = [connectors EXCEPT ![c] = row], UNCHANGED deletedConnectors
    PROVE  connectors' \in [ConnectorIds -> Conn!Connector \cup {Conn!Absent}] /\ DeletedGone'
<1>1. connectors \in [ConnectorIds -> Conn!Connector \cup {Conn!Absent}]
    BY DEF ConnInv, Conn!TypeOK
<1> QED
    BY <1>1 DEF ConnInv, DeletedGone

(* The new row of an update: its types, and the columns that were not sent.  *)
LEMMA ConnUpdated ==
    ASSUME NEW now \in Conn!Connector, NEW read \in Conn!Connector, NEW fields \in Conn!Fields
    PROVE  /\ Conn!Changed(now, read, fields) \in Conn!Connector
           /\ Conn!Changed(now, read, fields).tenant = now.tenant
           /\ Conn!Changed(now, read, fields).test = now.test
           /\ "agent" \notin DOMAIN fields => Conn!Changed(now, read, fields).agent = now.agent
           /\ "is_active" \notin DOMAIN fields => Conn!Changed(now, read, fields).is_active = now.is_active
           /\ "params" \notin DOMAIN fields => Conn!Changed(now, read, fields).config = now.config
<1> DEFINE sentAgent == Conn!Sent(fields, "agent", read.agent)
           sentActive == Conn!Sent(fields, "is_active", read.is_active)
           sentConfig == IF "params" \in DOMAIN fields
                         THEN [params |-> fields.params, schedule |-> Conn!None] ELSE read.config
           agent == Conn!Written(now.agent, read.agent, sentAgent)
           active == Conn!Written(now.is_active, read.is_active, sentActive)
           config == Conn!Written(now.config, read.config, sentConfig)
           Configs == [params: ConnParams, schedule: ConnSchedules \cup {Conn!Manual, Conn!None}]
<1>1. /\ now.agent \in ConnAgents \cup {Conn!None} /\ read.agent \in ConnAgents \cup {Conn!None}
      /\ now.is_active \in BOOLEAN /\ read.is_active \in BOOLEAN
      /\ now.config \in Configs /\ read.config \in Configs
    BY DEF Conn!Connector
<1>2. /\ "agent" \in DOMAIN fields => fields["agent"] \in ConnAgents
      /\ "is_active" \in DOMAIN fields => fields["is_active"] \in BOOLEAN
      /\ "params" \in DOMAIN fields => fields.params \in ConnParams
    BY DEF Conn!Fields
<1>3. agent \in ConnAgents \cup {Conn!None} /\ ("agent" \notin DOMAIN fields => agent = now.agent)
    BY <1>1, <1>2 DEF Conn!Written, Conn!Sent
<1>4. active \in BOOLEAN
    BY <1>1, <1>2, Zenon DEF Conn!Written, Conn!Sent
<1>5. "is_active" \notin DOMAIN fields => active = now.is_active
    BY Zenon DEF Conn!Written, Conn!Sent
<1>6. config \in Configs /\ ("params" \notin DOMAIN fields => config = now.config)
    BY <1>1, <1>2 DEF Conn!Written
<1>7. Conn!Changed(now, read, fields) = [now EXCEPT !.agent = agent, !.is_active = active, !.config = config]
    BY DEF Conn!Changed
<1> HIDE DEF agent, active, config
<1>8. [now EXCEPT !.agent = agent, !.is_active = active, !.config = config] \in Conn!Connector
    BY <1>3, <1>4, <1>6, Zenon DEF Conn!Connector
<1>9. /\ [now EXCEPT !.agent = agent, !.is_active = active, !.config = config].tenant = now.tenant
      /\ [now EXCEPT !.agent = agent, !.is_active = active, !.config = config].test = now.test
      /\ [now EXCEPT !.agent = agent, !.is_active = active, !.config = config].agent = agent
      /\ [now EXCEPT !.agent = agent, !.is_active = active, !.config = config].is_active = active
      /\ [now EXCEPT !.agent = agent, !.is_active = active, !.config = config].config = config
    BY DEF Conn!Connector
<1> QED
    BY <1>3, <1>5, <1>6, <1>7, <1>8, <1>9

(* What stays of a row whose test is written.                                *)
LEMMA ConnTested ==
    ASSUME NEW c \in Conn!Connector, NEW x \in {"never", "ok", "failed"}
    PROVE  /\ [c EXCEPT !.test = x] \in Conn!Connector
           /\ [c EXCEPT !.test = x].tenant = c.tenant /\ [c EXCEPT !.test = x].agent = c.agent
           /\ [c EXCEPT !.test = x].is_active = c.is_active /\ [c EXCEPT !.test = x].config = c.config
<1>1. [c EXCEPT !.test = x] \in Conn!Connector
    BY Zenon DEF Conn!Connector
<1> QED
    BY <1>1 DEF Conn!Connector

(* What stays of a row whose config is written.                              *)
LEMMA ConnConfigured ==
    ASSUME NEW c \in Conn!Connector,
           NEW k \in [params: ConnParams, schedule: ConnSchedules \cup {Conn!Manual, Conn!None}]
    PROVE  /\ [c EXCEPT !.config = k] \in Conn!Connector
           /\ [c EXCEPT !.config = k].tenant = c.tenant /\ [c EXCEPT !.config = k].agent = c.agent
           /\ [c EXCEPT !.config = k].is_active = c.is_active /\ [c EXCEPT !.config = k].test = c.test
<1>1. [c EXCEPT !.config = k] \in Conn!Connector
    BY Zenon DEF Conn!Connector
<1> QED
    BY <1>1 DEF Conn!Connector

(* A page shows what it showed, but for what is named.                       *)
PageKept(t, d, named) ==
    Conn!GetConnectorDetail(t, d) # Conn!Absent =>
        \A k \in DOMAIN Conn!GetConnectorDetail(t, d) \ named :
            Conn!GetConnectorDetail(t, d)'[k] = Conn!GetConnectorDetail(t, d)[k]

(* The page of a connector, which is there for its tenant.                   *)
LEMMA ConnPage ==
    ASSUME NEW t \in ConnTenants, NEW c \in ConnectorIds, Conn!GetConnectorDetail(t, c) # Conn!Absent
    PROVE  /\ Conn!Owned(t, c) /\ Conn!GetConnectorDetail(t, c) = Conn!ConnectorDict(c)
           /\ DOMAIN Conn!ConnectorDict(c) = {"agent", "is_active", "test", "health"}
BY DEF Conn!GetConnectorDetail, Conn!ConnectorDict

(* What one change of a row shows on pages: the columns that are named.      *)
LEMMA PagesKeep ==
    ASSUME ConnInv, NEW c \in ConnectorIds, NEW row \in Conn!Connector, connectors[c] # Conn!Absent,
           connectors' = [connectors EXCEPT ![c] = row], row.tenant = connectors[c].tenant,
           NEW named,
           "agent" \notin named => row.agent = connectors[c].agent,
           "is_active" \notin named => row.is_active = connectors[c].is_active,
           row.test = connectors[c].test \/ {"test", "health"} \subseteq named,
           NEW t \in ConnTenants, NEW d \in ConnectorIds
    PROVE  PageKept(t, d, named)
<1> SUFFICES ASSUME Conn!GetConnectorDetail(t, d) # Conn!Absent,
                    NEW k \in DOMAIN Conn!GetConnectorDetail(t, d) \ named
             PROVE  Conn!GetConnectorDetail(t, d)'[k] = Conn!GetConnectorDetail(t, d)[k]
    BY DEF PageKept
<1>1. connectors \in [ConnectorIds -> Conn!Connector \cup {Conn!Absent}]
    BY DEF ConnInv, Conn!TypeOK
<1>2. connectors'[c] = row /\ \A e \in ConnectorIds : e # c => connectors'[e] = connectors[e]
    BY <1>1
<1>3. /\ Conn!Owned(t, d) /\ Conn!GetConnectorDetail(t, d) = Conn!ConnectorDict(d)
      /\ k \in {"agent", "is_active", "test", "health"} \ named
    BY ConnPage
<1>4. Conn!Owned(t, d)'
    BY <1>2, <1>3, ConnRowsArePresent DEF Conn!Owned
<1>5. Conn!GetConnectorDetail(t, d)' = Conn!ConnectorDict(d)'
    BY <1>4 DEF Conn!GetConnectorDetail
<1>6. Conn!ConnectorDict(d)'[k] = Conn!ConnectorDict(d)[k]
    <2>1. CASE d # c
        BY <1>2, <2>1 DEF Conn!ConnectorDict, Conn!ComputeHealth
    <2>2. CASE d = c
        <3>1. CASE k = "agent"
            BY <1>2, <1>3, <2>2, <3>1 DEF Conn!ConnectorDict
        <3>2. CASE k = "is_active"
            <4>1. row.is_active = connectors[c].is_active
                BY <1>3, <3>2
            <4>2. connectors'[d].is_active = connectors[d].is_active
                BY <1>2, <2>2, <4>1
            <4>3. /\ Conn!ConnectorDict(d)["is_active"] = connectors[d].is_active
                  /\ Conn!ConnectorDict(d)'["is_active"] = connectors'[d].is_active
                BY DEF Conn!ConnectorDict
            <4> QED
                BY <3>2, <4>2, <4>3, Zenon
        <3>3. CASE k \in {"test", "health"}
            <4>1. connectors'[d].test = connectors[d].test
                BY <1>2, <1>3, <2>2, <3>3
            <4> QED
                BY <3>3, <4>1 DEF Conn!ConnectorDict, Conn!ComputeHealth
        <3> QED
            BY <1>3, <3>1, <3>2, <3>3
    <2> QED
        BY <2>1, <2>2
<1> QED
    BY <1>3, <1>5, <1>6

(* Agent a is told of connector d.                                           *)
Tells(a, d) == /\ connectors[d].tenant = ConnAgentTenant[a] /\ connectors[d].agent = a
               /\ connectors[d].is_active

(* What is told of is what is selected.                                      *)
LEMMA ToldIds ==
    ASSUME NEW rows, NEW S, NEW d
    PROVE  (\E x \in {[id |-> c, config |-> rows[c].config] : c \in S} : x.id = d) <=> d \in S
<1> DEFINE all == {[id |-> c, config |-> rows[c].config] : c \in S}
<1>1. ASSUME d \in S PROVE \E x \in all : x.id = d
    <2>1. [id |-> d, config |-> rows[d].config] \in all
        BY <1>1
    <2>2. [id |-> d, config |-> rows[d].config].id = d
        OBVIOUS
    <2> HIDE DEF all
    <2> QED
        BY <2>1, <2>2, Zenon
<1>2. ASSUME NEW x \in all, x.id = d PROVE d \in S
    <2>1. PICK c \in S : x = [id |-> c, config |-> rows[c].config]
        OBVIOUS
    <2> QED
        BY <1>2, <2>1
<1> QED
    BY <1>1, <1>2

(* The agents that are told of a connector follow from three of its columns. *)
LEMMA ToldKept ==
    ASSUME NEW d \in ConnectorIds, connectors[d] # Conn!Absent, connectors'[d] # Conn!Absent,
           connectors'[d].tenant = connectors[d].tenant, connectors'[d].agent = connectors[d].agent,
           connectors'[d].is_active = connectors[d].is_active
    PROVE  Conn!ToldOf(d)' = Conn!ToldOf(d)
<1>1. ASSUME NEW a \in ConnAgents
      PROVE  (\E x \in Conn!AgentConfig(a) : x.id = d) <=> Tells(a, d)
    <2> DEFINE told == {c \in Conn!Rows : connectors[c].tenant = ConnAgentTenant[a]
                        /\ connectors[c].agent = a /\ connectors[c].is_active}
    <2>1. Tells(a, d) <=> d \in told
        BY Zenon DEF Tells, Conn!Rows
    <2>2. Conn!AgentConfig(a) = {[id |-> c, config |-> connectors[c].config] : c \in told}
        BY DEF Conn!AgentConfig
    <2> HIDE DEF told
    <2>3. (\E x \in {[id |-> c, config |-> connectors[c].config] : c \in told} : x.id = d) <=> d \in told
        BY ToldIds
    <2> QED
        BY <2>1, <2>2, <2>3, Zenon
<1>2. ASSUME NEW a \in ConnAgents
      PROVE  (\E x \in Conn!AgentConfig(a)' : x.id = d) <=> Tells(a, d)'
    <2> DEFINE told == {c \in Conn!Rows' : connectors'[c].tenant = ConnAgentTenant[a]
                        /\ connectors'[c].agent = a /\ connectors'[c].is_active}
    <2>1. Tells(a, d)' <=> d \in told
        BY Zenon DEF Tells, Conn!Rows
    <2>2. Conn!AgentConfig(a)' = {[id |-> c, config |-> connectors'[c].config] : c \in told}
        BY DEF Conn!AgentConfig
    <2> HIDE DEF told
    <2>3. (\E x \in {[id |-> c, config |-> connectors'[c].config] : c \in told} : x.id = d) <=> d \in told
        BY ToldIds
    <2> QED
        BY <2>1, <2>2, <2>3, Zenon
<1>3. \A a \in ConnAgents : Tells(a, d)' <=> Tells(a, d)
    BY Zenon DEF Tells
<1> QED
    BY <1>1, <1>2, <1>3, Zenon DEF Conn!ToldOf

(* A row that stays as it is keeps its page, its config and who is told.     *)
LEMMA Untouched ==
    ASSUME NEW d \in Conn!Rows, connectors'[d] = connectors[d], NEW names
    PROVE  Conn!EditKept(d, names)
<1>1. d \in ConnectorIds /\ connectors[d] # Conn!Absent
    BY DEF Conn!Rows
<1>2. ASSUME NEW t \in ConnTenants
      PROVE  Conn!GetConnectorDetail(t, d)' = Conn!GetConnectorDetail(t, d)
    BY DEF Conn!GetConnectorDetail, Conn!Owned, Conn!ConnectorDict, Conn!ComputeHealth
<1>3. Conn!ToldOf(d)' = Conn!ToldOf(d)
    BY <1>1, ToldKept
<1> QED
    BY <1>2, <1>3 DEF Conn!EditKept

(* A step that changes no connector undoes no edit.                          *)
LEMMA Unedited ==
    ASSUME ConnInv, UNCHANGED connectors
    PROVE  Conn!EditSurvives
<1>1. \A c \in deletedConnectors : connectors'[c] = Conn!Absent
    BY DEF ConnInv, DeletedGone
<1>2. ASSUME NEW h \in ConnHandlers, NEW c \in Conn!Rows
      PROVE  Conn!EditKept(c, Conn!Named(connFlight[h], c))
    BY Untouched
<1> QED
    BY <1>1, <1>2 DEF Conn!EditSurvives

(* A handler that ends ends alone.                                           *)
LEMMA OneEnds ==
    ASSUME ConnInv, NEW g \in ConnHandlers, connFlight' = [connFlight EXCEPT ![g] = Conn!Idle],
           NEW h \in ConnHandlers, Conn!Ends(h)
    PROVE  h = g
<1>1. connFlight[h] # Conn!Idle /\ connFlight'[h] = Conn!Idle
    BY DEF Conn!Ends, Conn!Idle
<1> QED
    BY <1>1, ConnEnds

(* A handler changes a row, in the columns that its request names.           *)
LEMMA EditStep ==
    ASSUME ConnInv, NEW g \in ConnHandlers, connFlight' = [connFlight EXCEPT ![g] = Conn!Idle],
           NEW c \in ConnectorIds, NEW row \in Conn!Connector, connectors[c] # Conn!Absent,
           connectors' = [connectors EXCEPT ![c] = row], row.tenant = connectors[c].tenant,
           UNCHANGED deletedConnectors,
           beatSchedule' \in Beats,
           NEW named, named = Conn!Named(connFlight[g], c),
           "agent" \notin named => row.agent = connectors[c].agent,
           "is_active" \notin named => row.is_active = connectors[c].is_active,
           row.test = connectors[c].test \/ {"test", "health"} \subseteq named,
           "params" \notin named => row.config = connectors[c].config
    PROVE  ConnInv' /\ Conn!EditSurvives
<1>1. ConnInv'
    <2>1. connectors' \in [ConnectorIds -> Conn!Connector \cup {Conn!Absent}] /\ DeletedGone'
        BY ConnChanged
    <2>2. deletedConnectors' \subseteq ConnectorIds
        BY DEF ConnInv, Conn!TypeOK, Beats
    <2> QED
        BY <2>1, <2>2, ConnEnds DEF ConnInv, Conn!TypeOK, Beats
<1>2. \A d \in deletedConnectors : connectors'[d] = Conn!Absent
    BY <1>1 DEF ConnInv, DeletedGone
<1>3. /\ connectors'[c] = row /\ row # Conn!Absent
      /\ \A d \in ConnectorIds : d # c => connectors'[d] = connectors[d]
    BY ConnRowsArePresent DEF ConnInv, Conn!TypeOK
<1>4. Conn!EditKept(c, named)
    <2>1. \A t \in ConnTenants : PageKept(t, c, named)
        BY PagesKeep
    <2>2. "params" \notin named => connectors'[c].config = connectors[c].config
        BY <1>3
    <2>3. named \cap {"agent", "is_active"} = {} => Conn!ToldOf(c)' = Conn!ToldOf(c)
        <3> SUFFICES ASSUME named \cap {"agent", "is_active"} = {} PROVE Conn!ToldOf(c)' = Conn!ToldOf(c)
            OBVIOUS
        <3>1. row.agent = connectors[c].agent
            BY Zenon
        <3>2. row.is_active = connectors[c].is_active
            BY Zenon
        <3> QED
            BY <1>3, <3>1, <3>2, ToldKept
    <2> QED
        BY <2>1, <2>2, <2>3 DEF PageKept, Conn!EditKept
<1>5. ASSUME NEW h \in ConnHandlers, Conn!Ends(h), NEW d \in Conn!Rows
      PROVE  Conn!EditKept(d, Conn!Named(connFlight[h], d))
    <2>1. CASE d = c
        BY <1>4, <1>5, <2>1, OneEnds
    <2>2. CASE d # c
        BY <1>3, <2>2, Untouched DEF Conn!Rows
    <2> QED
        BY <2>1, <2>2
<1> QED
    BY <1>1, <1>2, <1>5 DEF Conn!EditSurvives

(* Handlers that change a connector that was there.                          *)
LEMMA ConnUpdateStep ==
    ASSUME ConnInv, NEW h \in ConnHandlers, Conn!Update(h)
    PROVE  ConnInv' /\ Conn!EditSurvives
<1> DEFINE f == connFlight[h]
           c == f.q.id
           row == Conn!Changed(connectors[c], f.row, f.q.fields)
           named == Conn!Named(f, c)
<1>1. /\ f # Conn!Idle /\ f.op = "update" /\ connFlight' = [connFlight EXCEPT ![h] = Conn!Idle]
      /\ connectors[c] # Conn!Absent /\ connectors' = [connectors EXCEPT ![c] = row]
      /\ UNCHANGED <<beatSchedule, deletedConnectors>>
    BY DEF Conn!Update, Conn!Serve, Conn!Accepts, Conn!Idle
<1>2. c \in ConnectorIds /\ f.q.fields \in Conn!Fields /\ f.row \in Conn!Connector
    BY <1>1, ConnServed, ConnFields
<1>3. connectors[c] \in Conn!Connector
    BY <1>1, <1>2 DEF ConnInv, Conn!TypeOK
<1>4. named = DOMAIN f.q.fields
    BY <1>1 DEF Conn!Named
<1>5. /\ row \in Conn!Connector /\ row.tenant = connectors[c].tenant /\ row.test = connectors[c].test
      /\ "agent" \notin named => row.agent = connectors[c].agent
      /\ "is_active" \notin named => row.is_active = connectors[c].is_active
      /\ "params" \notin named => row.config = connectors[c].config
    BY <1>2, <1>3, <1>4, ConnUpdated
<1>6. beatSchedule' \in Beats
    BY <1>1 DEF ConnInv, Conn!TypeOK, Beats
<1>7. named = Conn!Named(connFlight[h], c)
    OBVIOUS
<1> HIDE DEF row, named, c
<1> QED
    BY <1>1, <1>2, <1>5, <1>6, <1>7, EditStep

(* A test writes its result.                                                 *)
LEMMA ConnTestStep ==
    ASSUME ConnInv, NEW h \in ConnHandlers, Conn!Test(h)
    PROVE  ConnInv' /\ Conn!EditSurvives
<1> DEFINE f == connFlight[h]
           c == f.q.id
           test == Conn!Written(connectors[c].test, f.row.test, f.q.result)
           row == [connectors[c] EXCEPT !.test = test]
           named == Conn!Named(f, c)
<1>1. /\ f # Conn!Idle /\ f.op = "test" /\ connFlight' = [connFlight EXCEPT ![h] = Conn!Idle]
      /\ connectors[c] # Conn!Absent /\ connectors' = [connectors EXCEPT ![c].test = test]
      /\ UNCHANGED <<beatSchedule, deletedConnectors>>
    BY DEF Conn!Test, Conn!Serve, Conn!Accepts, Conn!Idle
<1>2. c \in ConnectorIds /\ f.q.result \in {"ok", "failed"}
    BY <1>1, ConnServed, ConnFields
<1>3. connectors[c] \in Conn!Connector
    BY <1>1, <1>2 DEF ConnInv, Conn!TypeOK
<1>4. test \in {"never", "ok", "failed"}
    BY <1>2, <1>3 DEF Conn!Written, Conn!Connector
<1>5. connectors' = [connectors EXCEPT ![c] = row]
    BY <1>1
<1> HIDE DEF test
<1>6. /\ row \in Conn!Connector /\ row.tenant = connectors[c].tenant /\ row.agent = connectors[c].agent
      /\ row.is_active = connectors[c].is_active /\ row.config = connectors[c].config
    BY <1>3, <1>4, ConnTested
<1>7. {"test", "health"} \subseteq named /\ named = Conn!Named(connFlight[h], c)
    BY <1>1 DEF Conn!Named
<1>8. beatSchedule' \in Beats
    BY <1>1 DEF ConnInv, Conn!TypeOK, Beats
<1> HIDE DEF row, named, c
<1>9. /\ UNCHANGED deletedConnectors /\ row.tenant = connectors[c].tenant /\ row \in Conn!Connector
      /\ connFlight' = [connFlight EXCEPT ![h] = Conn!Idle] /\ connectors[c] # Conn!Absent
      /\ "params" \notin named => row.config = connectors[c].config
    BY <1>1, <1>6
<1>10. /\ "agent" \notin named => row.agent = connectors[c].agent
       /\ "is_active" \notin named => row.is_active = connectors[c].is_active
    BY <1>6, Zenon
<1> QED
    BY <1>2, <1>5, <1>7, <1>8, <1>9, <1>10, EditStep

(* A step that ends requests, or takes one, and changes no connector.        *)
LEMMA ConnKept ==
    ASSUME ConnInv, UNCHANGED <<connectors, deletedConnectors>>,
           connFlight' \in [ConnHandlers -> {Conn!Idle} \cup Conn!Served], ConnAsked',
           beatSchedule' \in Beats
    PROVE  ConnInv' /\ Conn!EditSurvives
<1>1. ConnInv'
    BY DEF ConnInv, Conn!TypeOK, Beats, DeletedGone
<1> QED
    BY <1>1, Unedited

(* The entry of Beat has its types.                                          *)
LEMMA Registered ==
    ASSUME ConnInv, NEW q \in Conn!Requests, q.op = "schedule", Conn!Register(q)
    PROVE  beatSchedule' \in Beats
<1> DEFINE entry == IF q.schedule = Conn!Manual THEN Conn!Absent
                    ELSE [interval |-> q.schedule, tenant |-> q.tenant]
<1>1. beatSchedule' = [beatSchedule EXCEPT ![q.id] = entry]
    BY DEF Conn!Register
<1>2. entry \in [interval: ConnSchedules, tenant: ConnTenants] \cup {Conn!Absent}
    BY ConnFields
<1> HIDE DEF entry
<1> QED
    BY <1>1, <1>2 DEF ConnInv, Conn!TypeOK, Beats

(* A new schedule is written with the config that was read.                  *)
LEMMA ConnScheduleStep ==
    ASSUME ConnInv, NEW h \in ConnHandlers, Conn!SetScanSchedule(h)
    PROVE  ConnInv' /\ Conn!EditSurvives
<1> DEFINE f == connFlight[h]
           c == f.q.id
           config == Conn!Written(connectors[c].config, f.row.config, Conn!Rescheduled(f))
           row == [connectors[c] EXCEPT !.config = config]
           named == Conn!Named(f, c)
<1>1. /\ f # Conn!Idle /\ f.op = "schedule" /\ connFlight' = [connFlight EXCEPT ![h] = Conn!Idle]
      /\ connectors[c] = Conn!Absent => UNCHANGED connectors
      /\ connectors[c] # Conn!Absent => connectors' = [connectors EXCEPT ![c].config = config]
      /\ Conn!Register(f.q) /\ UNCHANGED deletedConnectors
    BY DEF Conn!SetScanSchedule, Conn!Serve, Conn!Idle
<1>2. /\ c \in ConnectorIds /\ f.q.schedule \in ConnSchedules \cup {Conn!Manual} /\ f.row \in Conn!Connector
      /\ f.q \in Conn!Requests /\ f.q.op = "schedule"
    BY <1>1, ConnServed, ConnFields
<1>3. beatSchedule' \in Beats
    BY <1>1, <1>2, Registered
<1>4. CASE connectors[c] = Conn!Absent
    BY <1>1, <1>3, <1>4, ConnEnds, ConnKept
<1>5. CASE connectors[c] # Conn!Absent
    <2>1. connectors[c] \in Conn!Connector
        BY <1>2, <1>5 DEF ConnInv, Conn!TypeOK
    <2>2. connectors' = [connectors EXCEPT ![c] = row]
        BY <1>1, <1>5
    <2>3. config \in [params: ConnParams, schedule: ConnSchedules \cup {Conn!Manual, Conn!None}]
        BY <1>2, <2>1 DEF Conn!Written, Conn!Rescheduled, Conn!Connector
    <2> HIDE DEF config
    <2>4. /\ row \in Conn!Connector /\ row.tenant = connectors[c].tenant /\ row.agent = connectors[c].agent
          /\ row.is_active = connectors[c].is_active /\ row.test = connectors[c].test
        BY <2>1, <2>3, ConnConfigured
    <2>5. "params" \in named /\ named = Conn!Named(connFlight[h], c)
        BY <1>1 DEF Conn!Named
    <2> HIDE DEF row, named, c
    <2>6. /\ UNCHANGED deletedConnectors /\ connFlight' = [connFlight EXCEPT ![h] = Conn!Idle]
          /\ row \in Conn!Connector /\ row.tenant = connectors[c].tenant /\ row.test = connectors[c].test
        BY <1>1, <2>4
    <2>7. /\ "agent" \notin named => row.agent = connectors[c].agent
          /\ "is_active" \notin named => row.is_active = connectors[c].is_active
        BY <2>4, Zenon
    <2> QED
        BY <1>2, <1>3, <1>5, <2>2, <2>5, <2>6, <2>7, EditStep
<1> QED
    BY <1>4, <1>5

(* A connector that is created or deleted is nobody's edit.                  *)
LEMMA NoEdit ==
    ASSUME ConnInv, NEW g \in ConnHandlers, connFlight' = [connFlight EXCEPT ![g] = Conn!Idle],
           connFlight[g].op \in {"create", "delete"}, DeletedGone', deletedConnectors \subseteq deletedConnectors'
    PROVE  Conn!EditSurvives
<1>1. \A c \in deletedConnectors : connectors'[c] = Conn!Absent
    BY DEF DeletedGone
<1>2. \A h \in ConnHandlers : ~Conn!Ends(h)
    BY OneEnds DEF Conn!Ends
<1> QED
    BY <1>1, <1>2 DEF Conn!EditSurvives

(* A new connector has an id that no deleted one had.                        *)
LEMMA ConnCreateStep ==
    ASSUME ConnInv, NEW h \in ConnHandlers, Conn!Create(h)
    PROVE  ConnInv' /\ Conn!EditSurvives
<1> DEFINE q == connFlight[h].q
           row == [tenant |-> q.tenant, agent |-> q.agent, is_active |-> TRUE, test |-> "never",
                   config |-> [params |-> q.params, schedule |-> Conn!None]]
<1>1. /\ connFlight[h] # Conn!Idle /\ connFlight[h].op = "create"
      /\ connFlight' = [connFlight EXCEPT ![h] = Conn!Idle] /\ UNCHANGED <<beatSchedule, deletedConnectors>>
      /\ \E c \in ConnectorIds \ (Conn!Rows \cup deletedConnectors) : connectors' = [connectors EXCEPT ![c] = row]
    <2>1. \E c \in ConnectorIds \ (Conn!Rows \cup deletedConnectors) : connectors' = [connectors EXCEPT ![c] = row]
        BY Zenon DEF Conn!Create
    <2>2. /\ connFlight[h].op = "create" /\ connFlight' = [connFlight EXCEPT ![h] = Conn!Idle]
          /\ UNCHANGED <<beatSchedule, deletedConnectors>>
        BY DEF Conn!Create, Conn!Serve
    <2>3. connFlight[h] # Conn!Idle
        BY <2>2 DEF Conn!Idle
    <2> QED
        BY <2>1, <2>2, <2>3, Zenon
<1>2. q.tenant \in ConnTenants /\ q.agent \in ConnAgents \cup {Conn!None} /\ q.params \in ConnParams
    BY <1>1, ConnServed, ConnFields
<1>3. row \in Conn!Connector
    BY <1>2 DEF Conn!Connector
<1> HIDE DEF row
<1>4. PICK c \in ConnectorIds \ deletedConnectors : connectors' = [connectors EXCEPT ![c] = row]
    BY <1>1
<1>5. /\ connectors \in [ConnectorIds -> Conn!Connector \cup {Conn!Absent}]
      /\ beatSchedule \in Beats
      /\ deletedConnectors \subseteq ConnectorIds /\ DeletedGone
    BY DEF ConnInv, Conn!TypeOK, Beats
<1>6. connectors' \in [ConnectorIds -> Conn!Connector \cup {Conn!Absent}] /\ DeletedGone'
    BY <1>1, <1>3, <1>4, <1>5 DEF DeletedGone
<1>7. ConnInv'
    BY <1>1, <1>5, <1>6, ConnEnds DEF ConnInv, Conn!TypeOK, Beats
<1> QED
    BY <1>1, <1>6, <1>7, NoEdit

(* A deleted connector is gone, and remembered.                              *)
LEMMA ConnDeleteStep ==
    ASSUME ConnInv, NEW h \in ConnHandlers, Conn!Delete(h)
    PROVE  ConnInv' /\ Conn!EditSurvives
<1> DEFINE c == connFlight[h].q.id
<1>1. /\ connFlight[h] # Conn!Idle /\ connFlight[h].op = "delete"
      /\ connFlight' = [connFlight EXCEPT ![h] = Conn!Idle] /\ UNCHANGED beatSchedule
      /\ connectors' = [connectors EXCEPT ![c] = Conn!Absent] /\ deletedConnectors' = deletedConnectors \cup {c}
    BY DEF Conn!Delete, Conn!Serve, Conn!Idle
<1>2. c \in ConnectorIds
    BY <1>1, ConnServed, ConnFields
<1> HIDE DEF c
<1>3. /\ connectors \in [ConnectorIds -> Conn!Connector \cup {Conn!Absent}]
      /\ beatSchedule \in Beats
      /\ deletedConnectors \subseteq ConnectorIds /\ DeletedGone
    BY DEF ConnInv, Conn!TypeOK, Beats
<1>4. connectors' \in [ConnectorIds -> Conn!Connector \cup {Conn!Absent}] /\ DeletedGone'
    BY <1>1, <1>2, <1>3 DEF DeletedGone
<1>5. ConnInv'
    BY <1>1, <1>2, <1>3, <1>4, ConnEnds DEF ConnInv, Conn!TypeOK, Beats
<1> QED
    BY <1>1, <1>4, <1>5, NoEdit

(* A request that is refused has changed at most the entry of Beat.          *)
LEMMA ConnRefuseStep ==
    ASSUME ConnInv, NEW h \in ConnHandlers, Conn!Refuse(h)
    PROVE  ConnInv' /\ Conn!EditSurvives
<1>1. /\ connFlight[h] # Conn!Idle /\ connFlight' = [connFlight EXCEPT ![h] = Conn!Idle]
      /\ UNCHANGED <<connectors, deletedConnectors>>
      /\ \/ connFlight[h].op = "schedule" /\ Conn!Register(connFlight[h].q)
         \/ UNCHANGED beatSchedule
    BY DEF Conn!Refuse
<1>2. beatSchedule' \in Beats
    <2>1. CASE connFlight[h].op = "schedule" /\ Conn!Register(connFlight[h].q)
        BY <1>1, <2>1, ConnServed, Registered
    <2>2. CASE UNCHANGED beatSchedule
        BY <2>2 DEF ConnInv, Conn!TypeOK, Beats
    <2> QED
        BY <1>1, <2>1, <2>2
<1> QED
    BY <1>1, <1>2, ConnEnds, ConnKept

(* A request reads its connector, which is there.                            *)
LEMMA ConnArriveStep ==
    ASSUME ConnInv, NEW h \in ConnHandlers, NEW q \in Conn!Requests, Conn!Arrive(h, q)
    PROVE  ConnInv' /\ Conn!EditSurvives
<1> DEFINE row == IF q.op = "create" THEN Conn!Absent ELSE connectors[q.id]
           f == [op |-> q.op, q |-> q, row |-> row]
<1>1. /\ Conn!Allowed(q) /\ connFlight' = [connFlight EXCEPT ![h] = f]
      /\ UNCHANGED <<connectors, beatSchedule, deletedConnectors>>
    BY DEF Conn!Arrive
<1>2. /\ q.op \in {"create", "update", "delete", "test", "schedule"}
      /\ q.op # "create" => row \in Conn!Connector
    BY <1>1, ConnFields DEF Conn!Allowed, Conn!Owned, ConnInv, Conn!TypeOK
<1>3. f \in Conn!Served /\ f.op = f.q.op
    BY <1>2 DEF Conn!Served
<1> HIDE DEF f
<1>4. connFlight' \in [ConnHandlers -> {Conn!Idle} \cup Conn!Served] /\ ConnAsked'
    BY <1>1, <1>3 DEF ConnInv, Conn!TypeOK, ConnAsked, Conn!Idle
<1>5. beatSchedule' \in Beats
    BY <1>1 DEF ConnInv, Conn!TypeOK, Beats
<1> QED
    BY <1>1, <1>4, <1>5, ConnKept

(* However requests on connectors overlap, and whatever rows they had read,  *)
(* a commit changes only what its request names (connectors_full.py:168-172),*)
(* on the pages and in what agents are told, and nothing brings a deleted    *)
(* connector back.                                                           *)
THEOREM ConnectorEditsSurvive ==
    Conn!Spec => EditsSurvive
<1>1. Conn!Init => ConnInv
    BY DEF Conn!Init, ConnInv, Conn!TypeOK, Beats, ConnAsked, DeletedGone
<1>2. ConnInv /\ [Conn!Next]_(Conn!vars) => ConnInv' /\ Conn!EditSurvives
    <2> SUFFICES ASSUME ConnInv, [Conn!Next]_(Conn!vars) PROVE ConnInv' /\ Conn!EditSurvives
        OBVIOUS
    <2>1. beatSchedule \in Beats
        BY DEF ConnInv, Conn!TypeOK, Beats
    <2>2. CASE UNCHANGED Conn!vars
        <3>1. UNCHANGED <<connectors, beatSchedule, connFlight, deletedConnectors>>
            BY <2>2 DEF Conn!vars
        <3>2. connFlight' \in [ConnHandlers -> {Conn!Idle} \cup Conn!Served] /\ ConnAsked'
            BY <3>1 DEF ConnInv, Conn!TypeOK, ConnAsked
        <3> QED
            BY <2>1, <3>1, <3>2, ConnKept
    <2>3. CASE Conn!Restart
        <3>1. /\ UNCHANGED <<connectors, deletedConnectors>> /\ ConnAsked'
              /\ connFlight' \in [ConnHandlers -> {Conn!Idle} \cup Conn!Served]
              /\ beatSchedule' \in Beats
            BY <2>3 DEF Conn!Restart, ConnAsked, Beats
        <3> QED
            BY <3>1, ConnKept
    <2>4. ASSUME NEW h \in ConnHandlers, Conn!Handler(h)
          PROVE  ConnInv' /\ Conn!EditSurvives
        BY <2>4, ConnCreateStep, ConnUpdateStep, ConnDeleteStep, ConnTestStep, ConnScheduleStep,
           ConnRefuseStep DEF Conn!Handler
    <2>5. ASSUME NEW h \in ConnHandlers, NEW q \in Conn!Requests, Conn!Arrive(h, q)
          PROVE  ConnInv' /\ Conn!EditSurvives
        BY <2>5, ConnArriveStep
    <2> QED
        BY <2>2, <2>3, <2>4, <2>5 DEF Conn!Next
<1> QED
    BY <1>1, <1>2, PTL DEF Conn!Spec, EditsSurvive, Conn!EditsSurvive

----------------------------------------------------------------------------
(* Fleets of agents *)

(* Each fleet has its entries, whatever else it has.                         *)
FleetInv == /\ fleetTelemetry \in [Fleets -> Seq(Fleet!Entry)]
            /\ newestProbes = [f \in Fleets |-> newestProbes[f]]

(* Trimming keeps the newest entry.                                          *)
LEMMA NewestIsKept ==
    ASSUME NEW s \in Seq(Fleet!Entry), NEW e \in Fleet!Entry
    PROVE  /\ Fleet!Keep(Append(s, e)) \in Seq(Fleet!Entry)
           /\ Len(Fleet!Keep(Append(s, e))) > 0
           /\ Fleet!Keep(Append(s, e))[Len(Fleet!Keep(Append(s, e)))] = e
<1> DEFINE all == Append(s, e)
           last == SubSeq(all, Len(all) - MaxTelemetry + 1, Len(all))
<1>1. all \in Seq(Fleet!Entry) /\ Len(all) > 0 /\ all[Len(all)] = e /\ Len(all) \in Nat
    OBVIOUS
<1>2. MaxTelemetry \in Nat /\ MaxTelemetry > 0
    BY FleetAssumption DEF FleetAssumption
<1> HIDE DEF all
<1>3. CASE Len(all) > MaxTelemetry
    <2>1. Len(all) - MaxTelemetry + 1 \in 1..Len(all)
        BY <1>1, <1>2, <1>3
    <2>2. last \in Seq(Fleet!Entry)
        BY <1>1, <1>2, <2>1
    <2>3. Len(last) = MaxTelemetry
        BY <1>1, <1>2, <2>1
    <2>4. last[MaxTelemetry] = all[Len(all)]
        <3>1. /\ all \in Seq(Fleet!Entry) /\ Len(all) \in Nat /\ MaxTelemetry \in 1..Len(all)
              /\ (Len(all) - MaxTelemetry + 1) + MaxTelemetry - 1 = Len(all)
            BY <1>1, <1>2, <1>3
        <3> QED
            BY ONLY <3>1
    <2> HIDE DEF last
    <2>5. last[Len(last)] = all[Len(all)]
        BY <1>1, <1>2, <2>3, <2>4
    <2> QED
        <3>1. Fleet!Keep(all) = last
            BY <1>3 DEF Fleet!Keep, Fleet!LastN, last
        <3>2. /\ Fleet!Keep(all) \in Seq(Fleet!Entry) /\ Len(Fleet!Keep(all)) > 0
              /\ Fleet!Keep(all)[Len(Fleet!Keep(all))] = e
            BY <1>1, <1>2, <2>2, <2>3, <2>5, <3>1
        <3> QED
            BY ONLY <3>2 DEF all
<1>4. CASE ~(Len(all) > MaxTelemetry)
    BY <1>1, <1>4 DEF Fleet!Keep, all
<1> QED
    BY <1>3, <1>4

(* A submission becomes the newest entry, and of its pair alone.             *)
LEMMA SubmitShows ==
    ASSUME FleetInv, Fleet!SubmitTelemetry
    PROVE  FleetInv' /\ Fleet!ReachedShows
<1>1. PICK f \in Fleets, e \in Fleet!Entry :
          /\ fleetTelemetry' = [fleetTelemetry EXCEPT ![f] = Fleet!Keep(Append(@, e))]
          /\ newestProbes' = [newestProbes EXCEPT ![f] =
               [p \in DOMAIN @ \cup {Fleet!Pair(e)} |-> IF p = Fleet!Pair(e) THEN e ELSE @[p]]]
    BY DEF Fleet!SubmitTelemetry
<1> DEFINE s == Fleet!Keep(Append(fleetTelemetry[f], e))
<1>2. s \in Seq(Fleet!Entry) /\ Len(s) > 0 /\ s[Len(s)] = e
    BY NewestIsKept DEF FleetInv
<1>3. fleetTelemetry' \in [Fleets -> Seq(Fleet!Entry)] /\ fleetTelemetry'[f] = s
    BY <1>1, <1>2 DEF FleetInv
<1>4. /\ newestProbes' = [g \in Fleets |-> newestProbes'[g]]
      /\ \A g \in Fleets : g # f => newestProbes'[g] = newestProbes[g]
      /\ DOMAIN newestProbes'[f] = DOMAIN newestProbes[f] \cup {Fleet!Pair(e)}
      /\ \A p \in DOMAIN newestProbes'[f] :
            newestProbes'[f][p] = IF p = Fleet!Pair(e) THEN e ELSE newestProbes[f][p]
    BY <1>1 DEF FleetInv
<1> HIDE DEF s
<1>5. ASSUME e.probe.reachable
      PROVE  /\ Fleet!Pair(e) \in Fleet!Mesh(f)'
             /\ e.probe.peer \in Fleet!PeerLatency(f, e.from)'
    <2>1. Len(s) \in 1..Len(s) /\ \A j \in Len(s) + 1..Len(s) : FALSE
        BY <1>2
    <2> QED
        BY <1>2, <1>3, <1>5, <2>1 DEF Fleet!Mesh, Fleet!PeerLatency
<1>6. Fleet!ReachedShows
    <2> SUFFICES ASSUME NEW g \in Fleets, NEW p \in DOMAIN newestProbes'[g], Fleet!BecameReachable(g, p)
                 PROVE  Fleet!Shown(g, p)'
        BY DEF Fleet!ReachedShows, Fleet!Rows
    <2>1. /\ p \notin DOMAIN newestProbes[g] \/ newestProbes'[g][p] # newestProbes[g][p]
          /\ newestProbes'[g][p].probe.reachable
        BY DEF Fleet!BecameReachable
    <2>2. g = f /\ p = Fleet!Pair(e) /\ newestProbes'[g][p] = e
        BY <1>4, <2>1
    <2>3. Fleet!Pair(e) \in Fleet!Mesh(f)' /\ e.probe.peer \in Fleet!PeerLatency(f, e.from)'
        BY <1>5, <2>1, <2>2
    <2> QED
        BY <2>2, <2>3, Zenon DEF Fleet!Shown
<1> QED
    BY <1>3, <1>4, <1>6 DEF FleetInv

(* Trimming the telemetry (fleet.py:237) never loses what was just           *)
(* submitted: a pair that has become reachable is at once in the mesh, and   *)
(* the peer on the member's page, however many entries are kept.             *)
THEOREM ReachableIsAtOnceShown ==
    Fleet!Spec => ReachableIsShown
<1>1. Fleet!Init => FleetInv
    BY DEF Fleet!Init, FleetInv
<1>2. FleetInv /\ [Fleet!Next]_(Fleet!vars) => FleetInv' /\ [Fleet!ReachedShows]_(Fleet!vars)
    <2> SUFFICES ASSUME FleetInv, [Fleet!Next]_(Fleet!vars) PROVE FleetInv' /\ [Fleet!ReachedShows]_(Fleet!vars)
        OBVIOUS
    <2>1. ASSUME UNCHANGED newestProbes
          PROVE  Fleet!ReachedShows
        BY <2>1 DEF Fleet!ReachedShows, Fleet!BecameReachable
    <2>0. <<>> \in Seq(Fleet!Entry)
        OBVIOUS
    <2>2. CASE UNCHANGED Fleet!vars
        BY <2>2 DEF Fleet!vars, FleetInv
    <2>3. CASE Fleet!CreateFleet \/ Fleet!UpdateFleet \/ Fleet!AssignConnectors
        <3>1. /\ UNCHANGED newestProbes
              /\ \/ UNCHANGED fleetTelemetry
                 \/ \E f \in Fleets : fleetTelemetry' = [fleetTelemetry EXCEPT ![f] = <<>>]
            BY <2>3 DEF Fleet!CreateFleet, Fleet!UpdateFleet, Fleet!AssignConnectors, Fleet!Rows
        <3>2. FleetInv'
            BY <2>0, <3>1 DEF FleetInv
        <3> QED
            BY <2>1, <3>1, <3>2
    <2>4. CASE Fleet!DeleteFleet
        <3>1. PICK f \in Fleets : /\ fleetTelemetry' = [fleetTelemetry EXCEPT ![f] = <<>>]
                                  /\ newestProbes' = [newestProbes EXCEPT ![f] = <<>>]
            BY <2>4 DEF Fleet!DeleteFleet
        <3>2. FleetInv'
            BY <2>0, <3>1 DEF FleetInv
        <3>3. newestProbes'[f] = <<>> /\ \A g \in Fleets : g # f => newestProbes'[g] = newestProbes[g]
            BY <2>0, <3>1 DEF FleetInv
        <3> QED
            BY <3>2, <3>3 DEF Fleet!ReachedShows, Fleet!BecameReachable, Fleet!Rows
    <2>5. CASE Fleet!Restart
        BY <2>5 DEF Fleet!Restart, FleetInv, Fleet!ReachedShows, Fleet!Rows
    <2>6. CASE Fleet!SubmitTelemetry
        BY <2>6, SubmitShows
    <2> QED
        BY <2>2, <2>3, <2>4, <2>5, <2>6 DEF Fleet!Next
<1> QED
    BY <1>1, <1>2, PTL DEF Fleet!Spec, ReachableIsShown, Fleet!ReachableIsShown

----------------------------------------------------------------------------
(* Streams of query results *)

(* Some number of a set of them is the least.                                *)
LEMMA LeastNumber ==
    ASSUME NEW C \in SUBSET Nat, C # {}
    PROVE  \E k \in C : \A m \in C : k <= m
<1>1. PICK n \in C : TRUE
    OBVIOUS
<1> DEFINE D == {1..k : k \in {m \in C : m <= n}}
<1>2. IsFiniteSet(1..n)
    BY FS_Interval
<1>3. D \in SUBSET SUBSET (1..n) /\ D # {}
    <2>1. \A k \in Nat : k <= n => 1..k \subseteq 1..n
        OBVIOUS
    <2>2. 1..n \in D
        BY <1>1
    <2> QED
        BY <2>1, <2>2
<1> HIDE DEF D
<1>4. PICK T \in D : \A U \in D : U \subseteq T => U = T
    <2> DEFINE S == 1..n
    <2>1. IsFiniteSet(S) /\ D \in SUBSET SUBSET S /\ D # {}
        BY <1>2, <1>3
    <2> HIDE DEF S
    <2>2. IsWellFoundedOn(StrictSubsetOrdering(S), FiniteSubsetsOf(S)) /\ D \subseteq FiniteSubsetsOf(S)
        BY <2>1, FS_StrictSubsetOrderingWellFounded, FS_FiniteSubsetsOfFinite
    <2>3. PICK T \in D : \A U \in D : <<U, T>> \notin StrictSubsetOrdering(S)
        BY <2>1, <2>2, WFMin
    <2>4. ASSUME NEW U \in D, U \subseteq T, U # T PROVE FALSE
        <3>1. <<U, T>> \in (SUBSET S) \X (SUBSET S)
            BY <2>1
        <3> QED
            BY <2>3, <2>4, <3>1 DEF StrictSubsetOrdering
    <2> QED
        BY <2>4
<1>5. PICK k \in C : k <= n /\ T = 1..k
    BY <1>4 DEF D
<1>6. ASSUME NEW m \in C, ~ (k <= m)
      PROVE  FALSE
    <2>1. 1..m \in D
        BY <1>5, <1>6 DEF D
    <2>2. 1..m \subseteq 1..k /\ k \in 1..k /\ k \notin 1..m
        BY <1>5, <1>6
    <2> QED
        BY <1>4, <1>5, <2>1, <2>2
<1> QED
    BY <1>6

(* A sequence of chunks, flattened: the equation its recursion solves.       *)
Joins(f, ss, n) == f = [i \in 1..n |-> IF i = 1 THEN ss[i] ELSE f[i - 1] \o ss[i]]

(* A solution puts each chunk behind those before it.                        *)
LEMMA JoinIs ==
    ASSUME NEW ss, NEW f, NEW n \in Nat, Joins(f, ss, n), NEW i \in 1..n
    PROVE  f[i] = IF i = 1 THEN ss[i] ELSE f[i - 1] \o ss[i]
    BY DEF Joins

(* It is solved for every number of chunks, and by nothing else.             *)
LEMMA JoinExists ==
    ASSUME NEW ss, NEW n \in Nat
    PROVE  \E f : Joins(f, ss, n)
<1> DEFINE C == {m \in Nat : ~ \E f : Joins(f, ss, m)}
<1> SUFFICES ASSUME C # {} PROVE FALSE
    OBVIOUS
<1>1. PICK m \in C : \A k \in C : m <= k
    <2>1. C \in SUBSET Nat
        OBVIOUS
    <2> HIDE DEF C
    <2> QED
        BY <2>1, LeastNumber
<1>2. m \in Nat /\ ~ \E f : Joins(f, ss, m)
    BY <1>1
<1>3. m # 0
    <2> SUFFICES ASSUME m = 0 PROVE FALSE
        OBVIOUS
    <2> DEFINE f == [i \in 1..0 |-> ss]
               g == [i \in 1..0 |-> IF i = 1 THEN ss[i] ELSE f[i - 1] \o ss[i]]
    <2>1. f = g
        OBVIOUS
    <2>2. Joins(f, ss, 0)
        BY <2>1 DEF Joins
    <2> QED
        BY <1>2, <2>2
<1>4. m - 1 \in Nat /\ m - 1 \notin C
    <2> HIDE DEF C
    <2> QED
        BY <1>1, <1>2, <1>3
<1>5. PICK f : Joins(f, ss, m - 1)
    BY <1>4
<1> DEFINE g == [i \in 1..m |-> IF i = m THEN (IF m = 1 THEN ss[m] ELSE f[m - 1] \o ss[m]) ELSE f[i]]
           h == [i \in 1..m |-> IF i = 1 THEN ss[i] ELSE g[i - 1] \o ss[i]]
<1>6. ASSUME NEW i \in 1..m PROVE g[i] = h[i]
    <2>1. CASE i = m
        <3>1. i # 1 => i - 1 \in 1..m /\ i - 1 # m
            BY <1>2
        <3> QED
            BY <2>1, <3>1
    <2>2. CASE i # m
        <3>1. i \in 1..(m - 1)
            BY <1>2, <2>2
        <3>2. f[i] = IF i = 1 THEN ss[i] ELSE f[i - 1] \o ss[i]
            BY <1>4, <1>5, <3>1, JoinIs
        <3>3. i # 1 => i - 1 \in 1..m /\ i - 1 # m
            BY <1>2
        <3> QED
            BY <2>2, <3>2, <3>3
    <2> QED
        BY <2>1, <2>2
<1>7. g = h
    <2>1. g = [i \in 1..m |-> g[i]] /\ h = [i \in 1..m |-> h[i]]
        OBVIOUS
    <2> HIDE DEF g, h
    <2> QED
        BY <1>6, <2>1, Zenon
<1>8. Joins(g, ss, m)
    BY <1>7, Zenon DEF Joins, h
<1> QED
    BY <1>2, <1>8

(* The solution that is chosen is one.                                       *)
LEMMA JoinChosen ==
    ASSUME NEW ss, NEW n \in Nat
    PROVE  Joins((CHOOSE f : Joins(f, ss, n)), ss, n)
    BY JoinExists

Agree(ss, tt, n) == \A i \in 1..n : ss[i] = tt[i]

(* Sequences that begin with the same chunks are flattened alike so far.     *)
LEMMA JoinUnique ==
    ASSUME NEW ss, NEW tt, NEW n \in Nat, NEW m \in Nat, NEW f, NEW g,
           Joins(f, ss, n), Joins(g, tt, m), n <= m, Agree(ss, tt, n)
    PROVE  Agree(f, g, n)
<1> DEFINE C == {i \in 1..n : f[i] # g[i]}
<1> SUFFICES ASSUME C # {} PROVE FALSE
    BY DEF Agree
<1>1. PICK k \in C : \A i \in C : k <= i
    <2>1. C \in SUBSET Nat
        OBVIOUS
    <2> HIDE DEF C
    <2> QED
        BY <2>1, LeastNumber
<1>2. k \in 1..n /\ k \in 1..m /\ f[k] # g[k]
    BY <1>1
<1>3. k # 1 => k - 1 \in 1..n /\ k - 1 \notin C
    <2> HIDE DEF C
    <2> QED
        BY <1>1, <1>2
<1>4. k # 1 => f[k - 1] = g[k - 1]
    BY <1>3
<1>5. /\ f[k] = IF k = 1 THEN ss[k] ELSE f[k - 1] \o ss[k]
      /\ g[k] = IF k = 1 THEN tt[k] ELSE g[k - 1] \o tt[k]
    BY <1>2, JoinIs
<1> QED
    BY <1>2, <1>4, <1>5 DEF Agree

(* What flattening is defined as.                                            *)
LEMMA FlattenIs ==
    ASSUME NEW ss
    PROVE  Data!FlattenSeq(ss)
             = IF Len(ss) = 0 THEN ss ELSE (CHOOSE f : Joins(f, ss, Len(ss)))[Len(ss)]
    BY DEF Data!FlattenSeq, Joins

(* One more chunk is what comes after the others.                            *)
LEMMA FlattenAppends ==
    ASSUME NEW S, NEW ss \in Seq(Seq(S)), NEW e \in Seq(S), Data!FlattenSeq(ss) \in Seq(S)
    PROVE  Data!FlattenSeq(Append(ss, e)) = Data!FlattenSeq(ss) \o e
<1> DEFINE n == Len(ss)
           tt == Append(ss, e)
<1>1. n \in Nat /\ Len(tt) = n + 1 /\ tt[n + 1] = e /\ \A i \in 1..n : ss[i] = tt[i]
    OBVIOUS
<1> DEFINE f == CHOOSE f : Joins(f, ss, n)
           g == CHOOSE g : Joins(g, tt, n + 1)
<1> HIDE DEF tt, n
<1>2. Joins(f, ss, n) /\ Joins(g, tt, n + 1)
    <2>1. Joins(f, ss, n)
        BY <1>1, JoinChosen
    <2>2. Joins(g, tt, n + 1)
        <3>1. n + 1 \in Nat
            BY <1>1
        <3> QED
            BY <3>1, JoinChosen
    <2> QED
        BY <2>1, <2>2
<1>3. Data!FlattenSeq(ss) = IF n = 0 THEN ss ELSE f[n]
    BY FlattenIs DEF n
<1>4. Data!FlattenSeq(tt) = g[n + 1]
    <2>1. Len(tt) # 0
        BY <1>1
    <2> QED
        BY <1>1, <2>1, FlattenIs
<1> HIDE DEF f, g
<1>5. g[n + 1] = IF n + 1 = 1 THEN e ELSE g[n] \o e
    <2>1. n + 1 \in 1..(n + 1) /\ (n + 1) - 1 = n /\ n + 1 \in Nat
        BY <1>1
    <2> QED
        BY <1>1, <1>2, <2>1, JoinIs
<1>6. CASE n = 0
    <2>1. ss = <<>>
        BY <1>6 DEF n
    <2>2. Data!FlattenSeq(ss) \o e = e
        BY <1>3, <1>6, <2>1
    <2> QED
        BY <1>4, <1>5, <1>6, <2>2 DEF tt
<1>7. CASE n # 0
    <2>1. n \in 1..n /\ n + 1 # 1
        BY <1>1, <1>7
    <2>2. f[n] = g[n]
        <3> DEFINE m == n + 1
        <3>1. /\ n \in Nat /\ m \in Nat /\ n <= m /\ Joins(f, ss, n) /\ Joins(g, tt, m)
              /\ Agree(ss, tt, n)
            BY <1>1, <1>2 DEF Agree
        <3> HIDE DEF m
        <3>2. Agree(f, g, n)
            BY <3>1, JoinUnique
        <3> QED
            BY <2>1, <3>2 DEF Agree
    <2> QED
        BY <1>3, <1>4, <1>5, <1>7, <2>1, <2>2 DEF tt
<1> QED
    BY <1>6, <1>7

(* No chunks flatten to no rows.                                             *)
LEMMA FlattenOfNone == Data!FlattenSeq(<<>>) = <<>>
    BY FlattenIs

(* Facts about sequences that are put together.                              *)
LEMMA Concatenation ==
    ASSUME NEW S, NEW a \in Seq(S), NEW b \in Seq(S), NEW x \in S
    PROVE  /\ a \o b \in Seq(S) /\ Len(a \o b) = Len(a) + Len(b) /\ a \o <<>> = a
           /\ Append(b, x) \in Seq(S) /\ Len(Append(b, x)) = Len(b) + 1
           /\ a \o Append(b, x) = Append(a \o b, x)
<1>1. a \o b \in Seq(S) /\ Len(a \o b) = Len(a) + Len(b) /\ a \o <<>> = a
    OBVIOUS
<1>2. Append(b, x) \in Seq(S) /\ Len(Append(b, x)) = Len(b) + 1
    OBVIOUS
<1>3. a \o Append(b, x) = Append(a \o b, x)
    OBVIOUS
<1> QED
    BY <1>1, <1>2, <1>3

(* A sequence is a prefix of what continues it.                              *)
LEMMA PrefixOfMore ==
    ASSUME NEW S, NEW a \in Seq(S), NEW b \in Seq(S)
    PROVE  Data!IsPrefix(a, a \o b)
<1>1. /\ a \o b \in Seq(S) /\ Len(a \o b) = Len(a) + Len(b) /\ Len(a) \in Nat /\ Len(b) \in Nat
      /\ \A i \in 1..Len(a) : (a \o b)[i] = a[i]
    OBVIOUS
<1> DEFINE c == a \o b
<1> HIDE DEF c
<1>2. SubSeq(a, 1, Len(a)) = SubSeq(c, 1, Len(a))
    BY <1>1 DEF c
<1> QED
    BY <1>1, <1>2 DEF Data!IsPrefix, c

(* The first rows of a result.                                               *)
UpTo(n) == [i \in 1..n |-> i]

(* The first rows, and one more of them.                                     *)
LEMMA UpToMore ==
    ASSUME NEW n \in Nat
    PROVE  /\ UpTo(n) \in Seq(Nat) /\ Len(UpTo(n)) = n /\ UpTo(0) = <<>>
           /\ Append(UpTo(n), n + 1) = UpTo(n + 1)
<1>1. UpTo(n) \in Seq(Nat) /\ Len(UpTo(n)) = n
    BY DEF UpTo
<1>2. UpTo(0) = <<>>
    BY DEF UpTo
<1>3. Append(UpTo(n), n + 1) = UpTo(n + 1)
    BY DEF UpTo
<1> QED
    BY <1>1, <1>2, <1>3

(* A response under way: what was yielded and what is in the batch are the   *)
(* rows taken so far, and what has ended is all of them.                     *)
Response == [format : {"jsonl", "csv", "parquet", "webdataset", "arrow"}, size : BatchSizes,
             rows : Nat, next : Nat \ {0}, batch : Seq(Nat), sink : Seq(Nat), writer : BOOLEAN,
             out : Seq(Seq(Nat)), done : BOOLEAN]
Sent(s) == Data!FlattenSeq(s.out)
NoLongChunk(s) == \A i \in DOMAIN s.out : Len(s.out[i]) <= s.size
UnderWay(s) ==
    /\ Sent(s) \o s.batch = UpTo(s.next - 1) /\ Len(s.batch) < s.size /\ s.sink = <<>>
    /\ s.format \in {"jsonl", "csv"} => s.batch = <<>>
EndedWell(s) ==
    /\ s.next > s.rows
    /\ Data!IsPrefix(UpTo(s.rows), Sent(s))
    /\ Len(Sent(s)) < s.rows + (IF s.format = "arrow" THEN s.size ELSE 1)
Responding(s) ==
    /\ s \in Response /\ s.next <= s.rows + 1 /\ Sent(s) \in Seq(Nat) /\ NoLongChunk(s)
    /\ IF s.done THEN EndedWell(s) ELSE UnderWay(s)

(* A chunk that is no longer than a batch may come next.                     *)
MayCome(s, chunk) ==
    /\ s.out \in Seq(Seq(Nat)) /\ Sent(s) \in Seq(Nat) /\ NoLongChunk(s) /\ s.size \in BatchSizes
    /\ chunk \in Seq(Nat) /\ Len(chunk) <= s.size

(* What one more chunk does to what was sent.                                *)
LEMMA ChunkSent ==
    ASSUME NEW s, NEW t, NEW chunk, MayCome(s, chunk),
           t.out = Append(s.out, chunk), t.size = s.size
    PROVE  /\ t.out \in Seq(Seq(Nat)) /\ Sent(t) = Sent(s) \o chunk /\ Sent(t) \in Seq(Nat)
           /\ NoLongChunk(t)
<1>0. /\ s.out \in Seq(Seq(Nat)) /\ Sent(s) \in Seq(Nat) /\ NoLongChunk(s)
      /\ chunk \in Seq(Nat) /\ Len(chunk) <= s.size
    BY DEF MayCome
<1>1. Sent(t) = Sent(s) \o chunk
    BY <1>0, FlattenAppends DEF Sent
<1>2. Sent(s) \o chunk \in Seq(Nat)
    BY <1>0
<1>3. t.out \in Seq(Seq(Nat))
    BY <1>0
<1>4. ASSUME NEW i \in DOMAIN t.out PROVE Len(t.out[i]) <= t.size
    <2> DEFINE o == s.out
    <2>1. o \in Seq(Seq(Nat)) /\ t.out = Append(o, chunk)
        BY <1>0
    <2> HIDE DEF o
    <2>2. t.out[i] = chunk \/ (i \in DOMAIN o /\ t.out[i] = o[i])
        BY <2>1, <1>4
    <2> QED
        BY <1>0, <2>2 DEF o, NoLongChunk
<1> QED
    BY <1>1, <1>2, <1>3, <1>4 DEF NoLongChunk

Made(s, next, batch, sink, writer, out, done) ==
    [format |-> s.format, size |-> s.size, rows |-> s.rows, next |-> next, batch |-> batch,
     sink |-> sink, writer |-> writer, out |-> out, done |-> done]

(* It is a response, with the fields it is made of.                          *)
LEMMA MadeIs ==
    ASSUME NEW s \in Response, NEW next \in Nat \ {0}, NEW batch \in Seq(Nat), NEW sink \in Seq(Nat),
           NEW writer \in BOOLEAN, NEW out \in Seq(Seq(Nat)), NEW done \in BOOLEAN,
           NEW t, t = Made(s, next, batch, sink, writer, out, done)
    PROVE  /\ t \in Response /\ t.format = s.format /\ t.size = s.size /\ t.rows = s.rows
           /\ t.next = next /\ t.batch = batch /\ t.sink = sink /\ t.writer = writer
           /\ t.out = out /\ t.done = done
    BY DEF Response, Made

(* A response in which one field is set.                                     *)
LEMMA OneFieldSet ==
    ASSUME NEW s \in Response, NEW x
    PROVE  /\ [s EXCEPT !.batch = x] = Made(s, s.next, x, s.sink, s.writer, s.out, s.done)
           /\ [s EXCEPT !.out = x] = Made(s, s.next, s.batch, s.sink, s.writer, x, s.done)
           /\ [s EXCEPT !.done = x] = Made(s, s.next, s.batch, s.sink, s.writer, s.out, x)
<1>1. DOMAIN s = {"format", "size", "rows", "next", "batch", "sink", "writer", "out", "done"}
    BY DEF Response
<1>2. [s EXCEPT !.batch = x] = Made(s, s.next, x, s.sink, s.writer, s.out, s.done)
    BY ONLY <1>1 DEF Made
<1>3. [s EXCEPT !.out = x] = Made(s, s.next, s.batch, s.sink, s.writer, x, s.done)
    BY ONLY <1>1 DEF Made
<1>4. [s EXCEPT !.done = x] = Made(s, s.next, s.batch, s.sink, s.writer, s.out, x)
    BY ONLY <1>1 DEF Made
<1> QED
    BY <1>2, <1>3, <1>4

(* A response whose batch was handed to the writer.                          *)
LEMMA BatchAndWriterSet ==
    ASSUME NEW s \in Response, NEW x, NEW y
    PROVE  [s EXCEPT !.batch = x, !.writer = y] = Made(s, s.next, x, s.sink, y, s.out, s.done)
<1>1. DOMAIN s = {"format", "size", "rows", "next", "batch", "sink", "writer", "out", "done"}
    BY DEF Response
<1> DEFINE r == [s EXCEPT !.batch = x]
<1>2. r = Made(s, s.next, x, s.sink, s.writer, s.out, s.done)
    BY OneFieldSet
<1>3. /\ DOMAIN r = {"format", "size", "rows", "next", "batch", "sink", "writer", "out", "done"}
      /\ r.next = s.next /\ r.batch = x /\ r.sink = s.sink /\ r.writer = s.writer /\ r.out = s.out
      /\ r.format = s.format /\ r.size = s.size /\ r.rows = s.rows /\ r.done = s.done
    <2> HIDE DEF r
    <2> QED
        BY <1>2 DEF Made
<1>4. [r EXCEPT !.writer = y] = Made(s, s.next, x, s.sink, y, s.out, s.done)
    <2> HIDE DEF r
    <2> QED
        BY ONLY <1>3 DEF Made
<1>5. [s EXCEPT !.batch = x, !.writer = y] = [r EXCEPT !.writer = y]
    BY ONLY <1>1
<1> QED
    BY <1>4, <1>5

(* The batch that was set is the batch.                                      *)
LEMMA BatchSet ==
    ASSUME NEW s \in Response, NEW x
    PROVE  [s EXCEPT !.batch = x].batch = x
<1>1. DOMAIN s = {"format", "size", "rows", "next", "batch", "sink", "writer", "out", "done"}
    BY DEF Response
<1> QED
    BY ONLY <1>1

(* A chunk that is yielded comes last.                                       *)
LEMMA YieldedOnMade ==
    ASSUME NEW s, NEW a, NEW b, NEW c, NEW d, NEW e, NEW f, NEW chunk
    PROVE Data!Yield(Made(s, a, b, c, d, e, f), chunk) = Made(s, a, b, c, d, Append(e, chunk), f)
<1> DEFINE t == Made(s, a, b, c, d, e, f)
<1>1. /\ DOMAIN t = {"format", "size", "rows", "next", "batch", "sink", "writer", "out", "done"}
      /\ t.next = a /\ t.batch = b /\ t.sink = c /\ t.writer = d /\ t.out = e /\ t.done = f
      /\ t.format = s.format /\ t.size = s.size /\ t.rows = s.rows
    BY DEF Made
<1> HIDE DEF t
<1>2. [t EXCEPT !.out = Append(@, chunk)] = Made(s, a, b, c, d, Append(e, chunk), f)
    BY ONLY <1>1 DEF Made
<1> QED
    BY <1>2 DEF Data!Yield, t

(* The next row is the one after.                                            *)
LEMMA NextSet ==
    ASSUME NEW s, NEW t, NEW a, NEW b, NEW c, NEW d, NEW e, NEW f, t = Made(s, a, b, c, d, e, f)
    PROVE  [t EXCEPT !.next = @ + 1] = Made(s, a + 1, b, c, d, e, f)
<1>1. /\ DOMAIN t = {"format", "size", "rows", "next", "batch", "sink", "writer", "out", "done"}
      /\ t.next = a /\ t.batch = b /\ t.sink = c /\ t.writer = d /\ t.out = e /\ t.done = f
      /\ t.format = s.format /\ t.size = s.size /\ t.rows = s.rows
    BY DEF Made
<1> QED
    BY ONLY <1>1 DEF Made

(* A row of text is a chunk (formats.py:32, :186).                           *)
LEMMA RowOfText ==
    ASSUME NEW s \in Response, s.format \in {"jsonl", "csv"}
    PROVE [Data!TakeRow(s) EXCEPT !.next = @ + 1]
            = Made(s, s.next + 1, s.batch, s.sink, s.writer, Append(s.out, <<s.next>>), s.done)
<1> DEFINE x == Append(s.out, <<s.next>>)
<1>1. Data!TakeRow(s) = [s EXCEPT !.out = x]
    BY DEF Data!TakeRow, Data!Yield
<1>2. Data!TakeRow(s) = Made(s, s.next, s.batch, s.sink, s.writer, x, s.done)
    <2> HIDE DEF x
    <2> QED
        BY <1>1, OneFieldSet
<1> QED
    BY <1>2, NextSet

(* A row that fills the batch yields it; Arrow's writer is open from then    *)
(* on.                                                                       *)
LEMMA RowOfFull ==
    ASSUME NEW s \in Response, NEW v, v = (IF s.format = "arrow" THEN TRUE ELSE s.writer),
           s.format \notin {"jsonl", "csv"}, Len(Append(s.batch, s.next)) >= s.size
    PROVE [Data!TakeRow(s) EXCEPT !.next = @ + 1]
            = Made(s, s.next + 1, <<>>, s.sink, v, Append(s.out, Append(s.batch, s.next)), s.done)
<1> DEFINE b == Append(s.batch, s.next)
           x == Append(s.out, b)
           m == Made(s, s.next, <<>>, s.sink, s.writer, s.out, s.done)
           y == TRUE
           w == Made(s, s.next, <<>>, s.sink, y, s.out, s.done)
<1>0. s.format \in {"parquet", "webdataset"} \/ s.format = "arrow"
    BY DEF Response
<1>1. Data!Batched(s) = [s EXCEPT !.batch = b]
    BY DEF Data!Batched
<1>2. Data!Batched(s).batch = b
    <2> HIDE DEF b
    <2> QED
        BY <1>1, BatchSet
<1>3. Data!Full(s)
    BY <1>2 DEF Data!Full
<1>4. [s EXCEPT !.batch = <<>>] = m
    BY OneFieldSet
<1>5. [s EXCEPT !.batch = <<>>, !.writer = TRUE] = w
    <2> HIDE DEF y
    <2>1. [s EXCEPT !.batch = <<>>, !.writer = y] = w
        BY BatchAndWriterSet
    <2> QED
        BY <2>1 DEF y
<1>6. Data!Yield(m, b) = Made(s, s.next, <<>>, s.sink, s.writer, x, s.done)
    BY YieldedOnMade
<1>7. Data!Yield(w, b) = Made(s, s.next, <<>>, s.sink, y, x, s.done)
    <2> HIDE DEF y
    <2> QED
        BY YieldedOnMade
<1>8. CASE s.format \in {"parquet", "webdataset"}
    <2>1. Data!TakeRow(s) = Data!Yield([s EXCEPT !.batch = <<>>], Data!Batched(s).batch)
        BY <1>3, <1>8 DEF Data!TakeRow
    <2>2. Data!TakeRow(s) = Made(s, s.next, <<>>, s.sink, s.writer, x, s.done)
        <3> HIDE DEF m, b, x
        <3> QED
            BY <2>1, <1>2, <1>4, <1>6
    <2>3. [Data!TakeRow(s) EXCEPT !.next = @ + 1] = Made(s, s.next + 1, <<>>, s.sink, s.writer, x, s.done)
        <3> HIDE DEF m, b, x
        <3> QED
            BY <2>2, NextSet
    <2>4. v = s.writer
        BY <1>8
    <2> HIDE DEF m, b, x
    <2> QED
        BY <2>3, <2>4 DEF b, x
<1>9. CASE s.format = "arrow"
    <2>1. Data!TakeRow(s) = Data!Yield([s EXCEPT !.batch = <<>>, !.writer = TRUE], Data!Batched(s).batch)
        BY <1>3, <1>9 DEF Data!TakeRow
    <2>2. Data!TakeRow(s) = Made(s, s.next, <<>>, s.sink, y, x, s.done)
        <3> HIDE DEF w, b, x, y
        <3> QED
            BY <2>1, <1>2, <1>5, <1>7
    <2>3. [Data!TakeRow(s) EXCEPT !.next = @ + 1] = Made(s, s.next + 1, <<>>, s.sink, y, x, s.done)
        <3> HIDE DEF w, b, x, y
        <3> QED
            BY <2>2, NextSet
    <2>4. v = y
        BY <1>9
    <2> HIDE DEF w, b, x, y
    <2> QED
        BY <2>3, <2>4 DEF b, x
<1> QED
    BY <1>0, <1>8, <1>9

(* A row that does not fill the batch is kept in it.                         *)
LEMMA RowOfBatch ==
    ASSUME NEW s \in Response, s.format \notin {"jsonl", "csv"}, ~ (Len(Append(s.batch, s.next)) >= s.size)
    PROVE [Data!TakeRow(s) EXCEPT !.next = @ + 1]
            = Made(s, s.next + 1, Append(s.batch, s.next), s.sink, s.writer, s.out, s.done)
<1> DEFINE b == Append(s.batch, s.next)
<1>0. s.format \in {"parquet", "webdataset"} \/ s.format = "arrow"
    BY DEF Response
<1>1. Data!Batched(s) = [s EXCEPT !.batch = b]
    BY DEF Data!Batched
<1>2. Data!Batched(s).batch = b
    <2> HIDE DEF b
    <2> QED
        BY <1>1, BatchSet
<1>3. ~Data!Full(s)
    BY <1>2 DEF Data!Full
<1>4. Data!TakeRow(s) = Data!Batched(s)
    BY <1>0, <1>3 DEF Data!TakeRow
<1>5. Data!TakeRow(s) = Made(s, s.next, b, s.sink, s.writer, s.out, s.done)
    <2> HIDE DEF b
    <2> QED
        BY <1>1, <1>4, OneFieldSet
<1> HIDE DEF b
<1>6. [Data!TakeRow(s) EXCEPT !.next = @ + 1] = Made(s, s.next + 1, b, s.sink, s.writer, s.out, s.done)
    BY <1>5, NextSet
<1> QED
    BY <1>6 DEF b

(* A row is yielded, or put in the batch, which is yielded once it is full.  *)
LEMMA RowStreamed ==
    ASSUME NEW s, Responding(s), ~ s.done, s.next <= s.rows
    PROVE  Responding([Data!TakeRow(s) EXCEPT !.next = @ + 1])
<1> DEFINE n == s.next
           b == Append(s.batch, n)
<1>1. /\ s \in Response /\ Sent(s) \in Seq(Nat) /\ NoLongChunk(s) /\ UnderWay(s)
      /\ n \in Nat \ {0} /\ s.rows \in Nat /\ s.size \in Nat \ {0} /\ s.size \in BatchSizes
      /\ s.batch \in Seq(Nat) /\ s.out \in Seq(Seq(Nat)) /\ s.done = FALSE
      /\ s.format \in {"jsonl", "csv", "parquet", "webdataset", "arrow"}
    BY StreamAssumption DEF Responding, Response, StreamAssumption
<1>2. /\ b \in Seq(Nat) /\ Len(b) = Len(s.batch) + 1 /\ Sent(s) \o b = UpTo(n)
      /\ Len(s.batch) \in Nat
    <2> DEFINE q == s.batch
               p == Sent(s)
    <2>0. q \in Seq(Nat) /\ p \in Seq(Nat) /\ n \in Nat
        BY <1>1
    <2>1. b \in Seq(Nat) /\ Len(b) = Len(s.batch) + 1 /\ Sent(s) \o b = Append(Sent(s) \o s.batch, n)
        <3> HIDE DEF q, p, n
        <3>1. /\ Append(q, n) \in Seq(Nat) /\ Len(Append(q, n)) = Len(q) + 1
              /\ p \o Append(q, n) = Append(p \o q, n)
            BY <2>0, Concatenation
        <3> QED
            BY <3>1 DEF q, p
    <2>2. Append(UpTo(n - 1), n) = UpTo(n)
        <3>1. n - 1 \in Nat /\ (n - 1) + 1 = n
            BY <1>1
        <3> QED
            BY <3>1, UpToMore
    <2> QED
        BY <1>1, <2>1, <2>2 DEF UnderWay
<1>0. s.writer \in BOOLEAN /\ s.sink = <<>> /\ n + 1 \in Nat \ {0} /\ <<>> \in Seq(Nat)
      /\ s.done \in BOOLEAN /\ (n + 1) - 1 = n /\ n + 1 <= s.rows + 1
    <2>1. s.writer \in BOOLEAN
        BY <1>1 DEF Response
    <2>2. s.sink = <<>>
        BY <1>1 DEF UnderWay
    <2>3. s.done \in BOOLEAN
        BY <1>1 DEF Response
    <2>4. n + 1 \in Nat \ {0} /\ (n + 1) - 1 = n /\ n + 1 <= s.rows + 1
        BY <1>1
    <2>5. <<>> \in Seq(Nat)
        OBVIOUS
    <2> QED
        BY <2>1, <2>2, <2>3, <2>4, <2>5
<1> DEFINE t == [Data!TakeRow(s) EXCEPT !.next = @ + 1]
<1> HIDE DEF b
<1>3. CASE s.format \in {"jsonl", "csv"}
    <2> DEFINE c == <<n>>
    <2>1. t = Made(s, n + 1, s.batch, s.sink, s.writer, Append(s.out, c), s.done)
        BY <1>1, <1>3, RowOfText
    <2>2. c \in Seq(Nat) /\ Len(c) = 1 /\ Len(c) <= s.size /\ s.batch = <<>> /\ b = c /\ s.sink \in Seq(Nat)
        <3>1. c \in Seq(Nat) /\ Len(c) = 1 /\ c = Append(<<>>, n)
            BY <1>1
        <3>2. s.batch = <<>>
            BY <1>1, <1>3 DEF UnderWay
        <3>3. 1 <= s.size
            BY <1>1
        <3> QED
            BY <1>0, <3>1, <3>2, <3>3 DEF b
    <2> HIDE DEF c
    <2>3. Append(s.out, c) \in Seq(Seq(Nat))
        BY <1>1, <2>2
    <2> HIDE DEF t, n
    <2>4. /\ t \in Response /\ t.out = Append(s.out, c) /\ t.size = s.size /\ t.next = n + 1
          /\ t.batch = s.batch /\ t.sink = s.sink /\ t.format = s.format /\ t.done = s.done
          /\ t.rows = s.rows
        <3> DEFINE k == n + 1
                   q == s.batch
                   sk == s.sink
                   w == s.writer
                   o == Append(s.out, c)
                   e == s.done
        <3>1. /\ s \in Response /\ k \in Nat \ {0} /\ q \in Seq(Nat) /\ sk \in Seq(Nat) /\ w \in BOOLEAN
              /\ o \in Seq(Seq(Nat)) /\ e \in BOOLEAN /\ t = Made(s, k, q, sk, w, o, e)
            BY <1>0, <1>1, <2>1, <2>2, <2>3
        <3> HIDE DEF k, q, sk, w, o, e
        <3>2. /\ t \in Response /\ t.out = o /\ t.size = s.size /\ t.next = k
              /\ t.batch = q /\ t.sink = sk /\ t.format = s.format /\ t.done = e
              /\ t.rows = s.rows
            BY <3>1, MadeIs
        <3> QED
            BY <3>2 DEF k, q, sk, o, e
    <2>5. Sent(t) = Sent(s) \o c /\ Sent(t) \in Seq(Nat) /\ NoLongChunk(t)
        <3>1. MayCome(s, c)
            BY <1>1, <2>2 DEF MayCome
        <3> QED
            BY <2>4, <3>1, ChunkSent
    <2>6. Sent(t) \o t.batch = UpTo(n) /\ Len(t.batch) < s.size
        <3>1. t.batch = <<>> /\ Sent(t) = UpTo(n) /\ Sent(t) \in Seq(Nat)
            BY <1>2, <2>2, <2>4, <2>5
        <3>2. Sent(t) \o <<>> = Sent(t)
            BY ONLY <3>1
        <3>3. Len(t.batch) < s.size
            BY <1>1, <3>1
        <3> QED
            BY <3>1, <3>2, <3>3
    <2>7. t.next <= t.rows + 1 /\ t.next - 1 = n
        BY <1>0, <2>4
    <2>8. UnderWay(t)
        BY <1>0, <1>1, <2>2, <2>4, <2>6, <2>7 DEF UnderWay
    <2> QED
        BY <1>1, <2>4, <2>5, <2>7, <2>8 DEF Responding, t
<1>4. CASE s.format \notin {"jsonl", "csv"} /\ Len(b) >= s.size
    <2> DEFINE v == IF s.format = "arrow" THEN TRUE ELSE s.writer
    <2>0. v \in BOOLEAN
        BY <1>0
    <2> HIDE DEF v
    <2>1. t = Made(s, n + 1, <<>>, s.sink, v, Append(s.out, b), s.done)
        BY <1>1, <1>4, RowOfFull DEF b, v
    <2>2. Append(s.out, b) \in Seq(Seq(Nat)) /\ s.sink \in Seq(Nat)
        BY <1>0, <1>1, <1>2
    <2>3. Len(b) <= s.size
        BY <1>1, <1>2 DEF UnderWay
    <2> HIDE DEF t, n
    <2>4. /\ t \in Response /\ t.out = Append(s.out, b) /\ t.size = s.size /\ t.next = n + 1
          /\ t.batch = <<>> /\ t.sink = s.sink /\ t.format = s.format /\ t.done = s.done
          /\ t.rows = s.rows
        <3> DEFINE k == n + 1
                   q == <<>>
                   sk == s.sink
                   w == v
                   o == Append(s.out, b)
                   e == s.done
        <3>1. /\ s \in Response /\ k \in Nat \ {0} /\ q \in Seq(Nat) /\ sk \in Seq(Nat) /\ w \in BOOLEAN
              /\ o \in Seq(Seq(Nat)) /\ e \in BOOLEAN /\ t = Made(s, k, q, sk, w, o, e)
            BY <1>0, <1>1, <2>0, <2>1, <2>2
        <3> HIDE DEF k, q, sk, w, o, e
        <3>2. /\ t \in Response /\ t.out = o /\ t.size = s.size /\ t.next = k
              /\ t.batch = q /\ t.sink = sk /\ t.format = s.format /\ t.done = e
              /\ t.rows = s.rows
            BY <3>1, MadeIs
        <3> QED
            BY <3>2 DEF k, q, sk, o, e
    <2>5. Sent(t) = Sent(s) \o b /\ Sent(t) \in Seq(Nat) /\ NoLongChunk(t)
        <3>1. MayCome(s, b)
            BY <1>1, <1>2, <2>3 DEF MayCome
        <3> QED
            BY <2>4, <3>1, ChunkSent
    <2>6. Sent(t) \o t.batch = UpTo(n) /\ Len(t.batch) < s.size
        BY <1>1, <1>2, <2>4, <2>5, Concatenation
    <2>7. t.next <= t.rows + 1 /\ t.next - 1 = n
        BY <1>0, <2>4
    <2>8. UnderWay(t)
        BY <1>0, <1>1, <2>4, <2>6, <2>7 DEF UnderWay
    <2> QED
        BY <1>1, <2>4, <2>5, <2>7, <2>8 DEF Responding, t
<1>5. CASE s.format \notin {"jsonl", "csv"} /\ ~ (Len(b) >= s.size)
    <2>1. t = Made(s, n + 1, b, s.sink, s.writer, s.out, s.done)
        BY <1>1, <1>5, RowOfBatch DEF b
    <2>2. s.sink \in Seq(Nat)
        BY <1>0
    <2> HIDE DEF t, n
    <2>4. /\ t \in Response /\ t.out = s.out /\ t.size = s.size /\ t.next = n + 1
          /\ t.batch = b /\ t.sink = s.sink /\ t.format = s.format /\ t.done = s.done
          /\ t.rows = s.rows
        <3> DEFINE k == n + 1
                   q == b
                   sk == s.sink
                   w == s.writer
                   o == s.out
                   e == s.done
        <3>1. /\ s \in Response /\ k \in Nat \ {0} /\ q \in Seq(Nat) /\ sk \in Seq(Nat) /\ w \in BOOLEAN
              /\ o \in Seq(Seq(Nat)) /\ e \in BOOLEAN /\ t = Made(s, k, q, sk, w, o, e)
            BY <1>0, <1>1, <1>2, <2>1, <2>2
        <3> HIDE DEF k, q, sk, w, o, e
        <3>2. /\ t \in Response /\ t.out = o /\ t.size = s.size /\ t.next = k
              /\ t.batch = q /\ t.sink = sk /\ t.format = s.format /\ t.done = e
              /\ t.rows = s.rows
            BY <3>1, MadeIs
        <3> QED
            BY <3>2 DEF k, q, sk, o, e
    <2>5. Sent(t) = Sent(s) /\ NoLongChunk(t)
        BY <1>1, <2>4 DEF Sent, NoLongChunk
    <2>6. Sent(t) \o t.batch = UpTo(n) /\ Len(t.batch) < s.size
        BY <1>1, <1>2, <1>5, <2>4, <2>5
    <2>7. t.next <= t.rows + 1 /\ t.next - 1 = n
        BY <1>0, <2>4
    <2>8. UnderWay(t)
        BY <1>0, <1>1, <1>5, <2>4, <2>6, <2>7 DEF UnderWay
    <2> QED
        BY <1>1, <2>4, <2>5, <2>7, <2>8 DEF Responding, t
<1> QED
    BY <1>3, <1>4, <1>5

(* A response that ends keeps its other fields.                              *)
LEMMA DoneSet ==
    ASSUME NEW s, NEW t, NEW a, NEW b, NEW c, NEW d, NEW e, NEW f, NEW y, t = Made(s, a, b, c, d, e, f)
    PROVE  [t EXCEPT !.done = y] = Made(s, a, b, c, d, e, y)
<1>1. /\ DOMAIN t = {"format", "size", "rows", "next", "batch", "sink", "writer", "out", "done"}
      /\ t.next = a /\ t.batch = b /\ t.sink = c /\ t.writer = d /\ t.out = e /\ t.done = f
      /\ t.format = s.format /\ t.size = s.size /\ t.rows = s.rows
    BY DEF Made
<1> QED
    BY ONLY <1>1 DEF Made

(* A response whose sink was written.                                        *)
LEMMA SinkSet ==
    ASSUME NEW s \in Response, NEW x
    PROVE  [s EXCEPT !.sink = x] = Made(s, s.next, s.batch, x, s.writer, s.out, s.done)
<1>1. DOMAIN s = {"format", "size", "rows", "next", "batch", "sink", "writer", "out", "done"}
    BY DEF Response
<1> QED
    BY ONLY <1>1 DEF Made

(* A chunk that is yielded comes last, and nothing else changes.             *)
LEMMA YieldedOn ==
    ASSUME NEW s \in Response, NEW chunk
    PROVE  Data!Yield(s, chunk) = Made(s, s.next, s.batch, s.sink, s.writer, Append(s.out, chunk), s.done)
<1> DEFINE x == Append(s.out, chunk)
<1>1. Data!Yield(s, chunk) = [s EXCEPT !.out = x]
    BY DEF Data!Yield
<1> HIDE DEF x
<1>2. Data!Yield(s, chunk) = Made(s, s.next, s.batch, s.sink, s.writer, x, s.done)
    BY <1>1, OneFieldSet
<1> QED
    BY <1>2 DEF x

(* Arrow's last batch, behind an open writer, is read from the sink twice.   *)
LEMMA SentTwice ==
    ASSUME NEW s \in Response, s.format = "arrow", s.writer, s.batch # <<>>, NEW q, q = s.batch
    PROVE  Data!Rest(s) = Made(s, s.next, q, q, s.writer, Append(Append(s.out, q), q), s.done)
<1> DEFINE n == s.next
           w == s.writer
           o == s.out
           d == s.done
           sunk == [s EXCEPT !.sink = q]
           m == Made(s, n, q, q, w, o, d)
<1>1. sunk = m
    BY SinkSet
<1>2. Data!Rest(s) = Data!Yield(Data!Yield(sunk, sunk.sink), sunk.sink)
    BY DEF Data!Rest
<1>3. sunk.sink = q
    <2> HIDE DEF sunk
    <2> QED
        BY <1>1 DEF Made
<1> HIDE DEF n, w, o, d, sunk
<1>4. Data!Yield(m, q) = Made(s, n, q, q, w, Append(o, q), d)
    BY YieldedOnMade
<1>5. Data!Yield(Made(s, n, q, q, w, Append(o, q), d), q)
        = Made(s, n, q, q, w, Append(Append(o, q), q), d)
    BY YieldedOnMade
<1>6. Data!Rest(s) = Made(s, n, q, q, w, Append(Append(o, q), q), d)
    <2> HIDE DEF m
    <2> QED
        BY <1>1, <1>2, <1>3, <1>4, <1>5
<1> QED
    BY <1>6 DEF n, w, o, d

(* The fields of a response under way.                                       *)
LEMMA ResponseFields ==
    ASSUME NEW s, Responding(s)
    PROVE  /\ s \in Response /\ Sent(s) \in Seq(Nat) /\ NoLongChunk(s)
           /\ s.next \in Nat \ {0} /\ s.rows \in Nat /\ s.size \in Nat \ {0} /\ s.size \in BatchSizes
           /\ s.batch \in Seq(Nat) /\ s.out \in Seq(Seq(Nat)) /\ s.sink \in Seq(Nat)
           /\ s.writer \in BOOLEAN /\ s.done \in BOOLEAN /\ s.next <= s.rows + 1
           /\ s.format \in {"jsonl", "csv", "parquet", "webdataset", "arrow"}
<1>1. /\ s \in Response /\ Sent(s) \in Seq(Nat) /\ NoLongChunk(s) /\ s.next <= s.rows + 1
    BY DEF Responding
<1>2. s.writer \in BOOLEAN /\ s.done \in BOOLEAN
    BY <1>1 DEF Response
<1>3. /\ s.next \in Nat \ {0} /\ s.rows \in Nat /\ s.size \in BatchSizes
      /\ s.batch \in Seq(Nat) /\ s.out \in Seq(Seq(Nat)) /\ s.sink \in Seq(Nat)
      /\ s.format \in {"jsonl", "csv", "parquet", "webdataset", "arrow"}
    BY <1>1 DEF Response
<1>4. s.size \in Nat \ {0}
    BY <1>3, StreamAssumption DEF StreamAssumption
<1> QED
    BY <1>1, <1>2, <1>3, <1>4

(* The last batch ends the response; Arrow's may come a second time.         *)
LEMMA RestStreamed ==
    ASSUME NEW s, Responding(s), ~ s.done, s.next > s.rows
    PROVE  Responding([Data!Rest(s) EXCEPT !.done = TRUE])
<1>1. /\ s \in Response /\ Sent(s) \in Seq(Nat) /\ NoLongChunk(s) /\ UnderWay(s)
      /\ s.next \in Nat \ {0} /\ s.rows \in Nat /\ s.size \in Nat \ {0} /\ s.size \in BatchSizes
      /\ s.batch \in Seq(Nat) /\ s.out \in Seq(Seq(Nat)) /\ s.next - 1 = s.rows
      /\ s.format \in {"jsonl", "csv", "parquet", "webdataset", "arrow"}
      /\ s.writer \in BOOLEAN /\ s.done \in BOOLEAN /\ Len(s.batch) \in Nat /\ s.sink \in Seq(Nat)
    <2>1. UnderWay(s)
        BY DEF Responding
    <2>2. s.next - 1 = s.rows
        BY ResponseFields
    <2>3. Len(s.batch) \in Nat
        BY ResponseFields
    <2> QED
        BY <2>1, <2>2, <2>3, ResponseFields
<1>2. /\ Sent(s) \o s.batch = UpTo(s.rows) /\ UpTo(s.rows) \in Seq(Nat) /\ Len(UpTo(s.rows)) = s.rows
      /\ Len(s.batch) < s.size
    BY <1>1, UpToMore DEF UnderWay
<1>3. ASSUME NEW t, t \in Response, t.rows = s.rows, t.next = s.next, t.size = s.size, t.format = s.format,
             t.done = TRUE, Sent(t) \in Seq(Nat), NoLongChunk(t),
             \/ Sent(t) = UpTo(s.rows)
             \/ s.format = "arrow" /\ Sent(t) = UpTo(s.rows) \o s.batch
      PROVE  Responding(t)
    <2>1. /\ Data!IsPrefix(UpTo(s.rows), Sent(t))
          /\ Len(Sent(t)) < s.rows + (IF s.format = "arrow" THEN s.size ELSE 1)
        <3>1. CASE Sent(t) = UpTo(s.rows)
            <4>1. <<>> \in Seq(Nat) /\ UpTo(s.rows) \o <<>> = UpTo(s.rows)
                BY <1>2, Concatenation
            <4>2. Data!IsPrefix(UpTo(s.rows), UpTo(s.rows) \o <<>>)
                BY <1>2, <4>1, PrefixOfMore
            <4> QED
                BY <1>1, <1>2, <3>1, <4>1, <4>2
        <3>2. CASE s.format = "arrow" /\ Sent(t) = UpTo(s.rows) \o s.batch
            <4> DEFINE u == UpTo(s.rows)
                       q == s.batch
            <4>1. u \in Seq(Nat) /\ q \in Seq(Nat) /\ Len(u) = s.rows /\ Len(q) < s.size /\ Len(q) \in Nat
                BY <1>1, <1>2
            <4> HIDE DEF u, q
            <4>2. Data!IsPrefix(u, u \o q) /\ Len(u \o q) = Len(u) + Len(q)
                <5>1. Data!IsPrefix(u, u \o q)
                    BY <4>1, PrefixOfMore
                <5>2. Len(u \o q) = Len(u) + Len(q)
                    <6>1. u \in Seq(Nat) /\ q \in Seq(Nat)
                        BY <4>1
                    <6> QED
                        BY ONLY <6>1
                <5> QED
                    BY <5>1, <5>2
            <4>3. s.rows + Len(q) < s.rows + s.size
                BY <1>1, <4>1
            <4> QED
                BY <3>2, <4>1, <4>2, <4>3 DEF u, q
        <3> QED
            BY <1>3, <3>1, <3>2
    <2>2. t.next <= t.rows + 1
        BY <1>1, <1>3
    <2> QED
        BY <1>3, <2>1, <2>2 DEF Responding, EndedWell
<1> DEFINE t == [Data!Rest(s) EXCEPT !.done = TRUE]
           y == TRUE
           n == s.next
           q == s.batch
           k == s.sink
           w == s.writer
           o == s.out
           d == s.done
<1>0. /\ y \in BOOLEAN /\ n \in Nat \ {0} /\ q \in Seq(Nat) /\ k \in Seq(Nat) /\ w \in BOOLEAN
      /\ o \in Seq(Seq(Nat)) /\ d \in BOOLEAN /\ q = s.batch /\ o = s.out /\ Len(q) < s.size
      /\ Sent(s) \o q = UpTo(s.rows) /\ n = s.next /\ Len(q) <= s.size
    <2>1. Len(q) <= s.size
        BY <1>1, <1>2
    <2> QED
        BY <1>1, <1>2, <2>1
<1>m. /\ s \in Response /\ y \in BOOLEAN /\ n \in Nat \ {0} /\ q \in Seq(Nat) /\ k \in Seq(Nat)
      /\ w \in BOOLEAN /\ o \in Seq(Seq(Nat)) /\ d \in BOOLEAN
    BY <1>0, <1>1
<1>4. CASE s.format \in {"jsonl", "csv"} \/ (s.format = "parquet" /\ s.batch = <<>>)
           \/ (s.format = "arrow" /\ s.batch = <<>> /\ ~ s.writer)
    <2>0. Data!Rest(s) = s
        BY <1>1, <1>4 DEF Data!Rest
    <2>1. [s EXCEPT !.done = y] = Made(s, n, q, k, w, o, y)
        <3> HIDE DEF y
        <3> QED
            BY <1>1, OneFieldSet
    <2>2. t = Made(s, n, q, k, w, o, y)
        BY <2>0, <2>1
    <2> HIDE DEF t, y, n, q, k, w, o, d
    <2>3. /\ t \in Response /\ t.out = o /\ t.size = s.size /\ t.rows = s.rows /\ t.next = n
          /\ t.format = s.format /\ t.done = y
        BY <1>m, <2>2, MadeIs
    <2>4. s.batch = <<>>
        BY <1>1, <1>4 DEF UnderWay
    <2>5. Sent(t) = Sent(s) /\ NoLongChunk(t)
        BY <1>0, <1>1, <2>3 DEF Sent, NoLongChunk
    <2>6. Sent(s) = UpTo(s.rows)
        BY <1>1, <1>2, <2>4, Concatenation
    <2> QED
        BY <1>0, <1>1, <1>3, <2>3, <2>5, <2>6 DEF t, y
<1>5. CASE \/ s.format = "webdataset" \/ (s.format = "parquet" /\ s.batch # <<>>)
           \/ (s.format = "arrow" /\ ~ s.writer /\ s.batch # <<>>)
           \/ (s.format = "arrow" /\ s.writer /\ s.batch = <<>>)
    <2>0. Data!Rest(s) = Data!Yield(s, s.batch)
        <3>1. s.sink = <<>>
            BY <1>1 DEF UnderWay
        <3> QED
            BY <1>1, <1>5, <3>1 DEF Data!Rest
    <2>1. Data!Rest(s) = Made(s, n, q, k, w, Append(o, q), d)
        BY <1>1, <2>0, YieldedOn
    <2> DEFINE p == Append(o, q)
    <2>2. p \in Seq(Seq(Nat))
        BY <1>0
    <2>3. t = Made(s, n, q, k, w, p, y)
        <3> HIDE DEF y, n, q, k, w, p, d
        <3>1. [Data!Rest(s) EXCEPT !.done = y] = Made(s, n, q, k, w, p, y)
            BY <2>1, DoneSet DEF p
        <3> QED
            BY <3>1 DEF y
    <2> HIDE DEF t, y, n, q, k, w, o, p, d
    <2>4. /\ t \in Response /\ t.out = p /\ t.size = s.size /\ t.rows = s.rows /\ t.next = n
          /\ t.format = s.format /\ t.done = y
        <3>1. /\ s \in Response /\ n \in Nat \ {0} /\ q \in Seq(Nat) /\ k \in Seq(Nat) /\ w \in BOOLEAN
              /\ p \in Seq(Seq(Nat)) /\ y \in BOOLEAN /\ t = Made(s, n, q, k, w, p, y)
            BY <1>m, <2>2, <2>3
        <3> QED
            BY ONLY <3>1, MadeIs
    <2>5. t.out = Append(s.out, q)
        BY <1>0, <2>4 DEF p
    <2>6. Sent(t) = Sent(s) \o q /\ Sent(t) \in Seq(Nat) /\ NoLongChunk(t)
        <3>1. MayCome(s, q)
            BY <1>0, <1>1 DEF MayCome
        <3> QED
            BY <2>4, <2>5, <3>1, ChunkSent
    <2> QED
        BY <1>0, <1>2, <1>3, <2>4, <2>6 DEF t, y
<1>6. CASE s.format = "arrow" /\ s.writer /\ s.batch # <<>>
    <2>1. Data!Rest(s) = Made(s, n, q, q, w, Append(Append(o, q), q), d)
        BY <1>1, <1>6, SentTwice
    <2> DEFINE p == Append(o, q)
               r == Append(p, q)
               half == Made(s, n, q, k, w, p, d)
    <2>2. p \in Seq(Seq(Nat))
        BY <1>0
    <2> HIDE DEF p
    <2>3. r \in Seq(Seq(Nat))
        BY <1>0, <2>2
    <2>4. t = Made(s, n, q, q, w, r, y)
        <3> HIDE DEF y, n, q, k, w, d, r
        <3>1. [Data!Rest(s) EXCEPT !.done = y] = Made(s, n, q, q, w, r, y)
            BY <2>1, DoneSet DEF r, p
        <3> QED
            BY <3>1 DEF y
    <2> HIDE DEF t, y, n, q, k, w, o, r, half, d
    <2>5. /\ half \in Response /\ half.out = p /\ half.size = s.size /\ half.rows = s.rows
          /\ half.next = n /\ half.format = s.format
        BY <1>m, <2>2, MadeIs DEF half
    <2>6. half.out = Append(s.out, q)
        BY <1>0, <2>5 DEF p
    <2>7. Sent(half) = Sent(s) \o q /\ Sent(half) \in Seq(Nat) /\ NoLongChunk(half)
        <3>1. MayCome(s, q)
            BY <1>0, <1>1 DEF MayCome
        <3> QED
            BY <2>5, <2>6, <3>1, ChunkSent
    <2>8. /\ t \in Response /\ t.out = r /\ t.size = s.size /\ t.rows = s.rows /\ t.next = n
          /\ t.format = s.format /\ t.done = y
        <3>1. /\ s \in Response /\ n \in Nat \ {0} /\ q \in Seq(Nat) /\ w \in BOOLEAN
              /\ r \in Seq(Seq(Nat)) /\ y \in BOOLEAN /\ t = Made(s, n, q, q, w, r, y)
            BY <1>m, <2>3, <2>4
        <3> QED
            BY ONLY <3>1, MadeIs
    <2>9. t.out = Append(half.out, q) /\ t.size = half.size
        BY <1>0, <1>1, <2>2, <2>5, <2>8 DEF r
    <2>10. Sent(t) = Sent(half) \o q /\ Sent(t) \in Seq(Nat) /\ NoLongChunk(t)
        <3>1. MayCome(half, q)
            BY <1>0, <1>1, <2>2, <2>5, <2>7 DEF MayCome
        <3> QED
            BY <2>9, <3>1, ChunkSent
    <2> QED
        BY <1>0, <1>2, <1>3, <1>6, <2>7, <2>8, <2>10 DEF t, y
<1> QED
    BY <1>1, <1>4, <1>5, <1>6

TopologyType == agentTopology \in [StreamAgents -> Data!AgentTopology \cup {Data!Absent}]
StreamInv == TopologyType /\ (stream # Data!Absent => Responding(stream))

(* A response starts with nothing yielded and nothing in the batch.          *)
LEMMA Opened ==
    ASSUME NEW format \in {"jsonl", "csv", "parquet", "webdataset", "arrow"},
           NEW size \in BatchSizes, NEW rows \in Nat
    PROVE  Responding([format |-> format, size |-> size, rows |-> rows, next |-> 1, batch |-> <<>>,
                       sink |-> <<>>, writer |-> FALSE, out |-> <<>>, done |-> FALSE])
<1> DEFINE z == <<>>
           t == [format |-> format, size |-> size, rows |-> rows, next |-> 1, batch |-> z,
                 sink |-> z, writer |-> FALSE, out |-> z, done |-> FALSE]
<1>1. size \in Nat \ {0}
    BY StreamAssumption DEF StreamAssumption
<1>2. z \in Seq(Nat) /\ z \in Seq(Seq(Nat)) /\ Len(z) = 0 /\ DOMAIN z = {} /\ z \o z = z
    OBVIOUS
<1>3. Data!FlattenSeq(z) = z
    BY FlattenOfNone
<1>4. UpTo(0) = z /\ 1 - 1 = 0
    BY UpToMore
<1> HIDE DEF z
<1>5. /\ t \in Response /\ t.format = format /\ t.size = size /\ t.rows = rows /\ t.next = 1
      /\ t.batch = z /\ t.sink = z /\ t.out = z /\ ~t.done
    BY <1>1, <1>2 DEF Response
<1> HIDE DEF t
<1>6. Sent(t) = z /\ NoLongChunk(t)
    BY <1>2, <1>3, <1>5 DEF Sent, NoLongChunk
<1>7. UnderWay(t)
    BY <1>1, <1>2, <1>4, <1>5, <1>6 DEF UnderWay, z
<1>8. t.next <= t.rows + 1
    BY <1>5
<1> QED
    BY <1>2, <1>5, <1>6, <1>7, <1>8 DEF Responding, t, z

(* A request opens a response of a natural number of rows.                   *)
LEMMA OpenStep ==
    ASSUME NEW format \in {"jsonl", "csv", "parquet", "webdataset", "arrow"},
           NEW size \in BatchSizes, NEW rows \in Nat, StreamInv,
           Data!Open(format, size, rows)
    PROVE  StreamInv'
<1>1. Responding(stream')
    BY Opened DEF Data!Open
<1>2. agentTopology' = agentTopology
    BY DEF Data!Open
<1>3. TopologyType'
    BY <1>2 DEF StreamInv, TopologyType, Data!AgentTopology, Data!Absent
<1> QED
    BY <1>1, <1>3 DEF StreamInv

(* Every step keeps the topology and the response what they are.             *)
LEMMA StreamStep ==
    ASSUME StreamInv, [Data!Next]_(Data!vars)
    PROVE  StreamInv'
<1>0. TopologyType /\ (stream # Data!Absent => Responding(stream))
    BY DEF StreamInv
<1>a. ASSUME agentTopology' = agentTopology PROVE TopologyType'
    BY <1>0, <1>a DEF TopologyType, Data!AgentTopology, Data!Absent
<1>b. Data!Absent' = Data!Absent
    BY DEF Data!Absent
<1>1. CASE Data!Heartbeat
    <2>1. PICK a \in StreamAgents, x \in Data!AgentTopology :
            x.is_online /\ agentTopology' = [agentTopology EXCEPT ![a] = x] /\ stream' = stream
        BY <1>1 DEF Data!Heartbeat
    <2>2. TopologyType'
        BY <1>0, <2>1 DEF TopologyType, Data!AgentTopology, Data!Absent
    <2> QED
        BY <1>0, <2>1, <2>2, <1>b DEF StreamInv
<1>2. CASE Data!StreamQuery
    <2>1. PICK format \in Formats, size \in BatchSizes, limit \in RowLimits, result \in ResultSizes :
            Data!Open(format, size, Data!Least(result, IF limit > 0 THEN limit ELSE RowCap))
        BY <1>2 DEF Data!StreamQuery
    <2>0. format \in {"jsonl", "csv", "parquet", "webdataset", "arrow"}
        BY StreamAssumption DEF StreamAssumption
    <2>2. Data!Least(result, IF limit > 0 THEN limit ELSE RowCap) \in Nat
        BY StreamAssumption DEF StreamAssumption, Data!Least
    <2> QED
        BY <2>0, <2>1, <2>2, OpenStep
<1>3. CASE Data!StreamAdhoc
    <2>1. PICK format \in Formats, size \in BatchSizes, limit \in RowLimits, result \in ResultSizes :
            Data!Open(format, size, IF limit >= 0 THEN Data!Least(result, limit)
                                    ELSE IF result + limit < 0 THEN 0 ELSE result + limit)
        BY <1>3 DEF Data!StreamAdhoc
    <2>0. format \in {"jsonl", "csv", "parquet", "webdataset", "arrow"}
        BY StreamAssumption DEF StreamAssumption
    <2>2. (IF limit >= 0 THEN Data!Least(result, limit)
           ELSE IF result + limit < 0 THEN 0 ELSE result + limit) \in Nat
        BY StreamAssumption DEF StreamAssumption, Data!Least
    <2> QED
        BY <2>0, <2>1, <2>2, OpenStep
<1>4. CASE Data!HfParquetShard
    <2>1. PICK size \in BatchSizes, result \in ResultSizes : Data!Open("parquet", size, result)
        BY <1>4 DEF Data!HfParquetShard
    <2>2. result \in Nat
        BY StreamAssumption DEF StreamAssumption
    <2> QED
        BY <2>1, <2>2, OpenStep
<1>5. CASE Data!Row
    <2>1. Responding(stream) /\ stream.next <= stream.rows /\ agentTopology' = agentTopology
          /\ stream' = [Data!TakeRow(stream) EXCEPT !.next = @ + 1]
        BY <1>0, <1>5 DEF Data!Row
    <2>2. ~ stream.done
        BY <2>1, ResponseFields DEF Responding, EndedWell
    <2>3. Responding(stream')
        BY <2>1, <2>2, RowStreamed
    <2> QED
        BY <1>a, <2>1, <2>3 DEF StreamInv
<1>6. CASE Data!Finish
    <2>1. Responding(stream) /\ ~ stream.done /\ stream.next > stream.rows /\ agentTopology' = agentTopology
          /\ stream' = [Data!Rest(stream) EXCEPT !.done = TRUE]
        BY <1>0, <1>6 DEF Data!Finish
    <2>2. Responding(stream')
        BY <2>1, RestStreamed
    <2> QED
        BY <1>a, <2>1, <2>2 DEF StreamInv
<1>7. CASE Data!Close
    BY <1>a, <1>b, <1>7 DEF Data!Close, StreamInv
<1>8. CASE Data!Restart
    BY <1>b, <1>8 DEF Data!Restart, StreamInv, TopologyType, Data!Absent
<1>9. CASE UNCHANGED Data!vars
    BY <1>0, <1>a, <1>b, <1>9 DEF Data!vars, StreamInv
<1> QED
    BY <1>1, <1>2, <1>3, <1>4, <1>5, <1>6, <1>7, <1>8, <1>9 DEF Data!Next

(* Such a response holds every row, once and in order.                       *)
LEMMA ResponsesHold ==
    ASSUME StreamInv PROVE Data!StreamedOnce
<1>1. SUFFICES ASSUME stream # Data!Absent PROVE
        /\ stream.done => /\ Data!IsPrefix(Data!Asked, Sent(stream))
                          /\ Len(Sent(stream)) < stream.rows
                                                 + (IF stream.format = "arrow" THEN stream.size ELSE 1)
        /\ \A i \in DOMAIN stream.out : Len(stream.out[i]) <= stream.size
    BY DEF Data!StreamedOnce, Sent
<1>2. Responding(stream) /\ Data!Asked = UpTo(stream.rows)
    BY <1>1 DEF StreamInv, Data!Asked, UpTo
<1> QED
    BY <1>2 DEF Responding, EndedWell, NoLongChunk

(* No source has a better score than itself.                                 *)
LEMMA NoneBeatsItself ==
    ASSUME TopologyType, NEW region \in Regions, NEW cs, NEW a \in Data!Viable(cs)
    PROVE  ~ Data!Better(a, a, region)
<1>1. a \in StreamAgents /\ agentTopology[a] \in Data!AgentTopology
    BY DEF Data!Viable, TopologyType
<1> DEFINE l == Data!LatencyTo(a, region)
           b == Data!Bonus(a)
<1> DEFINE x == agentTopology[a]
<1>i. x.latency \in [Regions -> Latencies] /\ x.bandwidth \in Bandwidths
    BY <1>1 DEF Data!AgentTopology
<1>n. Latencies \subseteq Nat /\ Bandwidths \subseteq Nat
    BY StreamAssumption DEF StreamAssumption
<1> DEFINE y == x.latency
           z == x.bandwidth
<1>k. y[region] \in Nat /\ z \in Nat
    <2>1. y \in [Regions -> Latencies] /\ z \in Bandwidths
        BY <1>i
    <2> HIDE DEF y, z, x
    <2> QED
        BY <2>1, <1>n
<1> HIDE DEF x
<1>2. l \in Int
    <2>1. x.latency[region] \in Int
        BY <1>k
    <2> QED
        BY <2>1 DEF Data!LatencyTo, x
<1>3. b \in Int
    <2>1. x.bandwidth \in Int
        BY <1>k
    <2> QED
        BY <2>1 DEF Data!Bonus, x
<1> HIDE DEF l, b
<1>4. ~ (l * b < l * b)
    <2> DEFINE p == l * b
    <2>1. p \in Int
        BY <1>2, <1>3
    <2> HIDE DEF p
    <2>2. ~ (p < p)
        BY <2>1
    <2> QED
        BY <2>2 DEF p
<1> QED
    BY <1>4 DEF Data!Better, l, b

(* The router counts with the operator the library speaks of.                *)
LEMMA DataCardinality == \A S : Data!Cardinality(S) = Cardinality(S)
    BY DEF Data!Cardinality, Cardinality

(* A chain of fallbacks is of every element of the set, each of them once.   *)
LEMMA ChainHasAll ==
    ASSUME NEW S, IsFiniteSet(S), NEW s \in Data!SetToSeqs(S)
    PROVE  /\ DOMAIN s = 1..Cardinality(S) /\ Cardinality(S) \in Nat
           /\ \A i \in DOMAIN s : s[i] \in S
           /\ \A i, j \in DOMAIN s : i # j => s[i] # s[j]
           /\ \A x \in S : \E i \in DOMAIN s : s[i] = x
<1> DEFINE D == 1..Cardinality(S)
<1>1. Cardinality(S) \in Nat
    BY FS_CardinalityType
<1>2. s \in [D -> S] /\ \A i, j \in D : i # j => s[i] # s[j]
    BY DataCardinality DEF Data!SetToSeqs
<1>3. IsFiniteSet(D) /\ Cardinality(D) = Cardinality(S)
    BY <1>1, FS_Interval
<1> HIDE DEF D
<1>4. s \in Injection(D, S)
    BY <1>2 DEF Injection, IsInjective
<1>5. s \in Surjection(D, S)
    BY <1>3, <1>4, FS_Injection
<1>6. \A x \in S : \E i \in D : s[i] = x
    BY <1>5 DEF Surjection
<1> QED
    BY <1>1, <1>2, <1>6 DEF D

(* The next of the chain is what is selected when those before it are        *)
(* excluded: nothing left scores better, as what does comes earlier.         *)
LEMMA ChainsHold ==
    ASSUME TopologyType PROVE Data!FallbackChain
<1> SUFFICES ASSUME NEW cs \in SUBSET StreamConnectors, NEW region \in Regions,
                    NEW s \in Data!RankedSources(cs, region)
             PROVE  /\ \A i \in DOMAIN s : s[i] \in Data!SelectSource(cs, region, {s[j] : j \in 1..i - 1})
                    /\ cs = {} => Data!ToSet(s) = Data!ListSources
    BY DEF Data!FallbackChain
<1> DEFINE V == Data!Viable(cs)
<1>1. IsFiniteSet(V)
    <2>1. V \in SUBSET StreamAgents
        BY DEF Data!Viable
    <2> QED
        BY <2>1, FS_Subset, StreamAssumption DEF StreamAssumption
<1>2. s \in Data!SetToSeqs(V) /\ \A i, j \in DOMAIN s : i < j => ~ Data!Better(s[j], s[i], region)
    BY DEF Data!RankedSources
<1>3. \A a \in V : ~ Data!Better(a, a, region)
    BY NoneBeatsItself
<1> HIDE DEF V
<1>4. /\ DOMAIN s = 1..Cardinality(V) /\ Cardinality(V) \in Nat
      /\ \A i \in DOMAIN s : s[i] \in V
      /\ \A i, j \in DOMAIN s : i # j => s[i] # s[j]
      /\ \A x \in V : \E i \in DOMAIN s : s[i] = x
    BY <1>1, <1>2, ChainHasAll
<1>5. ASSUME NEW i \in DOMAIN s
      PROVE  s[i] \in Data!SelectSource(cs, region, {s[j] : j \in 1..i - 1})
    <2> DEFINE E == {s[j] : j \in 1..i - 1}
    <2>0. i \in Nat /\ \A j \in 1..i - 1 : j \in DOMAIN s /\ j # i
        BY <1>4
    <2>1. s[i] \in V \ E
        BY <1>4, <2>0
    <2>2. ASSUME NEW b \in V \ E PROVE ~ Data!Better(b, s[i], region)
        <3>1. PICK k \in DOMAIN s : s[k] = b
            BY <1>4
        <3>2. k \notin 1..i - 1
            BY <3>1
        <3>3. k = i \/ i < k
            BY <1>4, <2>0, <3>2
        <3> QED
            BY <1>2, <1>3, <1>4, <3>1, <3>3
    <2> HIDE DEF E
    <2> QED
        BY <2>1, <2>2 DEF Data!SelectSource, V, E
<1>6. ASSUME cs = {} PROVE Data!ToSet(s) = Data!ListSources
    <2>1. V = Data!ListSources
        BY <1>6 DEF V, Data!Viable, Data!ListSources
    <2>2. Data!ToSet(s) = V
        BY <1>4 DEF Data!ToSet
    <2> QED
        BY <2>1, <2>2
<1> QED
    BY <1>5, <1>6

(* A response that ended holds every row that was asked for, once and in     *)
(* order, and no chunk of it is longer than a batch; only Arrow's may end in *)
(* a second copy of less than one batch (formats.py:11, :35-45, :81-92).     *)
(* And going down ranked_sources is what select_source does when the agents  *)
(* tried so far are excluded (router.py:107, :141).                          *)
THEOREM StreamsAreWhole == Data!Spec => []RoutedAndStreamed
<1>1. Data!Init => StreamInv
    BY DEF Data!Init, StreamInv, TopologyType
<1>2. StreamInv /\ [Data!Next]_(Data!vars) => StreamInv'
    BY StreamStep
<1>3. StreamInv => RoutedAndStreamed
    BY ResponsesHold, ChainsHold DEF StreamInv, RoutedAndStreamed, Data!RoutedAndStreamed
<1> QED
    BY <1>1, <1>2, <1>3, PTL DEF Data!Spec

----------------------------------------------------------------------------
(* What a scanner's sync does to the graph *)

(* Files: their rows are in the platform's database, on nodes that say whose *)
(* they are.                                                                 *)
FileNode == [at : {Platform}, id : {Graph!NoId}, node_id : {Graph!NodeId(f) : f \in Graph!FileRow},
             tenant : GraphTenants, paths : SUBSET Paths, agents : SUBSET GraphAgents]
IsThere(g, t, f) == \E i \in 1..Len(g) : /\ g[i].tenant = t /\ g[i].node_id = Graph!NodeId(f)
                                         /\ f.path \in g[i].paths
FilesAreThere(g, r) == \A x \in Graph!ToSet(r.chunk.files) : IsThere(g, r.tenant, x.what)

(* What a chunk says of a file: it is merged, whether upserted or deleted.   *)
RowsOf(f) == {Graph!Op("upsert", f), Graph!Op("delete", f)}
OfFile(c, f) == \E x \in RowsOf(f) : c.files = <<x>> /\ Graph!ToSet(c.files) = {x}

(* The rest of a chunk is there but for what is still to do.                 *)
IsNode(x) == x.op = "upsert" /\ x.what.kind = "node"
RestIsThere(n, r, left) ==
    \A x \in Graph!ToSet(r.chunk.rest) :
       IsNode(x) => x \in left \/ <<GraphDatabase[r.tenant], r.tenant, x.what.id>> \in n

(* A request in flight, and what it has behind it when it has no errors.     *)
SyncRequest(r) ==
    /\ DOMAIN r = {"step", "agent", "tenant", "chunk", "todo", "merged", "errors"}
    /\ r.step \in {"files", "connect", "rest"} /\ r.agent \in GraphAgents /\ r.tenant \in GraphTenants
    /\ r.chunk \in Graph!Chunks /\ r.todo \in Seq(Graph!ToSet(r.chunk.rest)) /\ r.errors \in Nat
DoneSoFar(g, n, r) ==
    r.errors = 0 => /\ r.step # "files" => FilesAreThere(g, r)
                    /\ RestIsThere(n, r, Graph!ToSet(r.todo))

(* The inductive invariant.                                                  *)
StoreInv ==
    /\ fileNodes \in Seq(FileNode) /\ DOMAIN syncFlight = SyncHandlers
    /\ \A h \in SyncHandlers :
          \/ syncFlight[h] = Graph!Idle
          \/ SyncRequest(syncFlight[h]) /\ DoneSoFar(fileNodes, otherNodes, syncFlight[h])
    /\ \A answer \in cleanAnswers : FilesAreThere(fileNodes, answer) /\ RestIsThere(otherNodes, answer, {})

(* The rows and the statements of a chunk: at most one file (FileGraph's     *)
(* chunks).                                                                  *)
LEMMA ChunksAreSequences ==
    ASSUME NEW c \in Graph!Chunks
    PROVE  /\ c.rest \in Seq(Graph!ToSet(c.rest))
           /\ \/ c.files = <<>> /\ Graph!ToSet(c.files) = {}
              \/ \E f \in Graph!FileRow : OfFile(c, f)
<1>1. CASE \E f \in Graph!FileRow, d \in Dirs : c = Graph!Chunk(f, d)
    <2>1. PICK f \in Graph!FileRow, d \in Dirs : c = Graph!Chunk(f, d)
        BY <1>1
    <2> DEFINE a == Graph!Op("upsert", Graph!Node(d))
               b == Graph!Op("upsert", Graph!Edge(<<"scanner", f.path>>, d))
               e == Graph!Op("upsert", Graph!Edge(d, d))
               x == Graph!Op("upsert", f)
    <2>2. c.rest = <<a, b, e>> /\ c.files = <<x>> /\ x \in RowsOf(f)
        BY <2>1 DEF Graph!Chunk, RowsOf
    <2> HIDE DEF a, b, e, x
    <2>3. Graph!ToSet(<<a, b, e>>) = {a, b, e}
        BY DEF Graph!ToSet
    <2>4. Graph!ToSet(<<x>>) = {x}
        BY DEF Graph!ToSet
    <2> QED
        BY <2>2, <2>3, <2>4 DEF OfFile
<1>2. CASE \E d \in Dirs : c = Graph!Removal(d)
    <2>1. PICK d \in Dirs : c = Graph!Removal(d)
        BY <1>2
    <2> DEFINE a == Graph!Op("delete", Graph!Node(d))
    <2>2. c.rest = <<a>> /\ c.files = <<>>
        BY <2>1 DEF Graph!Removal
    <2> HIDE DEF a
    <2>3. Graph!ToSet(<<a>>) = {a} /\ Graph!ToSet(<<>>) = {}
        BY DEF Graph!ToSet
    <2> QED
        BY <2>2, <2>3
<1>3. CASE \E f \in Graph!FileRow : c = Graph!FileRemoval(f)
    <2>1. PICK f \in Graph!FileRow : c = Graph!FileRemoval(f)
        BY <1>3
    <2> DEFINE x == Graph!Op("delete", f)
    <2>2. c.rest = <<>> /\ c.files = <<x>> /\ x \in RowsOf(f)
        BY <2>1 DEF Graph!FileRemoval, RowsOf
    <2> HIDE DEF x
    <2>3. Graph!ToSet(<<x>>) = {x}
        BY DEF Graph!ToSet
    <2> QED
        BY <2>2, <2>3 DEF OfFile
<1> QED
    BY <1>1, <1>2, <1>3 DEF Graph!Chunks

(* A chunk of no file changes nothing, of one file what that file's row does. *)
LEMMA UpsertOfNone ==
    ASSUME NEW g, NEW t, NEW a
    PROVE  Graph!UpsertFiles(g, t, a, <<>>) = g
<1> DEFINE Solves(iter, fs) ==
             iter = [s \in SUBSET DOMAIN fs |->
                       IF s = {} THEN g
                       ELSE LET x == Graph!Max(s) IN Graph!UpsertFile(iter[s \ {x}], t, a, fs[x].what)]
<1>1. Graph!UpsertFiles(g, t, a, <<>>) = (CHOOSE iter : Solves(iter, <<>>))[DOMAIN <<>>]
    BY DEF Graph!UpsertFiles, Graph!FoldLeft, Graph!MapThenFoldSet
<1>2. DOMAIN <<>> = {}
    OBVIOUS
<1>3. Solves([s \in SUBSET {} |-> g], <<>>)
    BY <1>2
<1>4. \A iter : Solves(iter, <<>>) => iter[{}] = g
    BY <1>2
<1> HIDE DEF Solves
<1> QED
    BY <1>1, <1>2, <1>3, <1>4

(* Of one file, what that file's row does.                                   *)
LEMMA UpsertOfOne ==
    ASSUME NEW g, NEW t, NEW a, NEW fs, DOMAIN fs = {1}
    PROVE  Graph!UpsertFiles(g, t, a, fs) = Graph!UpsertFile(g, t, a, fs[1].what)
<1> DEFINE Solves(iter) ==
             iter = [s \in SUBSET DOMAIN fs |->
                       IF s = {} THEN g
                       ELSE LET x == Graph!Max(s) IN Graph!UpsertFile(iter[s \ {x}], t, a, fs[x].what)]
           w == [s \in SUBSET {1} |-> IF s = {} THEN g ELSE Graph!UpsertFile(g, t, a, fs[1].what)]
<1>1. Graph!UpsertFiles(g, t, a, fs) = (CHOOSE iter : Solves(iter))[DOMAIN fs]
    BY DEF Graph!UpsertFiles, Graph!FoldLeft, Graph!MapThenFoldSet
<1>2. Graph!Max({1}) = 1
    BY DEF Graph!Max
<1>3. \A s \in SUBSET {1} : s = {} \/ s = {1}
    OBVIOUS
<1>4. {1} \ {1} = {} /\ {1} # {} /\ {} \in SUBSET {1} /\ {1} \in SUBSET {1}
    OBVIOUS
<1>5. \A iter : Solves(iter) => iter[{1}] = Graph!UpsertFile(g, t, a, fs[1].what)
    <2> SUFFICES ASSUME NEW iter, Solves(iter)
                 PROVE  iter[{1}] = Graph!UpsertFile(g, t, a, fs[1].what)
        OBVIOUS
    <2>1. iter[{}] = g
        BY <1>4
    <2>2. iter[{1}] = Graph!UpsertFile(iter[{1} \ {1}], t, a, fs[1].what)
        BY <1>2, <1>4
    <2> QED
        BY <1>4, <2>1, <2>2
<1>6. Solves(w)
    <2> DEFINE v == [s \in SUBSET DOMAIN fs |->
                       IF s = {} THEN g
                       ELSE LET x == Graph!Max(s) IN Graph!UpsertFile(w[s \ {x}], t, a, fs[x].what)]
    <2>1. w[{}] = v[{}]
        BY <1>4
    <2>2. w[{1}] = v[{1}]
        BY <1>2, <1>4
    <2>3. w = [s \in SUBSET {1} |-> w[s]] /\ v = [s \in SUBSET {1} |-> v[s]]
        OBVIOUS
    <2> HIDE DEF w, v
    <2>4. \A s \in SUBSET {1} : w[s] = v[s]
        BY <1>3, <2>1, <2>2
    <2>5. w = v
        BY <2>3, <2>4, Zenon
    <2> QED
        BY <2>5, Zenon DEF v
<1> HIDE DEF Solves
<1> QED
    BY <1>1, <1>5, <1>6

(* A row stays a row, keeps the paths it has, and its file is there after    *)
(* it: the node a MERGE creates has no id, so none is ever matched.          *)
LEMMA UpsertStores ==
    ASSUME NEW g \in Seq(FileNode), NEW t \in GraphTenants, NEW a \in GraphAgents,
           NEW f \in Graph!FileRow
    PROVE  /\ Graph!UpsertFile(g, t, a, f) \in Seq(FileNode)
           /\ IsThere(Graph!UpsertFile(g, t, a, f), t, f)
           /\ \A u, x : IsThere(g, u, x) => IsThere(Graph!UpsertFile(g, t, a, f), u, x)
<1> DEFINE new == [at |-> Platform, id |-> Graph!NoId, node_id |-> Graph!NodeId(f),
                   tenant |-> t, paths |-> {f.path}, agents |-> {a}]
<1>1. \A i \in 1..Len(g) : g[i].id = Graph!NoId
    <2>1. \A i \in 1..Len(g) : g[i] \in FileNode
        OBVIOUS
    <2>2. \A n \in FileNode : n.id = Graph!NoId
        BY DEF FileNode
    <2> QED
        BY <2>1, <2>2
<1>2. Graph!NodeId(f) # Graph!NoId
    BY DEF Graph!NodeId, Graph!NoId
<1>3. Graph!UpsertFile(g, t, a, f) = Append(g, new)
    BY <1>1, <1>2 DEF Graph!UpsertFile
<1>4. new \in FileNode
    BY DEF FileNode, Graph!FileRow
<1>6. /\ new.tenant = t /\ new.node_id = Graph!NodeId(f) /\ f.path \in new.paths
    OBVIOUS
<1> HIDE DEF new
<1>5. /\ Append(g, new) \in Seq(FileNode) /\ Len(Append(g, new)) = Len(g) + 1
      /\ Append(g, new)[Len(g) + 1] = new /\ Len(g) \in Nat
      /\ \A i \in 1..Len(g) : i \in 1..(Len(g) + 1) /\ Append(g, new)[i] = g[i]
    BY <1>4
<1> QED
    BY <1>3, <1>5, <1>6 DEF IsThere

(* A step that only adds to the graph and moves one request on.              *)
LEMMA SyncStep ==
    ASSUME StoreInv, NEW h \in SyncHandlers, NEW new, syncFlight' = [syncFlight EXCEPT ![h] = new],
           fileNodes' \in Seq(FileNode), otherNodes \subseteq otherNodes',
           \A u, x : IsThere(fileNodes, u, x) => IsThere(fileNodes', u, x),
           new = Graph!Idle \/ (SyncRequest(new) /\ DoneSoFar(fileNodes', otherNodes', new)),
           \A answer \in cleanAnswers' :
              answer \in cleanAnswers
              \/ (FilesAreThere(fileNodes, answer) /\ RestIsThere(otherNodes, answer, {}))
    PROVE  StoreInv'
<1>1. \A r : FilesAreThere(fileNodes, r) => FilesAreThere(fileNodes', r)
    BY DEF FilesAreThere
<1>2. \A r, left : RestIsThere(otherNodes, r, left) => RestIsThere(otherNodes', r, left)
    BY DEF RestIsThere
<1>3. \A r : DoneSoFar(fileNodes, otherNodes, r) => DoneSoFar(fileNodes', otherNodes', r)
    BY <1>1, <1>2 DEF DoneSoFar
<1>4. ASSUME NEW i \in SyncHandlers
      PROVE  \/ syncFlight'[i] = Graph!Idle
             \/ SyncRequest(syncFlight'[i]) /\ DoneSoFar(fileNodes', otherNodes', syncFlight'[i])
    BY <1>3 DEF StoreInv
<1>5. \A answer \in cleanAnswers' :
         FilesAreThere(fileNodes', answer) /\ RestIsThere(otherNodes', answer, {})
    BY <1>1, <1>2 DEF StoreInv
<1>6. DOMAIN syncFlight' = SyncHandlers /\ Graph!Idle' = Graph!Idle
    BY DEF StoreInv, Graph!Idle
<1> QED
    BY <1>4, <1>5, <1>6 DEF StoreInv, FileNode

(* What is left of what was to do is what has not been done.                 *)
LEMMA LeftToDo ==
    ASSUME NEW S, NEW s \in Seq(S), s # <<>>
    PROVE  /\ Head(s) \in S /\ Tail(s) \in Seq(S)
           /\ \A x \in Graph!ToSet(s) : x = Head(s) \/ x \in Graph!ToSet(Tail(s))
<1>1. Head(s) \in S /\ Tail(s) \in Seq(S) /\ Len(s) \in Nat /\ Len(s) > 0
    OBVIOUS
<1>2. ASSUME NEW i \in DOMAIN s, i # 1
      PROVE  i - 1 \in DOMAIN Tail(s) /\ Tail(s)[i - 1] = s[i]
    BY <1>1, <1>2
<1>3. s[1] = Head(s)
    OBVIOUS
<1> QED
    BY <1>1, <1>2, <1>3 DEF Graph!ToSet

(* A request that arrives has everything to do.                              *)
LEMMA ArrivalStored == ASSUME StoreInv, NEW h \in SyncHandlers, Graph!Arrive(h) PROVE StoreInv'
<1>1. PICK a \in GraphAgents, t \in GraphTenants, c \in Graph!Chunks :
         /\ syncFlight' = [syncFlight EXCEPT ![h] =
                             [step |-> "files", agent |-> a, tenant |-> t, chunk |-> c,
                              todo |-> c.rest, merged |-> 0, errors |-> 0]]
         /\ UNCHANGED <<fileNodes, otherNodes, relationships, cleanAnswers>>
    BY DEF Graph!Arrive, Graph!Go
<1> DEFINE new == [step |-> "files", agent |-> a, tenant |-> t, chunk |-> c,
                   todo |-> c.rest, merged |-> 0, errors |-> 0]
<1>2. SyncRequest(new)
    BY ChunksAreSequences DEF SyncRequest
<1>3. DoneSoFar(fileNodes', otherNodes', new)
    BY DEF DoneSoFar, RestIsThere
<1>4. syncFlight' = [syncFlight EXCEPT ![h] = new]
    BY <1>1
<1> HIDE DEF new
<1> QED
    BY <1>1, <1>2, <1>3, <1>4, SyncStep DEF StoreInv

(* A request's files are merged, or are counted as errors.                   *)
LEMMA MergeStored == ASSUME StoreInv, NEW h \in SyncHandlers, Graph!MergeFiles(h) PROVE StoreInv'
<1> DEFINE r == syncFlight[h]
<1>1. /\ SyncRequest(r) /\ DoneSoFar(fileNodes, otherNodes, r) /\ r.step = "files"
      /\ UNCHANGED <<otherNodes, relationships, cleanAnswers>>
    BY DEF Graph!MergeFiles, Graph!Idle, StoreInv
<1>2. r.chunk \in Graph!Chunks /\ r.tenant \in GraphTenants /\ r.agent \in GraphAgents
      /\ fileNodes \in Seq(FileNode)
    BY <1>1 DEF SyncRequest, StoreInv
<1>3. CASE /\ fileNodes' = Graph!UpsertFiles(fileNodes, r.tenant, r.agent, r.chunk.files)
           /\ syncFlight' = [syncFlight EXCEPT ![h] =
                               [r EXCEPT !.step = "connect", !.merged = Len(r.chunk.files)]]
    <2> DEFINE new == [r EXCEPT !.step = "connect", !.merged = Len(r.chunk.files)]
    <2>1. /\ fileNodes' \in Seq(FileNode)
          /\ \A u, x : IsThere(fileNodes, u, x) => IsThere(fileNodes', u, x)
          /\ FilesAreThere(fileNodes', r)
        <3>1. CASE r.chunk.files = <<>> /\ Graph!ToSet(r.chunk.files) = {}
            BY <1>2, <1>3, <3>1, UpsertOfNone DEF FilesAreThere
        <3>2. CASE \E f \in Graph!FileRow : OfFile(r.chunk, f)
            <4>1. PICK f \in Graph!FileRow : OfFile(r.chunk, f)
                BY <3>2
            <4>2. PICK x \in RowsOf(f) : r.chunk.files = <<x>> /\ Graph!ToSet(r.chunk.files) = {x}
                BY <4>1 DEF OfFile
            <4>3. x.what = f
                BY DEF RowsOf, Graph!Op
            <4>4. fileNodes' = Graph!UpsertFile(fileNodes, r.tenant, r.agent, f)
                <5>1. DOMAIN <<x>> = {1} /\ <<x>>[1] = x
                    OBVIOUS
                <5> HIDE DEF r
                <5>2. fileNodes' = Graph!UpsertFiles(fileNodes, r.tenant, r.agent, r.chunk.files)
                      /\ DOMAIN r.chunk.files = {1} /\ r.chunk.files[1].what = f
                    BY <1>3, <4>2, <4>3, <5>1, Zenon
                <5> QED
                    BY <5>2, UpsertOfOne
            <4>5. /\ fileNodes' \in Seq(FileNode) /\ IsThere(fileNodes', r.tenant, f)
                  /\ \A u, y : IsThere(fileNodes, u, y) => IsThere(fileNodes', u, y)
                BY <1>2, <4>4, UpsertStores
            <4> QED
                BY <4>2, <4>3, <4>5 DEF FilesAreThere
        <3> QED
            BY <1>2, <3>1, <3>2, ChunksAreSequences
    <2>2. /\ SyncRequest(new) /\ new.chunk = r.chunk /\ new.tenant = r.tenant /\ new.todo = r.todo
          /\ new.errors = r.errors
        BY <1>1 DEF SyncRequest
    <2>3. syncFlight' = [syncFlight EXCEPT ![h] = new]
        BY <1>3
    <2> HIDE DEF new
    <2>4. DoneSoFar(fileNodes', otherNodes', new)
        BY <1>1, <2>1, <2>2 DEF DoneSoFar, FilesAreThere, RestIsThere
    <2> QED
        BY <1>1, <2>1, <2>2, <2>3, <2>4, SyncStep
<1>4. CASE /\ r.chunk.files # <<>> /\ fileNodes' = fileNodes
           /\ syncFlight' = [syncFlight EXCEPT ![h] =
                               [r EXCEPT !.step = "connect", !.errors = Len(r.chunk.files)]]
    <2> DEFINE new == [r EXCEPT !.step = "connect", !.errors = Len(r.chunk.files)]
    <2>1. Len(r.chunk.files) = 1
        <3>1. PICK f \in Graph!FileRow : OfFile(r.chunk, f)
            BY <1>2, <1>4, ChunksAreSequences
        <3> QED
            BY <3>1 DEF OfFile
    <2>2. SyncRequest(new) /\ new.errors = 1
        BY <1>1, <2>1 DEF SyncRequest
    <2>3. syncFlight' = [syncFlight EXCEPT ![h] = new]
        BY <1>4
    <2> HIDE DEF new
    <2>4. DoneSoFar(fileNodes', otherNodes', new)
        BY <2>2 DEF DoneSoFar
    <2> QED
        BY <1>1, <1>2, <1>4, <2>2, <2>3, <2>4, SyncStep
<1> QED
    BY <1>3, <1>4 DEF Graph!MergeFiles, Graph!Go

(* Connecting to the tenant's own database changes nothing of the files.     *)
LEMMA ConnectStored == ASSUME StoreInv, NEW h \in SyncHandlers, Graph!Connect(h) PROVE StoreInv'
<1> DEFINE r == syncFlight[h]
           new == [r EXCEPT !.step = "rest"]
<1>1. /\ SyncRequest(r) /\ DoneSoFar(fileNodes, otherNodes, r) /\ r.step = "connect"
      /\ UNCHANGED <<fileNodes, otherNodes, relationships, cleanAnswers>>
    BY DEF Graph!Connect, Graph!Idle, StoreInv
<1>2. /\ SyncRequest(new) /\ new.chunk = r.chunk /\ new.tenant = r.tenant /\ new.todo = r.todo
      /\ new.errors = r.errors
    BY <1>1 DEF SyncRequest
<1>3. \/ syncFlight' = [syncFlight EXCEPT ![h] = new]
      \/ syncFlight' = [syncFlight EXCEPT ![h] = Graph!Idle]
    BY DEF Graph!Connect, Graph!Go
<1> HIDE DEF new
<1>4. DoneSoFar(fileNodes', otherNodes', new)
    BY <1>1, <1>2 DEF DoneSoFar, FilesAreThere, RestIsThere
<1> QED
    BY <1>1, <1>2, <1>3, <1>4, SyncStep DEF StoreInv

(* A statement is done, skipped or counted as an error.                      *)
LEMMA StatementStored == ASSUME StoreInv, NEW h \in SyncHandlers, Graph!Statement(h) PROVE StoreInv'
<1> DEFINE r == syncFlight[h]
           x == Head(r.todo)
           new == [r EXCEPT !.todo = Tail(@)]
           done == [r EXCEPT !.todo = Tail(@), !.merged = @ + 1]
           failed == [r EXCEPT !.todo = Tail(@), !.errors = @ + 1]
<1>1. /\ SyncRequest(r) /\ DoneSoFar(fileNodes, otherNodes, r) /\ r.step = "rest" /\ r.todo # <<>>
      /\ UNCHANGED <<fileNodes, cleanAnswers>> /\ fileNodes \in Seq(FileNode)
    BY DEF Graph!Statement, Graph!Idle, StoreInv
<1>2. /\ Tail(r.todo) \in Seq(Graph!ToSet(r.chunk.rest))
      /\ \A y \in Graph!ToSet(r.todo) : y = x \/ y \in Graph!ToSet(Tail(r.todo))
    BY <1>1, LeftToDo DEF SyncRequest
<1>3. /\ SyncRequest(new) /\ SyncRequest(done) /\ SyncRequest(failed) /\ failed.errors = r.errors + 1
      /\ failed.errors # 0
      /\ \A n \in {new, done} : /\ n.chunk = r.chunk /\ n.tenant = r.tenant
                                 /\ n.todo = Tail(r.todo) /\ n.errors = r.errors
    BY <1>1, <1>2 DEF SyncRequest
<1>4. CASE /\ x.op = "delete" /\ syncFlight' = [syncFlight EXCEPT ![h] = new]
           /\ otherNodes' = otherNodes
    <2> HIDE DEF new, x
    <2>1. ~ IsNode(x)
        BY <1>4 DEF IsNode
    <2>2. DoneSoFar(fileNodes', otherNodes', new)
        BY <1>1, <1>2, <1>3, <1>4, <2>1 DEF DoneSoFar, FilesAreThere, RestIsThere
    <2> QED
        BY <1>1, <1>3, <1>4, <2>2, SyncStep
<1>5. CASE /\ x.op = "upsert" /\ syncFlight' = [syncFlight EXCEPT ![h] = done]
           /\ IF x.what.kind = "node" THEN Graph!UpsertNode(r.tenant, x.what)
              ELSE Graph!UpsertRel(r.tenant, x.what)
    <2> HIDE DEF done, x
    <2>1. otherNodes \subseteq otherNodes' /\ (IsNode(x) => <<GraphDatabase[r.tenant], r.tenant, x.what.id>> \in otherNodes')
        BY <1>5 DEF IsNode, Graph!UpsertNode, Graph!UpsertRel
    <2>2. DoneSoFar(fileNodes', otherNodes', done)
        BY <1>1, <1>2, <1>3, <2>1 DEF DoneSoFar, FilesAreThere, RestIsThere
    <2> QED
        BY <1>1, <1>3, <1>5, <2>1, <2>2, SyncStep
<1>6. CASE /\ syncFlight' = [syncFlight EXCEPT ![h] = failed] /\ otherNodes' = otherNodes
    <2> HIDE DEF failed
    <2>1. DoneSoFar(fileNodes', otherNodes', failed)
        BY <1>3 DEF DoneSoFar
    <2> QED
        BY <1>1, <1>3, <1>6, <2>1, SyncStep
<1> QED
    BY <1>4, <1>5, <1>6 DEF Graph!Statement, Graph!Go, Graph!Failed

(* An answer without errors is of a chunk that is there.                     *)
LEMMA AnswerStored == ASSUME StoreInv, NEW h \in SyncHandlers, Graph!Answer(h) PROVE StoreInv'
<1> DEFINE r == syncFlight[h]
           answer == [tenant |-> r.tenant, chunk |-> r.chunk]
<1>1. /\ SyncRequest(r) /\ DoneSoFar(fileNodes, otherNodes, r) /\ r.step = "rest" /\ r.todo = <<>>
      /\ UNCHANGED <<fileNodes, otherNodes>> /\ syncFlight' = [syncFlight EXCEPT ![h] = Graph!Idle]
      /\ cleanAnswers' = IF r.errors = 0 THEN cleanAnswers \cup {answer} ELSE cleanAnswers
    BY DEF Graph!Answer, Graph!Go, Graph!Idle, StoreInv
<1>2. Graph!ToSet(<<>>) = {}
    BY DEF Graph!ToSet
<1>3. answer.chunk = r.chunk /\ answer.tenant = r.tenant
    OBVIOUS
<1> HIDE DEF answer
<1>4. r.errors = 0 => FilesAreThere(fileNodes, answer) /\ RestIsThere(otherNodes, answer, {})
    BY <1>1, <1>2, <1>3 DEF DoneSoFar, FilesAreThere, RestIsThere
<1> QED
    BY <1>1, <1>4, SyncStep DEF StoreInv

(* sync_delta answers "accepted" whatever failed, and the error count is all *)
(* the scanner has (scanner.py:268): of a chunk that was answered with none  *)
(* the nodes are in its tenant's database and the files, as that tenant's,   *)
(* in the platform's (scanner.py:213), however requests overlap, fail half   *)
(* way, are cut off by a restart and are sent again.                         *)
THEOREM CleanAnswersAreStored == Graph!Spec => []CleanAnswerIsStored
<1>1. Graph!Init => StoreInv
    BY DEF Graph!Init, StoreInv
<1>2. StoreInv /\ [Graph!Next]_(Graph!vars) => StoreInv'
    <2> SUFFICES ASSUME StoreInv, [Graph!Next]_(Graph!vars)
                 PROVE  StoreInv'
        OBVIOUS
    <2>1. CASE Graph!Crash
        <3>1. /\ syncFlight' = [h \in SyncHandlers |-> Graph!Idle]
              /\ UNCHANGED <<fileNodes, otherNodes, cleanAnswers>>
            BY <2>1 DEF Graph!Crash
        <3>2. Graph!Idle' = Graph!Idle
            BY DEF Graph!Idle
        <3> QED
            BY <3>1, <3>2 DEF StoreInv, FileNode
    <2>2. CASE UNCHANGED Graph!vars
        <3>1. UNCHANGED <<fileNodes, otherNodes, syncFlight, cleanAnswers>>
            BY <2>2 DEF Graph!vars
        <3>2. Graph!Idle' = Graph!Idle
            BY DEF Graph!Idle
        <3> QED
            BY <3>1, <3>2 DEF StoreInv, FileNode
    <2> QED
        BY <2>1, <2>2, ArrivalStored, MergeStored, ConnectStored, StatementStored, AnswerStored
           DEF Graph!Next
<1>3. StoreInv => CleanAnswerIsStored
    <2>1. StoreInv => \A i \in 1..Len(fileNodes) : fileNodes[i].at = Platform
        <3>1. \A n \in FileNode : n.at = Platform
            BY DEF FileNode
        <3>2. fileNodes \in Seq(FileNode) => \A i \in 1..Len(fileNodes) : fileNodes[i] \in FileNode
            OBVIOUS
        <3> QED
            BY <3>1, <3>2 DEF StoreInv
    <2> QED
        BY <2>1 DEF StoreInv, FilesAreThere, RestIsThere, IsThere, IsNode, CleanAnswerIsStored,
                    Graph!CleanAnswerIsStored
<1> QED
    BY <1>1, <1>2, <1>3, PTL DEF Graph!Spec

----------------------------------------------------------------------------
(* Mounts of the server and the local indexer *)

(* Unless two wrote at once there is one writer; the list it has read is of  *)
(* the mounts that are wanted, and so is the file but while it is truncated. *)
WritersAlone ==
    mountsRaced = FALSE =>
        /\ \A w, u \in ApiWorkers : Mounts!Writing(w) /\ Mounts!Writing(u) => w = u
        /\ Mounts!Torn \/ DOMAIN mountsFile = wantedMounts
        /\ \A w \in ApiWorkers : Mounts!Writing(w) => DOMAIN workerTask[w].list = wantedMounts

(* A worker indexes for jobs of its own, and a watcher of one of them has    *)
(* seen how it stands, or the worker is in that very job and will tell.      *)
Running(t, j) == t.op = "index" /\ t.job = j
Ending(t, j) == t.op = "update" /\ t.new = j
JobsAreOwn ==
    \A w \in ApiWorkers, j \in IndexJobs :
        /\ Running(workerTask[w], j) \/ Ending(workerTask[w], j)
              => j \in DOMAIN indexJobs /\ indexJobs[j].worker = w
        /\ Ending(workerTask[w], j) => indexJobs[j].status = "complete"
Told(x) ==
    \/ x.seen = indexJobs[x.job].status
    \/ Running(workerTask[x.worker], x.job)
    \/ Ending(workerTask[x.worker], x.job)
JobsAreTold ==
    \A x \in jobWatchers :
        x.job \in DOMAIN indexJobs /\ indexJobs[x.job].worker = x.worker => Told(x)
AddsMounts == \A w \in ApiWorkers : workerTask[w].op = "add" => workerTask[w].new \in Mounts!Mount

(* The inductive invariant.                                                  *)
MountsInv == Mounts!TypeOK /\ WritersAlone /\ AddsMounts /\ JobsAreOwn /\ JobsAreTold

(* A job is no mount and no handler, as uuids are not records.               *)
LEMMA MountTasks ==
    /\ Mounts!Idle.op = "idle"
    /\ \A t \in [op: {"index"}, job: IndexJobs] : t.op = "index" /\ t # Mounts!Idle /\ t.job \in IndexJobs
    /\ \A t \in Mounts!Writer :
         /\ t.op \in {"add", "remove", "update"} /\ t # Mounts!Idle /\ t.id \in MountIds
         /\ t.list \in Mounts!MountsFiles /\ t.at \in {"read", "truncated"}
<1>1. Mounts!Idle.op = "idle"
    BY DEF Mounts!Idle
<1>2. \A t \in [op: {"index"}, job: IndexJobs] : t.op = "index" /\ t.job \in IndexJobs
    OBVIOUS
<1>3. \A t \in Mounts!Writer :
         /\ t.op \in {"add", "remove", "update"} /\ t.id \in MountIds
         /\ t.list \in Mounts!MountsFiles /\ t.at \in {"read", "truncated"}
    BY DEF Mounts!Writer
<1> QED
    BY <1>1, <1>2, <1>3

(* What a worker's task is.                                                  *)
LEMMA MountTask ==
    ASSUME MountsInv, NEW w \in ApiWorkers
    PROVE  /\ workerTask[w] \in {Mounts!Idle} \cup [op: {"index"}, job: IndexJobs] \cup Mounts!Writer
           /\ Mounts!Writing(w) <=> workerTask[w] \in Mounts!Writer
           /\ Mounts!Free(w) => ~Mounts!Writing(w) /\ workerTask[w].op = "idle"
           /\ workerTask[w].op = "index" => workerTask[w].job \in IndexJobs /\ ~Mounts!Writing(w)
<1>1. workerTask[w] \in {Mounts!Idle} \cup [op: {"index"}, job: IndexJobs] \cup Mounts!Writer
    BY DEF MountsInv, Mounts!TypeOK
<1> QED
    BY <1>1, MountTasks DEF Mounts!Writing, Mounts!Free

(* The empty file is one of mounts.                                          *)
LEMMA NoMounts == <<>> \in Mounts!MountsFiles
<1>1. <<>> \in [{} -> Mounts!Mount]
    OBVIOUS
<1> QED
    BY <1>1 DEF Mounts!MountsFiles

(* What a handler saves is a file of mounts, the ones that will be wanted.   *)
LEMMA SavedMounts ==
    ASSUME NEW t \in Mounts!Writer, t.op = "add" => t.new \in Mounts!Mount
    PROVE  /\ Mounts!Saved(t) \in Mounts!MountsFiles
           /\ t.op = "add" => DOMAIN Mounts!Saved(t) = DOMAIN t.list \cup {t.id}
           /\ t.op = "remove" => DOMAIN Mounts!Saved(t) = DOMAIN t.list \ {t.id}
           /\ t.op = "update" => DOMAIN Mounts!Saved(t) = DOMAIN t.list
<1>1. PICK I \in SUBSET MountIds : t.list \in [I -> Mounts!Mount]
    BY MountTasks DEF Mounts!MountsFiles
<1>2. t.id \in MountIds /\ t.op \in {"add", "remove", "update"}
    BY MountTasks
<1>3. CASE t.op = "add"
    <2>1. Mounts!Saved(t) = Mounts!With(t.list, t.id, t.new)
        BY <1>3 DEF Mounts!Saved
    <2>2. Mounts!With(t.list, t.id, t.new) \in [I \cup {t.id} -> Mounts!Mount]
        BY <1>1, <1>3 DEF Mounts!With
    <2> QED
        BY <1>1, <1>2, <1>3, <2>1, <2>2 DEF Mounts!MountsFiles
<1>4. CASE t.op = "remove"
    <2>1. Mounts!Saved(t) = [i \in DOMAIN t.list \ {t.id} |-> t.list[i]]
        BY <1>4 DEF Mounts!Saved
    <2>2. Mounts!Saved(t) \in [I \ {t.id} -> Mounts!Mount]
        BY <1>1, <2>1
    <2> QED
        BY <1>1, <1>4, <2>1, <2>2 DEF Mounts!MountsFiles
<1>5. CASE t.op = "update"
    <2>1. Mounts!Saved(t) = Mounts!Updated(t)
        BY <1>5 DEF Mounts!Saved
    <2>2. CASE t.id \in DOMAIN t.list
        <3>1. t.list[t.id] \in Mounts!Mount
            BY <1>1, <2>2
        <3>2. [t.list[t.id] EXCEPT !.index_status = "complete"] \in Mounts!Mount
            BY <3>1 DEF Mounts!Mount
        <3>3. Mounts!Updated(t) = [t.list EXCEPT ![t.id] = [t.list[t.id] EXCEPT !.index_status = "complete"]]
            BY <2>2 DEF Mounts!Updated
        <3>4. Mounts!Updated(t) \in [I -> Mounts!Mount]
            BY <1>1, <3>2, <3>3
        <3> QED
            BY <1>1, <1>5, <2>1, <3>4 DEF Mounts!MountsFiles
    <2>3. CASE t.id \notin DOMAIN t.list
        BY <1>1, <1>5, <2>1, <2>3 DEF Mounts!Updated, Mounts!MountsFiles
    <2> QED
        BY <2>2, <2>3
<1> QED
    BY <1>2, <1>3, <1>4, <1>5

(* A handler reads the file: another writer, and the two have raced.         *)
LEMMA LoadStep ==
    ASSUME MountsInv, NEW w \in ApiWorkers, ~Mounts!Writing(w),
           NEW op \in {"add", "remove", "update"}, NEW id \in MountIds,
           NEW new \in Mounts!Mount \cup {Mounts!Idle} \cup IndexJobs,
           Mounts!_load(w, op, id, new), UNCHANGED <<mountsFile, wantedMounts>>
    PROVE  /\ workerTask' \in [ApiWorkers -> {Mounts!Idle} \cup [op: {"index"}, job: IndexJobs] \cup Mounts!Writer]
           /\ workerTask'[w].op = op /\ workerTask'[w].new = new
           /\ \A u \in ApiWorkers : u # w => workerTask'[u] = workerTask[u]
           /\ mountsRaced' \in BOOLEAN /\ WritersAlone'
<1> DEFINE t == [op |-> op, id |-> id, new |-> new, list |-> mountsFile, at |-> "read"]
<1>1. /\ workerTask \in [ApiWorkers -> {Mounts!Idle} \cup [op: {"index"}, job: IndexJobs] \cup Mounts!Writer]
      /\ mountsFile \in Mounts!MountsFiles /\ mountsRaced \in BOOLEAN
    BY DEF MountsInv, Mounts!TypeOK
<1>2. t \in Mounts!Writer
    BY <1>1 DEF Mounts!Writer
<1>3. t.op = op /\ t.new = new /\ t.list = mountsFile /\ t.at = "read"
    OBVIOUS
<1>4. workerTask' = [workerTask EXCEPT ![w] = t]
    BY DEF Mounts!_load
<1> HIDE DEF t
<1>5. workerTask'[w] = t /\ \A u \in ApiWorkers : u # w => workerTask'[u] = workerTask[u]
    BY <1>1, <1>4
<1>6. mountsRaced' \in BOOLEAN
    BY DEF Mounts!_load
<1>7. mountsRaced' = FALSE => mountsRaced = FALSE /\ \A u \in ApiWorkers \ {w} : ~Mounts!Writing(u)
    BY <1>1 DEF Mounts!_load
<1>8. ASSUME mountsRaced' = FALSE
      PROVE  /\ \A u, v \in ApiWorkers : Mounts!Writing(u)' /\ Mounts!Writing(v)' => u = v
             /\ DOMAIN mountsFile' = wantedMounts'
             /\ \A u \in ApiWorkers : Mounts!Writing(u)' => DOMAIN workerTask'[u].list = wantedMounts'
    <2>1. \A u \in ApiWorkers : ~Mounts!Writing(u)
        BY <1>7, <1>8
    <2>2. DOMAIN mountsFile = wantedMounts
        BY <1>7, <1>8, <2>1 DEF MountsInv, WritersAlone, Mounts!Torn
    <2>3. \A u \in ApiWorkers : Mounts!Writing(u)' => u = w
        BY <1>5, <2>1 DEF Mounts!Writing
    <2> QED
        BY <1>3, <1>5, <2>2, <2>3
<1> QED
    BY <1>2, <1>3, <1>4, <1>1, <1>5, <1>6, <1>8 DEF WritersAlone

(* A worker's task that writes nothing, before and after.                    *)
LEMMA NobodyWrites ==
    ASSUME MountsInv, NEW w \in ApiWorkers, ~Mounts!Writing(w),
           NEW t \in {Mounts!Idle} \cup [op: {"index"}, job: IndexJobs],
           workerTask' = [workerTask EXCEPT ![w] = t],
           UNCHANGED <<mountsFile, wantedMounts, mountsRaced>>
    PROVE  /\ workerTask' \in [ApiWorkers -> {Mounts!Idle} \cup [op: {"index"}, job: IndexJobs] \cup Mounts!Writer]
           /\ workerTask'[w] = t /\ \A u \in ApiWorkers : u # w => workerTask'[u] = workerTask[u]
           /\ WritersAlone'
<1>1. workerTask \in [ApiWorkers -> {Mounts!Idle} \cup [op: {"index"}, job: IndexJobs] \cup Mounts!Writer]
    BY DEF MountsInv, Mounts!TypeOK
<1>2. workerTask'[w] = t /\ \A u \in ApiWorkers : u # w => workerTask'[u] = workerTask[u]
    BY <1>1
<1>3. t.op \notin {"add", "remove", "update"}
    BY MountTasks
<1>4. \A u \in ApiWorkers : /\ Mounts!Writing(u)' <=> Mounts!Writing(u)
                            /\ Mounts!Writing(u) => workerTask'[u] = workerTask[u]
    BY <1>2, <1>3 DEF Mounts!Writing
<1>5. Mounts!Torn' <=> Mounts!Torn
    BY <1>4 DEF Mounts!Torn
<1>6. WritersAlone'
    BY <1>4, <1>5 DEF MountsInv, WritersAlone
<1> QED
    BY <1>1, <1>2, <1>6

(* What jobs and watchers are.                                               *)
LEMMA JobTypes ==
    ASSUME MountsInv
    PROVE  /\ DOMAIN indexJobs \subseteq IndexJobs
           /\ \A j \in DOMAIN indexJobs : indexJobs[j] \in Mounts!Job /\ indexJobs[j].worker \in ApiWorkers
           /\ \A x \in jobWatchers :
                /\ x \in [job: IndexJobs, worker: ApiWorkers, seen: {"nothing", "running", "complete", "error"}]
                /\ x.job \in IndexJobs /\ x.worker \in ApiWorkers
<1>1. PICK J \in SUBSET IndexJobs : indexJobs \in [J -> Mounts!Job]
    BY DEF MountsInv, Mounts!TypeOK
<1>2. \A x \in jobWatchers :
        /\ x \in [job: IndexJobs, worker: ApiWorkers, seen: {"nothing", "running", "complete", "error"}]
        /\ x.job \in IndexJobs /\ x.worker \in ApiWorkers
    BY DEF MountsInv, Mounts!TypeOK
<1> QED
    BY <1>1, <1>2 DEF Mounts!Job

(* A mount is added or removed: the file is read, the jobs stay.             *)
LEMMA ReadStep ==
    ASSUME MountsInv, NEW w \in ApiWorkers, NEW id \in MountIds,
           \/ \E uri \in MountUris : Mounts!add_mount(w, id, uri)
           \/ Mounts!remove_mount(w, id)
    PROVE  MountsInv'
<1>1. /\ Mounts!Free(w) /\ UNCHANGED <<mountsFile, indexJobs, jobWatchers, wantedMounts>>
    BY DEF Mounts!add_mount, Mounts!remove_mount
<1>2. PICK op \in {"add", "remove"}, new \in Mounts!Mount \cup {Mounts!Idle} :
          Mounts!_load(w, op, id, new) /\ (op = "add" => new \in Mounts!Mount)
    <2>1. ASSUME NEW uri \in MountUris, Mounts!add_mount(w, id, uri)
          PROVE  \E new \in Mounts!Mount : Mounts!_load(w, "add", id, new)
        <3>1. [protocol |-> Mounts!Protocol[uri], index_status |-> "never"] \in Mounts!Mount
            BY <2>1 DEF Mounts!add_mount, Mounts!Protocol, Mounts!Mount
        <3> QED
            BY <2>1, <3>1 DEF Mounts!add_mount
    <2> QED
        BY <2>1 DEF Mounts!remove_mount
<1>3. /\ workerTask' \in [ApiWorkers -> {Mounts!Idle} \cup [op: {"index"}, job: IndexJobs] \cup Mounts!Writer]
      /\ workerTask'[w].op = op /\ workerTask'[w].new = new
      /\ \A u \in ApiWorkers : u # w => workerTask'[u] = workerTask[u]
      /\ mountsRaced' \in BOOLEAN /\ WritersAlone'
    BY <1>1, <1>2, MountTask, LoadStep
<1>4. workerTask[w].op = "idle"
    BY <1>1, MountTask
<1>5. JobsAreOwn'
    BY <1>1, <1>3 DEF MountsInv, JobsAreOwn, Running, Ending
<1>6. JobsAreTold'
    <2>1. ASSUME NEW x \in jobWatchers, x.job \in DOMAIN indexJobs, indexJobs[x.job].worker = x.worker
          PROVE  Told(x)'
        <3>1. Told(x) /\ x.worker \in ApiWorkers
            BY <2>1, JobTypes DEF MountsInv, JobsAreTold
        <3> QED
            BY <1>1, <1>3, <1>4, <3>1 DEF Told, Running, Ending
    <2> QED
        BY <1>1, <2>1 DEF JobsAreTold
<1>7. AddsMounts'
    BY <1>2, <1>3 DEF MountsInv, AddsMounts, Mounts!Mount
<1> QED
    BY <1>1, <1>3, <1>5, <1>6, <1>7 DEF MountsInv, Mounts!TypeOK, Mounts!MountsFiles, Mounts!Mount, Mounts!Job

(* The file is truncated.                                                    *)
LEMMA TruncateStep ==
    ASSUME MountsInv, NEW w \in ApiWorkers, Mounts!Truncate(w)
    PROVE  MountsInv'
<1> DEFINE t == [workerTask[w] EXCEPT !.at = "truncated"]
<1>1. /\ Mounts!Writing(w) /\ mountsFile' = <<>> /\ workerTask' = [workerTask EXCEPT ![w] = t]
      /\ UNCHANGED <<indexJobs, jobWatchers, wantedMounts, mountsRaced>>
    BY DEF Mounts!Truncate
<1>2. workerTask[w] \in Mounts!Writer
    BY <1>1, MountTask
<1>3. /\ t \in Mounts!Writer /\ t.op = workerTask[w].op /\ t.new = workerTask[w].new
      /\ t.list = workerTask[w].list /\ t.at = "truncated"
    BY <1>2 DEF Mounts!Writer
<1> HIDE DEF t
<1>4. /\ workerTask' \in [ApiWorkers -> {Mounts!Idle} \cup [op: {"index"}, job: IndexJobs] \cup Mounts!Writer]
      /\ workerTask'[w] = t /\ \A u \in ApiWorkers : u # w => workerTask'[u] = workerTask[u]
    BY <1>1, <1>3 DEF MountsInv, Mounts!TypeOK
<1>5. /\ Mounts!Torn' /\ \A u \in ApiWorkers : Mounts!Writing(u)' <=> Mounts!Writing(u)
    BY <1>1, <1>3, <1>4 DEF Mounts!Torn, Mounts!Writing
<1>6. WritersAlone'
    <2>1. \A u \in ApiWorkers : workerTask'[u].list = workerTask[u].list
        BY <1>3, <1>4
    <2> QED
        BY <1>1, <1>5, <2>1 DEF MountsInv, WritersAlone
<1>7. \A u \in ApiWorkers : /\ workerTask'[u].op = workerTask[u].op
                            /\ workerTask'[u].op \in {"add", "update"} => workerTask'[u].new = workerTask[u].new
                            /\ workerTask'[u].op = "index" => workerTask'[u].job = workerTask[u].job
    BY <1>2, <1>3, <1>4, MountTasks
<1>8. AddsMounts' /\ JobsAreOwn'
    BY <1>1, <1>7 DEF MountsInv, AddsMounts, JobsAreOwn, Running, Ending, Mounts!Mount
<1>9. JobsAreTold'
    BY <1>1, <1>7, JobTypes DEF MountsInv, JobsAreTold, Told, Running, Ending
<1> QED
    BY <1>1, <1>4, <1>6, <1>8, <1>9, NoMounts DEF MountsInv, Mounts!TypeOK, Mounts!MountsFiles, Mounts!Mount, Mounts!Job

(* A job is made, or gets a new status: the types of jobs.                   *)
LEMMA JobsOfTypes ==
    ASSUME MountsInv
    PROVE  /\ \A j \in IndexJobs, r \in Mounts!Job :
                Mounts!With(indexJobs, j, r) \in UNION {[J -> Mounts!Job] : J \in SUBSET IndexJobs}
           /\ \A j \in DOMAIN indexJobs, s \in {"running", "complete", "error"} :
                /\ [indexJobs EXCEPT ![j].status = s] \in UNION {[J -> Mounts!Job] : J \in SUBSET IndexJobs}
                /\ DOMAIN [indexJobs EXCEPT ![j].status = s] = DOMAIN indexJobs
                /\ [indexJobs EXCEPT ![j].status = s][j].status = s
                /\ [indexJobs EXCEPT ![j].status = s][j].worker = indexJobs[j].worker
                /\ \A i \in DOMAIN indexJobs : i # j => [indexJobs EXCEPT ![j].status = s][i] = indexJobs[i]
<1>1. PICK J \in SUBSET IndexJobs : indexJobs \in [J -> Mounts!Job]
    BY DEF MountsInv, Mounts!TypeOK
<1>2. ASSUME NEW j \in IndexJobs, NEW r \in Mounts!Job
      PROVE  Mounts!With(indexJobs, j, r) \in UNION {[K -> Mounts!Job] : K \in SUBSET IndexJobs}
    <2>1. Mounts!With(indexJobs, j, r) \in [J \cup {j} -> Mounts!Job]
        BY <1>1 DEF Mounts!With
    <2> QED
        BY <2>1
<1>3. ASSUME NEW j \in DOMAIN indexJobs, NEW s \in {"running", "complete", "error"}
      PROVE  /\ [indexJobs EXCEPT ![j].status = s] \in UNION {[K -> Mounts!Job] : K \in SUBSET IndexJobs}
             /\ DOMAIN [indexJobs EXCEPT ![j].status = s] = DOMAIN indexJobs
             /\ [indexJobs EXCEPT ![j].status = s][j].status = s
             /\ [indexJobs EXCEPT ![j].status = s][j].worker = indexJobs[j].worker
             /\ \A i \in DOMAIN indexJobs : i # j => [indexJobs EXCEPT ![j].status = s][i] = indexJobs[i]
    <2> DEFINE r == [indexJobs[j] EXCEPT !.status = s]
    <2>1. indexJobs[j] \in Mounts!Job
        BY <1>1
    <2>2. r \in Mounts!Job /\ r.status = s /\ r.worker = indexJobs[j].worker
        BY <2>1 DEF Mounts!Job
    <2>3. [indexJobs EXCEPT ![j].status = s] = [indexJobs EXCEPT ![j] = r]
        OBVIOUS
    <2> HIDE DEF r
    <2>4. [indexJobs EXCEPT ![j] = r] \in [J -> Mounts!Job]
        BY <1>1, <2>2
    <2> QED
        BY <1>1, <2>2, <2>3, <2>4
<1> QED
    BY <1>2, <1>3

(* A job is started: nobody watches it yet.                                  *)
LEMMA StartStep ==
    ASSUME MountsInv, NEW w \in ApiWorkers, NEW j \in IndexJobs, NEW id \in MountIds,
           Mounts!start_index(w, j, id)
    PROVE  MountsInv'
<1> DEFINE r == [worker |-> w, mount |-> id, status |-> "running"]
<1>1. /\ j \notin DOMAIN indexJobs /\ \A x \in jobWatchers : x.job # j
      /\ indexJobs' = Mounts!With(indexJobs, j, r)
      /\ UNCHANGED <<mountsFile, workerTask, jobWatchers, wantedMounts, mountsRaced>>
    BY DEF Mounts!start_index
<1>2. r \in Mounts!Job
    BY DEF Mounts!Job
<1> HIDE DEF r
<1>3. indexJobs' \in UNION {[J -> Mounts!Job] : J \in SUBSET IndexJobs}
    BY <1>1, <1>2, JobsOfTypes
<1>4. DOMAIN indexJobs' = DOMAIN indexJobs \cup {j} /\ \A i \in DOMAIN indexJobs : indexJobs'[i] = indexJobs[i]
    BY <1>1 DEF Mounts!With
<1>5. Mounts!TypeOK'
    BY <1>1, <1>3 DEF MountsInv, Mounts!TypeOK, Mounts!Writer, Mounts!MountsFiles, Mounts!Mount,
          Mounts!Idle, Mounts!Job
<1>6. WritersAlone' /\ AddsMounts'
    BY <1>1 DEF MountsInv, WritersAlone, AddsMounts, Mounts!Writing, Mounts!Torn, Mounts!Mount
<1>7. JobsAreOwn'
    BY <1>1, <1>4 DEF MountsInv, JobsAreOwn
<1>8. JobsAreTold'
    BY <1>1, <1>4 DEF MountsInv, JobsAreTold, Told
<1> QED
    BY <1>5, <1>6, <1>7, <1>8 DEF MountsInv

(* A websocket comes or goes.                                                *)
LEMMA WatchStep ==
    ASSUME MountsInv, NEW w \in ApiWorkers,
           \/ \E j \in IndexJobs : Mounts!index_progress_ws(w, j)
           \/ \E x \in jobWatchers : Mounts!WebSocketDisconnect(x)
    PROVE  MountsInv'
<1>1. UNCHANGED <<mountsFile, workerTask, indexJobs, wantedMounts, mountsRaced>>
    BY DEF Mounts!index_progress_ws, Mounts!WebSocketDisconnect
<1>2. \A x \in jobWatchers' \ jobWatchers :
        /\ x \in [job: IndexJobs, worker: ApiWorkers, seen: {"nothing", "running", "complete", "error"}]
        /\ x.job \in DOMAIN indexJobs /\ indexJobs[x.job].worker = x.worker => x.seen = indexJobs[x.job].status
    <2>1. ASSUME NEW j \in IndexJobs, Mounts!index_progress_ws(w, j), NEW x \in jobWatchers' \ jobWatchers
          PROVE  /\ x \in [job: IndexJobs, worker: ApiWorkers, seen: {"nothing", "running", "complete", "error"}]
                 /\ x.job \in DOMAIN indexJobs /\ indexJobs[x.job].worker = x.worker
                      => x.seen = indexJobs[x.job].status
        <3> DEFINE s == IF j \in DOMAIN indexJobs /\ indexJobs[j].worker = w
                           THEN indexJobs[j].status ELSE "nothing"
        <3>1. x = [job |-> j, worker |-> w, seen |-> s]
            BY <2>1 DEF Mounts!index_progress_ws
        <3>2. s \in {"nothing", "running", "complete", "error"}
            BY JobTypes DEF Mounts!Job
        <3> QED
            BY <3>1, <3>2
    <2> QED
        BY <2>1 DEF Mounts!WebSocketDisconnect
<1>3. Mounts!TypeOK'
    BY <1>1, <1>2 DEF MountsInv, Mounts!TypeOK, Mounts!Writer, Mounts!MountsFiles, Mounts!Mount,
          Mounts!Idle, Mounts!Job
<1>4. WritersAlone' /\ AddsMounts' /\ JobsAreOwn'
    BY <1>1 DEF MountsInv, WritersAlone, AddsMounts, Mounts!Writing, Mounts!Torn, Mounts!Mount, JobsAreOwn
<1>5. JobsAreTold'
    BY <1>1, <1>2 DEF MountsInv, JobsAreTold, Told
<1> QED
    BY <1>3, <1>4, <1>5 DEF MountsInv

(* A worker begins an index run.                                             *)
LEMMA RunStep ==
    ASSUME MountsInv, NEW w \in ApiWorkers, NEW j \in IndexJobs, Mounts!_run_index(w, j)
    PROVE  MountsInv'
<1> DEFINE t == [op |-> "index", job |-> j]
<1>1. /\ Mounts!Free(w) /\ j \in DOMAIN indexJobs /\ indexJobs[j].worker = w
      /\ workerTask' = [workerTask EXCEPT ![w] = t]
      /\ UNCHANGED <<mountsFile, indexJobs, jobWatchers, wantedMounts, mountsRaced>>
    BY DEF Mounts!_run_index
<1>2. t \in [op: {"index"}, job: IndexJobs] /\ t.op = "index" /\ t.job = j
    OBVIOUS
<1> HIDE DEF t
<1>3. ~Mounts!Writing(w) /\ workerTask[w].op = "idle"
    BY <1>1, MountTask
<1>4. /\ workerTask' \in [ApiWorkers -> {Mounts!Idle} \cup [op: {"index"}, job: IndexJobs] \cup Mounts!Writer]
      /\ workerTask'[w] = t /\ \A u \in ApiWorkers : u # w => workerTask'[u] = workerTask[u]
      /\ WritersAlone'
    BY <1>1, <1>2, <1>3, NobodyWrites
<1>5. AddsMounts'
    BY <1>2, <1>4 DEF MountsInv, AddsMounts, Mounts!Mount
<1>6. JobsAreOwn'
    BY <1>1, <1>2, <1>4 DEF MountsInv, JobsAreOwn, Running, Ending
<1>7. JobsAreTold'
    <2>1. ASSUME NEW x \in jobWatchers, x.job \in DOMAIN indexJobs, indexJobs[x.job].worker = x.worker
          PROVE  Told(x)'
        <3>1. Told(x) /\ x.worker \in ApiWorkers
            BY <2>1, JobTypes DEF MountsInv, JobsAreTold
        <3> QED
            BY <1>1, <1>3, <1>4, <3>1 DEF Told, Running, Ending
    <2> QED
        BY <1>1, <2>1 DEF JobsAreTold
<1> QED
    BY <1>1, <1>4, <1>5, <1>6, <1>7 DEF MountsInv, Mounts!TypeOK, Mounts!MountsFiles, Mounts!Mount, Mounts!Job

(* A job has indexed: its worker reads the mounts to update.                 *)
LEMMA IndexedStep ==
    ASSUME MountsInv, NEW w \in ApiWorkers, Mounts!Indexed(w)
    PROVE  MountsInv'
<1> DEFINE j == workerTask[w].job
           id == indexJobs[j].mount
<1>1. /\ workerTask[w].op = "index" /\ indexJobs' = [indexJobs EXCEPT ![j].status = "complete"]
      /\ Mounts!_load(w, "update", id, j) /\ UNCHANGED <<mountsFile, jobWatchers, wantedMounts>>
    BY DEF Mounts!Indexed
<1>2. j \in IndexJobs /\ ~Mounts!Writing(w) /\ Running(workerTask[w], j)
    BY <1>1, MountTask DEF Running
<1>3. j \in DOMAIN indexJobs /\ indexJobs[j].worker = w
    BY <1>2 DEF MountsInv, JobsAreOwn
<1>4. id \in MountIds
    BY <1>3, JobTypes DEF Mounts!Job
<1>5. /\ indexJobs' \in UNION {[J -> Mounts!Job] : J \in SUBSET IndexJobs}
      /\ DOMAIN indexJobs' = DOMAIN indexJobs
      /\ indexJobs'[j].status = "complete" /\ indexJobs'[j].worker = w
      /\ \A i \in DOMAIN indexJobs : i # j => indexJobs'[i] = indexJobs[i]
    BY <1>1, <1>3, JobsOfTypes
<1> HIDE DEF id
<1>6. /\ workerTask' \in [ApiWorkers -> {Mounts!Idle} \cup [op: {"index"}, job: IndexJobs] \cup Mounts!Writer]
      /\ workerTask'[w].op = "update" /\ workerTask'[w].new = j
      /\ \A u \in ApiWorkers : u # w => workerTask'[u] = workerTask[u]
      /\ mountsRaced' \in BOOLEAN /\ WritersAlone'
    BY <1>1, <1>2, <1>4, LoadStep
<1>7. AddsMounts'
    BY <1>6 DEF MountsInv, AddsMounts, Mounts!Mount
<1>8. JobsAreOwn'
    <2>1. ASSUME NEW u \in ApiWorkers, u # w, NEW i \in IndexJobs,
                 Running(workerTask[u], i) \/ Ending(workerTask[u], i)
          PROVE  i \in DOMAIN indexJobs /\ indexJobs[i].worker = u /\ indexJobs'[i] = indexJobs[i]
        BY <1>3, <1>5, <2>1 DEF MountsInv, JobsAreOwn
    <2>2. \A i \in IndexJobs : ~Running(workerTask'[w], i) /\ (Ending(workerTask'[w], i) => i = j)
        BY <1>6 DEF Running, Ending
    <2>3. ASSUME NEW u \in ApiWorkers, NEW i \in IndexJobs
          PROVE  /\ Running(workerTask'[u], i) \/ Ending(workerTask'[u], i)
                      => i \in DOMAIN indexJobs' /\ indexJobs'[i].worker = u
                 /\ Ending(workerTask'[u], i) => indexJobs'[i].status = "complete"
        <3>1. CASE u = w
            BY <1>3, <1>5, <2>2, <3>1
        <3>2. CASE u # w
            BY <1>5, <1>6, <2>1, <3>2 DEF MountsInv, JobsAreOwn
        <3> QED
            BY <3>1, <3>2
    <2> QED
        BY <2>3 DEF JobsAreOwn, Running, Ending
<1>9. JobsAreTold'
    <2>1. ASSUME NEW x \in jobWatchers, x.job \in DOMAIN indexJobs', indexJobs'[x.job].worker = x.worker
          PROVE  Told(x)'
        <3>1. x.worker \in ApiWorkers
            BY JobTypes
        <3>2. CASE x.job = j
            BY <1>5, <1>6, <2>1, <3>2 DEF Told, Ending
        <3>3. CASE x.job # j
            <4>1. x.job \in DOMAIN indexJobs /\ indexJobs'[x.job] = indexJobs[x.job]
                BY <1>5, <2>1, <3>3
            <4>2. Told(x)
                BY <2>1, <4>1 DEF MountsInv, JobsAreTold
            <4>3. x.worker = w => ~Running(workerTask[w], x.job) /\ ~Ending(workerTask[w], x.job)
                BY <1>1, <3>3 DEF Running, Ending
            <4> QED
                BY <1>6, <3>1, <4>1, <4>2, <4>3 DEF Told, Running, Ending
        <3> QED
            BY <3>2, <3>3
    <2> QED
        BY <1>1, <2>1 DEF JobsAreTold
<1> QED
    BY <1>1, <1>5, <1>6, <1>7, <1>8, <1>9 DEF MountsInv, Mounts!TypeOK, Mounts!MountsFiles, Mounts!Mount, Mounts!Job

(* A job's watchers on a worker are told.                                    *)
LEMMA Broadcasts ==
    ASSUME MountsInv, NEW w, NEW j, NEW s \in {"complete", "error"}, Mounts!_broadcast(w, j, s)
    PROVE  \A y \in jobWatchers' :
             /\ y \in [job: IndexJobs, worker: ApiWorkers, seen: {"nothing", "running", "complete", "error"}]
             /\ y.worker \in ApiWorkers
             /\ y.job = j /\ y.worker = w => y.seen = s
             /\ y.job # j \/ y.worker # w => y \in jobWatchers
<1>1. ASSUME NEW y \in jobWatchers'
      PROVE  /\ y \in [job: IndexJobs, worker: ApiWorkers, seen: {"nothing", "running", "complete", "error"}]
             /\ y.worker \in ApiWorkers
             /\ y.job = j /\ y.worker = w => y.seen = s
             /\ y.job # j \/ y.worker # w => y \in jobWatchers
    <2>1. PICK x \in jobWatchers : y = IF x.job = j /\ x.worker = w THEN [x EXCEPT !.seen = s] ELSE x
        BY DEF Mounts!_broadcast
    <2>2. x \in [job: IndexJobs, worker: ApiWorkers, seen: {"nothing", "running", "complete", "error"}]
        BY JobTypes
    <2> QED
        BY <2>1, <2>2
<1> QED
    BY <1>1

(* A job fails: its watchers are told.                                       *)
LEMMA FailedStep ==
    ASSUME MountsInv, NEW w \in ApiWorkers, Mounts!IndexFailed(w)
    PROVE  MountsInv'
<1> DEFINE j == workerTask[w].job
<1>1. /\ workerTask[w].op = "index" /\ indexJobs' = [indexJobs EXCEPT ![j].status = "error"]
      /\ workerTask' = [workerTask EXCEPT ![w] = Mounts!Idle]
      /\ Mounts!_broadcast(w, j, "error") /\ UNCHANGED <<mountsFile, wantedMounts, mountsRaced>>
    BY DEF Mounts!IndexFailed
<1>2. j \in IndexJobs /\ ~Mounts!Writing(w) /\ Running(workerTask[w], j)
    BY <1>1, MountTask DEF Running
<1>3. j \in DOMAIN indexJobs /\ indexJobs[j].worker = w
    BY <1>2 DEF MountsInv, JobsAreOwn
<1>4. /\ indexJobs' \in UNION {[J -> Mounts!Job] : J \in SUBSET IndexJobs}
      /\ DOMAIN indexJobs' = DOMAIN indexJobs
      /\ indexJobs'[j].status = "error" /\ indexJobs'[j].worker = w
      /\ \A i \in DOMAIN indexJobs : i # j => indexJobs'[i] = indexJobs[i]
    BY <1>1, <1>3, JobsOfTypes
<1>5. /\ workerTask' \in [ApiWorkers -> {Mounts!Idle} \cup [op: {"index"}, job: IndexJobs] \cup Mounts!Writer]
      /\ workerTask'[w] = Mounts!Idle /\ \A u \in ApiWorkers : u # w => workerTask'[u] = workerTask[u]
      /\ WritersAlone'
    BY <1>1, <1>2, NobodyWrites
<1>6. workerTask'[w].op = "idle"
    BY <1>5, MountTasks
<1>7. AddsMounts'
    BY <1>5, <1>6 DEF MountsInv, AddsMounts, Mounts!Mount
<1>8. JobsAreOwn'
    <2>1. ASSUME NEW u \in ApiWorkers, NEW i \in IndexJobs,
                 Running(workerTask'[u], i) \/ Ending(workerTask'[u], i)
          PROVE  /\ i \in DOMAIN indexJobs' /\ indexJobs'[i].worker = u
                 /\ Ending(workerTask'[u], i) => indexJobs'[i].status = "complete"
        <3>1. u # w
            BY <1>6, <2>1 DEF Running, Ending
        <3>2. workerTask'[u] = workerTask[u]
            BY <1>5, <3>1
        <3>3. /\ i \in DOMAIN indexJobs /\ indexJobs[i].worker = u
              /\ Ending(workerTask[u], i) => indexJobs[i].status = "complete"
            BY <2>1, <3>2 DEF MountsInv, JobsAreOwn
        <3> QED
            BY <1>3, <1>4, <3>1, <3>2, <3>3
    <2> QED
        BY <2>1 DEF JobsAreOwn, Running, Ending
<1>9. /\ \A y \in jobWatchers' :
           /\ y \in [job: IndexJobs, worker: ApiWorkers, seen: {"nothing", "running", "complete", "error"}]
           /\ y.worker \in ApiWorkers
           /\ y.job = j /\ y.worker = w => y.seen = "error"
           /\ y.job # j \/ y.worker # w => y \in jobWatchers
    BY <1>1, Broadcasts
<1>10. JobsAreTold'
    <2>1. ASSUME NEW y \in jobWatchers', y.job \in DOMAIN indexJobs', indexJobs'[y.job].worker = y.worker
          PROVE  \/ y.seen = indexJobs'[y.job].status
                 \/ Running(workerTask'[y.worker], y.job)
                 \/ Ending(workerTask'[y.worker], y.job)
        <3>1. CASE y.job = j
            BY <1>4, <1>9, <2>1, <3>1
        <3>2. CASE y.job # j
            <4>1. y \in jobWatchers /\ y.job \in DOMAIN indexJobs /\ indexJobs'[y.job] = indexJobs[y.job]
                BY <1>4, <1>9, <2>1, <3>2
            <4>2. Told(y)
                BY <2>1, <4>1 DEF MountsInv, JobsAreTold
            <4>3. y.worker = w => ~Running(workerTask[w], y.job) /\ ~Ending(workerTask[w], y.job)
                BY <1>1, <3>2 DEF Running, Ending
            <4> QED
                BY <1>5, <1>9, <4>1, <4>2, <4>3 DEF Told
        <3> QED
            BY <3>1, <3>2
    <2> QED
        BY <2>1 DEF JobsAreTold, Told, Running, Ending
<1>11. Mounts!TypeOK'
    BY <1>1, <1>4, <1>5, <1>9 DEF MountsInv, Mounts!TypeOK, Mounts!MountsFiles, Mounts!Mount, Mounts!Job
<1> QED
    BY <1>5, <1>7, <1>8, <1>10, <1>11 DEF MountsInv

(* The file is whole again, and the handler answers.                         *)
LEMMA SaveStep ==
    ASSUME MountsInv, NEW w \in ApiWorkers, Mounts!_save(w)
    PROVE  MountsInv'
<1> DEFINE t == workerTask[w]
<1>1. /\ Mounts!Writing(w) /\ t.at = "truncated" /\ mountsFile' = Mounts!Saved(t)
      /\ workerTask' = [workerTask EXCEPT ![w] = Mounts!Idle]
      /\ UNCHANGED <<indexJobs, mountsRaced>>
    BY DEF Mounts!_save
<1>2. /\ t.op = "add" => wantedMounts' = wantedMounts \cup {t.id}
      /\ t.op = "remove" => wantedMounts' = wantedMounts \ {t.id}
      /\ t.op = "update" => wantedMounts' = wantedMounts /\ Mounts!_broadcast(w, t.new, "complete")
      /\ t.op # "update" => UNCHANGED jobWatchers
    BY DEF Mounts!_save
<1>3. /\ t \in Mounts!Writer /\ t.op \in {"add", "remove", "update"} /\ t.id \in MountIds
      /\ t.op = "add" => t.new \in Mounts!Mount
    BY <1>1, MountTask, MountTasks DEF MountsInv, AddsMounts
<1>4. /\ workerTask' \in [ApiWorkers -> {Mounts!Idle} \cup [op: {"index"}, job: IndexJobs] \cup Mounts!Writer]
      /\ workerTask'[w] = Mounts!Idle /\ \A u \in ApiWorkers : u # w => workerTask'[u] = workerTask[u]
    BY <1>1 DEF MountsInv, Mounts!TypeOK
<1>5. workerTask'[w].op = "idle"
    BY <1>4, MountTasks
<1>6. /\ mountsFile' \in Mounts!MountsFiles
      /\ DOMAIN t.list = wantedMounts => DOMAIN mountsFile' = wantedMounts'
    <2>1. /\ Mounts!Saved(t) \in Mounts!MountsFiles
          /\ t.op = "add" => DOMAIN Mounts!Saved(t) = DOMAIN t.list \cup {t.id}
          /\ t.op = "remove" => DOMAIN Mounts!Saved(t) = DOMAIN t.list \ {t.id}
          /\ t.op = "update" => DOMAIN Mounts!Saved(t) = DOMAIN t.list
        BY <1>3, SavedMounts
    <2> QED
        BY <1>1, <1>2, <1>3, <2>1
<1>7. WritersAlone'
    <2>1. ASSUME mountsRaced' = FALSE
          PROVE  /\ DOMAIN mountsFile' = wantedMounts'
                 /\ \A u \in ApiWorkers : ~Mounts!Writing(u)'
        <3>1. /\ \A u \in ApiWorkers : Mounts!Writing(u) => u = w
              /\ DOMAIN t.list = wantedMounts
            BY <1>1, <2>1 DEF MountsInv, WritersAlone
        <3>2. \A u \in ApiWorkers : ~Mounts!Writing(u)'
            BY <1>4, <1>5, <3>1 DEF Mounts!Writing
        <3> QED
            BY <1>6, <3>1, <3>2
    <2> QED
        BY <2>1 DEF WritersAlone
<1>8. AddsMounts'
    BY <1>4, <1>5 DEF MountsInv, AddsMounts, Mounts!Mount
<1>9. JobsAreOwn'
    <2>1. ASSUME NEW u \in ApiWorkers, NEW i \in IndexJobs,
                 Running(workerTask'[u], i) \/ Ending(workerTask'[u], i)
          PROVE  /\ i \in DOMAIN indexJobs /\ indexJobs[i].worker = u
                 /\ Ending(workerTask'[u], i) => indexJobs[i].status = "complete"
        <3>1. u # w
            BY <1>5, <2>1 DEF Running, Ending
        <3>2. workerTask'[u] = workerTask[u]
            BY <1>4, <3>1
        <3> QED
            BY <2>1, <3>2 DEF MountsInv, JobsAreOwn
    <2> QED
        BY <1>1, <2>1 DEF JobsAreOwn, Running, Ending
<1>10. ASSUME NEW y \in jobWatchers'
       PROVE  /\ y \in [job: IndexJobs, worker: ApiWorkers, seen: {"nothing", "running", "complete", "error"}]
              /\ y.worker \in ApiWorkers /\ y.job \in IndexJobs
              /\ t.op = "update" /\ y.job = t.new /\ y.worker = w => y.seen = "complete"
              /\ y \in jobWatchers \/ (t.op = "update" /\ y.job = t.new /\ y.worker = w)
    <2>1. CASE t.op = "update"
        <3>1. Mounts!_broadcast(w, t.new, "complete")
            BY <1>2, <2>1
        <3> QED
            BY <2>1, <3>1, Broadcasts
    <2>2. CASE t.op # "update"
        BY <1>2, <2>2, JobTypes
    <2> QED
        BY <2>1, <2>2
<1>11. JobsAreTold'
    <2>1. ASSUME NEW y \in jobWatchers', y.job \in DOMAIN indexJobs, indexJobs[y.job].worker = y.worker
          PROVE  \/ y.seen = indexJobs[y.job].status
                 \/ Running(workerTask'[y.worker], y.job)
                 \/ Ending(workerTask'[y.worker], y.job)
        <3>1. CASE t.op = "update" /\ y.job = t.new /\ y.worker = w
            <4>1. Ending(workerTask[w], y.job)
                BY <3>1 DEF Ending
            <4>2. indexJobs[y.job].status = "complete"
                BY <1>10, <4>1 DEF MountsInv, JobsAreOwn
            <4> QED
                BY <1>10, <3>1, <4>2
        <3>2. CASE ~(t.op = "update" /\ y.job = t.new /\ y.worker = w)
            <4>1. y \in jobWatchers
                BY <1>10, <3>2
            <4>2. Told(y)
                BY <2>1, <4>1 DEF MountsInv, JobsAreTold
            <4>3. y.worker = w => ~Running(workerTask[w], y.job) /\ ~Ending(workerTask[w], y.job)
                BY <1>3, <3>2 DEF Running, Ending
            <4> QED
                BY <1>4, <1>10, <4>2, <4>3 DEF Told
        <3> QED
            BY <3>1, <3>2
    <2> QED
        BY <1>1, <2>1 DEF JobsAreTold, Told, Running, Ending
<1>12. Mounts!TypeOK'
    <2>1. wantedMounts' \subseteq MountIds
        BY <1>2, <1>3 DEF MountsInv, Mounts!TypeOK
    <2> QED
        BY <1>1, <1>4, <1>6, <1>10, <2>1 DEF MountsInv, Mounts!TypeOK, Mounts!MountsFiles, Mounts!Mount,
           Mounts!Job
<1> QED
    BY <1>7, <1>8, <1>9, <1>11, <1>12 DEF MountsInv

(* A worker dies: its jobs and sockets go, and what it was writing is torn.  *)
LEMMA RestartStep ==
    ASSUME MountsInv, NEW w \in ApiWorkers, Mounts!Restart(w)
    PROVE  MountsInv'
<1>1. /\ mountsRaced' = (mountsRaced \/ (Mounts!Writing(w) /\ workerTask[w].at = "truncated"))
      /\ workerTask' = [workerTask EXCEPT ![w] = Mounts!Idle]
      /\ indexJobs' = [j \in {i \in DOMAIN indexJobs : indexJobs[i].worker # w} |-> indexJobs[j]]
      /\ jobWatchers' = {x \in jobWatchers : x.worker # w} /\ UNCHANGED <<mountsFile, wantedMounts>>
    BY DEF Mounts!Restart
<1>2. /\ workerTask' \in [ApiWorkers -> {Mounts!Idle} \cup [op: {"index"}, job: IndexJobs] \cup Mounts!Writer]
      /\ workerTask'[w] = Mounts!Idle /\ \A u \in ApiWorkers : u # w => workerTask'[u] = workerTask[u]
    BY <1>1 DEF MountsInv, Mounts!TypeOK
<1>3. workerTask'[w].op = "idle"
    BY <1>2, MountTasks
<1>4. \A u \in ApiWorkers : Mounts!Writing(u)' <=> u # w /\ Mounts!Writing(u)
    BY <1>2, <1>3 DEF Mounts!Writing
<1>5. WritersAlone'
    <2>1. ASSUME mountsRaced' = FALSE
          PROVE  /\ mountsRaced = FALSE
                 /\ Mounts!Torn => Mounts!Torn'
        <3>1. mountsRaced = FALSE /\ ~(Mounts!Writing(w) /\ workerTask[w].at = "truncated")
            BY <1>1, <2>1 DEF MountsInv, Mounts!TypeOK
        <3> QED
            BY <1>2, <1>4, <3>1 DEF Mounts!Torn
    <2>2. \A u \in ApiWorkers : Mounts!Writing(u)' => Mounts!Writing(u) /\ workerTask'[u] = workerTask[u]
        BY <1>2, <1>4
    <2>3. mountsFile' = mountsFile /\ wantedMounts' = wantedMounts
        BY <1>1
    <2> QED
        BY <2>1, <2>2, <2>3 DEF MountsInv, WritersAlone
<1>6. AddsMounts'
    BY <1>2, <1>3 DEF MountsInv, AddsMounts, Mounts!Mount
<1>7. /\ DOMAIN indexJobs' = {i \in DOMAIN indexJobs : indexJobs[i].worker # w}
      /\ \A j \in DOMAIN indexJobs' : indexJobs'[j] = indexJobs[j] /\ indexJobs[j].worker # w
    BY <1>1
<1>8. JobsAreOwn'
    <2>1. ASSUME NEW u \in ApiWorkers, NEW i \in IndexJobs,
                 Running(workerTask'[u], i) \/ Ending(workerTask'[u], i)
          PROVE  /\ i \in DOMAIN indexJobs' /\ indexJobs'[i].worker = u
                 /\ Ending(workerTask'[u], i) => indexJobs'[i].status = "complete"
        <3>1. u # w
            BY <1>3, <2>1 DEF Running, Ending
        <3>2. workerTask'[u] = workerTask[u]
            BY <1>2, <3>1
        <3>3. /\ i \in DOMAIN indexJobs /\ indexJobs[i].worker = u
              /\ Ending(workerTask[u], i) => indexJobs[i].status = "complete"
            BY <2>1, <3>2 DEF MountsInv, JobsAreOwn
        <3> QED
            BY <1>7, <3>1, <3>2, <3>3
    <2> QED
        BY <2>1 DEF JobsAreOwn, Running, Ending
<1>9. JobsAreTold'
    <2>1. ASSUME NEW x \in jobWatchers', x.job \in DOMAIN indexJobs', indexJobs'[x.job].worker = x.worker
          PROVE  \/ x.seen = indexJobs'[x.job].status
                 \/ Running(workerTask'[x.worker], x.job)
                 \/ Ending(workerTask'[x.worker], x.job)
        <3>1. /\ x \in jobWatchers /\ x.worker \in ApiWorkers /\ x.worker # w
              /\ x.job \in DOMAIN indexJobs /\ indexJobs'[x.job] = indexJobs[x.job]
            BY <1>1, <1>7, <2>1, JobTypes
        <3>2. Told(x)
            BY <2>1, <3>1 DEF MountsInv, JobsAreTold
        <3> QED
            BY <1>2, <3>1, <3>2 DEF Told
    <2> QED
        BY <2>1 DEF JobsAreTold, Told, Running, Ending
<1>10. indexJobs' \in UNION {[J -> Mounts!Job] : J \in SUBSET IndexJobs}
    <2>1. indexJobs' \in [DOMAIN indexJobs' -> Mounts!Job]
        BY <1>1, <1>7, JobTypes
    <2>2. DOMAIN indexJobs' \in SUBSET IndexJobs
        BY <1>7, JobTypes
    <2> QED
        BY <2>1, <2>2
<1>11. Mounts!TypeOK'
    BY <1>1, <1>2, <1>10 DEF MountsInv, Mounts!TypeOK, Mounts!MountsFiles, Mounts!Mount, Mounts!Job
<1> QED
    BY <1>5, <1>6, <1>8, <1>9, <1>11 DEF MountsInv

(* Unless two processes wrote at once or one died between its writes, the    *)
(* file holds the mounts that were added and not removed, whatever index     *)
(* jobs do meanwhile; and whoever watches a job on its worker sees how it    *)
(* ended (manager.py:3, indexer.py:86).                                      *)
THEOREM MountsAndJobsHold == Mounts!Spec => []MountsAndJobs
<1>1. Mounts!Init => MountsInv
    <2> SUFFICES ASSUME Mounts!Init PROVE MountsInv
        OBVIOUS
    <2>1. /\ mountsFile = <<>> /\ indexJobs = <<>> /\ jobWatchers = {} /\ wantedMounts = {}
          /\ mountsRaced = FALSE /\ workerTask \in [ApiWorkers -> {Mounts!Idle}]
          /\ \A w \in ApiWorkers : workerTask[w].op = "idle"
        BY MountTasks DEF Mounts!Init
    <2>2. indexJobs \in [{} -> Mounts!Job] /\ DOMAIN mountsFile = {}
        BY <2>1
    <2>3. Mounts!TypeOK
        BY <2>1, <2>2, NoMounts DEF Mounts!TypeOK
    <2>4. \A w \in ApiWorkers : ~Mounts!Writing(w)
        BY <2>1 DEF Mounts!Writing
    <2>5. WritersAlone
        BY <2>1, <2>2, <2>4 DEF WritersAlone
    <2> QED
        BY <2>1, <2>3, <2>5 DEF MountsInv, AddsMounts, JobsAreOwn, JobsAreTold, Running, Ending
<1>2. MountsInv /\ [Mounts!Next]_(Mounts!vars) => MountsInv'
    <2> SUFFICES ASSUME MountsInv, [Mounts!Next]_(Mounts!vars) PROVE MountsInv'
        OBVIOUS
    <2>1. CASE UNCHANGED Mounts!vars
        BY <2>1 DEF Mounts!vars, MountsInv, Mounts!TypeOK, WritersAlone, AddsMounts, JobsAreOwn, JobsAreTold,
              Told, Running, Ending, Mounts!Writing, Mounts!Torn, Mounts!Writer, Mounts!MountsFiles,
              Mounts!Mount, Mounts!Job, Mounts!Idle
    <2>2. CASE Mounts!Next
        <3>1. PICK w \in ApiWorkers :
                  \/ \E id \in MountIds :
                       \/ \E uri \in MountUris : Mounts!add_mount(w, id, uri)
                       \/ Mounts!remove_mount(w, id)
                  \/ Mounts!Truncate(w)
                  \/ Mounts!_save(w)
                  \/ Mounts!Indexed(w)
                  \/ Mounts!IndexFailed(w)
                  \/ Mounts!Restart(w)
                  \/ \E j \in IndexJobs :
                       \/ \E id \in MountIds : Mounts!start_index(w, j, id)
                       \/ Mounts!index_progress_ws(w, j)
                       \/ Mounts!_run_index(w, j)
                  \/ \E x \in jobWatchers : Mounts!WebSocketDisconnect(x)
            BY <2>2 DEF Mounts!Next
        <3> QED
            BY <3>1, ReadStep, TruncateStep, SaveStep, IndexedStep, FailedStep, RestartStep, StartStep,
               WatchStep, RunStep
    <2> QED
        BY <2>1, <2>2
<1>3. MountsInv => MountsAndJobs
    <2> SUFFICES ASSUME MountsInv PROVE MountsAndJobs
        OBVIOUS
    <2>1. Mounts!MountsSurvive
        BY DEF MountsInv, Mounts!TypeOK, WritersAlone, Mounts!MountsSurvive
    <2>2. Mounts!EndIsSeen
        <3>1. ASSUME NEW x \in jobWatchers, x.job \in DOMAIN indexJobs,
                     indexJobs[x.job].worker = x.worker, Mounts!Free(x.worker)
              PROVE  x.seen = indexJobs[x.job].status
            <4>1. Told(x) /\ x.worker \in ApiWorkers
                BY <3>1, JobTypes DEF MountsInv, JobsAreTold
            <4>2. workerTask[x.worker].op = "idle"
                BY <3>1, <4>1, MountTask
            <4> QED
                BY <4>1, <4>2 DEF Told, Running, Ending
        <3> QED
            BY <3>1 DEF Mounts!EndIsSeen
    <2> QED
        BY <2>1, <2>2 DEF MountsAndJobs, Mounts!MountsAndJobs
<1> QED
    BY <1>1, <1>2, <1>3, PTL DEF Mounts!Spec
=============================================================================
