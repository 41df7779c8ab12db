------------------------------ MODULE FleetMesh -------------------------------
(***************************************************************************)
(* Fleets of scanner agents: members, connector assignments and the mesh of  *)
(* probe results (api/fleet.py).  All of it is kept in the memory of one     *)
(* API process.                                                             *)
(***************************************************************************)
EXTENDS Integers, FiniteSets, FiniteSetsExt, SequencesExt

CONSTANTS Tenants, Fleets, Agents, Connectors,
          MaxTelemetry,  \* the last 100 entries are kept
          MaxMembers     \* bound: agents named by one request

Absent == [gone |-> TRUE]
Fleet == [tenant: Tenants, agent_ids: Seq(Agents), assignments: [Connectors -> Agents \cup {Absent}]]
Probe == [peer: Agents, reachable: BOOLEAN]
Entry == [from: Agents, probe: Probe]

VARIABLES
  fleet,      \* _FLEETS
  telemetry,  \* _TELEMETRY, oldest first
  newest      \* history: per fleet, the newest entry of each pair of agents
vars == <<fleet, telemetry, newest>>
Rows == {f \in Fleets : fleet[f] # Absent}
Members == SeqOf(Agents, MaxMembers)

-----------------------------------------------------------------------------
(* api/fleet.py.  `t` is the tenant of the caller.                         *)
Own(t, f) == fleet[f] # Absent /\ fleet[f].tenant = t
CreateFleet ==
  \E f \in Fleets \ Rows, t \in Tenants, ids \in Members :
    /\ fleet' = [fleet EXCEPT ![f] = [tenant |-> t, agent_ids |-> ids,
                                      assignments |-> [c \in Connectors |-> Absent]]]
    /\ telemetry' = [telemetry EXCEPT ![f] = <<>>]
    /\ UNCHANGED newest
\* The members change; what was assigned to them stays assigned.
UpdateFleet ==
  \E t \in Tenants, f \in Fleets, ids \in Members :
    /\ Own(t, f)
    /\ fleet' = [fleet EXCEPT ![f].agent_ids = ids]
    /\ UNCHANGED <<telemetry, newest>>
DeleteFleet ==
  \E t \in Tenants, f \in Fleets :
    /\ Own(t, f)
    /\ fleet' = [fleet EXCEPT ![f] = Absent] /\ telemetry' = [telemetry EXCEPT ![f] = <<>>]
    /\ newest' = [newest EXCEPT ![f] = <<>>]
Pair(e) == {e.from, e.probe.peer}
LastN(s, n) == SubSeq(s, Len(s) - n + 1, Len(s))
KeepOldest(s) == IF Len(s) > MaxTelemetry THEN SubSeq(s, 1, MaxTelemetry) ELSE s   \* Variant
Keep(s) == IF Len(s) > MaxTelemetry THEN LastN(s, MaxTelemetry) ELSE s
SubmitTelemetry ==
  \E t \in Tenants, f \in Fleets, e \in Entry :
    /\ Own(t, f) /\ e.from # e.probe.peer
    /\ telemetry' = [telemetry EXCEPT ![f] = Keep(Append(@, e))]
    /\ newest' = [newest EXCEPT ![f] = [p \in DOMAIN @ \cup {Pair(e)} |-> IF p = Pair(e) THEN e ELSE @[p]]]
    /\ UNCHANGED fleet
\* Round robin whatever the strategy: the i-th connector goes to member i
\* modulo the number of members, a later mention of it overwriting an earlier.
RoundRobin(cs, ids) ==
  LET LastMention(c) == Max({i \in 1..Len(cs) : cs[i] = c})
  IN [c \in ToSet(cs) |-> ids[((LastMention(c) - 1) % Len(ids)) + 1]]
AssignConnectors ==
  \E t \in Tenants, f \in Fleets, cs \in SeqOf(Connectors, Cardinality(Connectors)) :
    /\ Own(t, f) /\ fleet[f].agent_ids # <<>>
    /\ LET new == RoundRobin(cs, fleet[f].agent_ids)
       IN fleet' = [fleet EXCEPT ![f].assignments =
                      [c \in Connectors |-> IF c \in DOMAIN new THEN new[c] ELSE @[c]]]
    /\ UNCHANGED <<telemetry, newest>>

\* get_mesh: newest entries first, one edge per pair, the first that was
\* reachable.
Mesh(f) ==
  LET s == telemetry[f]
      Newest(i) == \A j \in i + 1..Len(s) : ~(Pair(s[j]) = Pair(s[i]) /\ s[j].probe.reachable)
  IN {Pair(s[i]) : i \in {i \in 1..Len(s) : s[i].probe.reachable /\ Newest(i)}}
\* get_fleet: the peers a member has reached; nothing takes one out again.
PeerLatency(f, a) ==
  LET s == telemetry[f]
  IN {s[i].probe.peer : i \in {i \in 1..Len(s) : s[i].from = a /\ s[i].probe.reachable}}

\* Nothing is persisted.
Restart ==
  /\ fleet' = [f \in Fleets |-> Absent] /\ telemetry' = [f \in Fleets |-> <<>>]
  /\ newest' = [f \in Fleets |-> <<>>]

Init ==
  /\ fleet = [f \in Fleets |-> Absent] /\ telemetry = [f \in Fleets |-> <<>>]
  /\ newest = [f \in Fleets |-> <<>>]
Next == \/ CreateFleet \/ UpdateFleet \/ DeleteFleet \/ SubmitTelemetry \/ AssignConnectors
        \/ Restart
Spec == Init /\ [][Next]_vars

-----------------------------------------------------------------------------
\* Trimming the telemetry (fleet.py:237) never loses what was just submitted: a
\* pair that has become reachable is at once in the mesh, and on the member's page.
BecameReachable(f, p) == /\ p \notin DOMAIN newest[f] \/ newest'[f][p] # newest[f][p]
                         /\ newest'[f][p].probe.reachable
Shown(f, p) == p \in Mesh(f) /\ newest[f][p].probe.peer \in PeerLatency(f, newest[f][p].from)
ReachedShows == \A f \in Rows : \A p \in DOMAIN newest'[f] : BecameReachable(f, p) => Shown(f, p)'
ReachableIsShown == [][ReachedShows]_vars
=============================================================================
