----------------------------- MODULE MCScanning -----------------------------
(* The scanners' services and the local accounts for TLC, side by side: a    *)
(* behaviour is one of the service named by part, and the variables of the   *)
(* others stay as they were initially.  Accounts come with one request at a  *)
(* time.                                                                     *)
EXTENDS Scanning, Accounts, TLC

CONSTANTS t1, a1, p1

VARIABLE part

\* Parameters that are no sets of model values.
AgentOfT1 == a1 :> t1
ScannersOf == [a1 |-> "t1", a2 |-> "t2"]
LimitsAsked == {-1, 0, 3}
BackendOf == [t1 |-> "neo4j", t2 |-> "neptune"]
DatabaseOf == [t1 |-> "own", t2 |-> "neptune"]

\* The variables of each service.
AgentVars == <<agents, agentFlight, usedKeys, retiredKeys>>
ConnVars == <<connectors, beatSchedule, connFlight, deletedConnectors>>
FleetVars == <<fleets, fleetTelemetry, newestProbes>>
DataVars == <<agentTopology, stream>>
GraphVars == <<fileNodes, otherNodes, relationships, syncFlight, cleanAnswers>>
MountsVars == <<mountsFile, workerTask, indexJobs, jobWatchers, wantedMounts, mountsRaced>>

\* Only its own part moves a service's variables.
Still ==
  /\ part # "keys" => UNCHANGED AgentVars
  /\ part # "connectors" => UNCHANGED ConnVars
  /\ part # "fleet" => UNCHANGED FleetVars
  /\ part # "streams" => UNCHANGED DataVars
  /\ part # "files" => UNCHANGED GraphVars
  /\ part # "mounts" => UNCHANGED MountsVars
  /\ part # "accounts" => UNCHANGED vars
PartsInit ==
  /\ part \in {"accounts",
              "keys", "connectors", "fleet", "streams", "files", "mounts"}
  /\ Agent!Init /\ Conn!Init /\ Fleet!Init /\ Data!Init /\ Graph!Init /\ Mounts!Init /\ Init
  \* One initial state of a service that is not the part.
  /\ part # "accounts" => \A u \in Users : cred[u].password = p1
PartsNext ==
  /\ UNCHANGED part
  /\ \/ part = "accounts" /\ Next
     \/ part = "keys" /\ Agent!Next
     \/ part = "connectors" /\ Conn!Next
     \/ part = "fleet" /\ Fleet!Next
     \/ part = "streams" /\ Data!Next
     \/ part = "files" /\ Graph!Next
     \/ part = "mounts" /\ Mounts!Next
  /\ Still
PartsSpec ==
  PartsInit /\ [][PartsNext]_<<part, vars, AgentVars, ConnVars, FleetVars, DataVars, GraphVars, MountsVars>>
=============================================================================
