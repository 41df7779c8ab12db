------------------------------ MODULE Scanning ------------------------------
(* Services of the platform that deal with scanners: agents and their keys,  *)
(* connectors, fleets, streams, the graph of files, mounts of the server.    *)
(* They share no state that these properties see; each is an instance of     *)
(* its own module with its own parameters and variables.  What they promise  *)
(* is stated here once, for TLC (MCScanning) and for the proofs              *)
(* (ScanningProofs).                                                         *)
EXTENDS Integers, FiniteSets

-----------------------------------------------------------------------------
(* Scanner agents and their keys                                           *)
CONSTANTS AgentTenants, ScannerAgents, AgentNames, AgentKeys, AgentHandlers
VARIABLES agents, agentFlight, usedKeys, retiredKeys
Agent == INSTANCE ScannerAgents WITH
  Tenants <- AgentTenants, Agents <- ScannerAgents, Names <- AgentNames, Keys <- AgentKeys,
  Handlers <- AgentHandlers, agent <- agents, flight <- agentFlight, used <- usedKeys,
  retired <- retiredKeys

\* "Old key immediately invalidated": keys that were rotated away or revoked stay
\* dead (scanner.py:130).
RetiredKeysStayDead == Agent!RetiredKeysStayDead

-----------------------------------------------------------------------------
(* Connectors and scan schedules                                           *)
CONSTANTS ConnTenants, ConnectorIds, ConnHandlers, ConnParams, ConnSchedules, ConnAgents,
          ConnAgentTenant
VARIABLES connectors, beatSchedule, connFlight, deletedConnectors
Conn == INSTANCE Connectors WITH
  Tenants <- ConnTenants, Ids <- ConnectorIds, Handlers <- ConnHandlers, Params <- ConnParams,
  Schedules <- ConnSchedules, Agents <- ConnAgents, AgentTenant <- ConnAgentTenant,
  connector <- connectors, beat <- beatSchedule, flight <- connFlight,
  deleted <- deletedConnectors

\* Overlapping edits of a connector do not undo each other (connectors_full.py:168).
EditsSurvive == Conn!EditsSurvive

-----------------------------------------------------------------------------
(* Fleets of agents                                                        *)
CONSTANTS FleetTenants, Fleets, FleetAgents, FleetConnectors, MaxTelemetry, MaxMembers
VARIABLES fleets, fleetTelemetry, newestProbes
Fleet == INSTANCE FleetMesh WITH
  Tenants <- FleetTenants, Agents <- FleetAgents, Connectors <- FleetConnectors,
  fleet <- fleets, telemetry <- fleetTelemetry, newest <- newestProbes

\* Some entries are kept.
FleetAssumption == MaxTelemetry \in Nat \ {0}
ASSUME FleetAssumption

\* A pair of agents that has become reachable is at once in the mesh (fleet.py:237).
ReachableIsShown == Fleet!ReachableIsShown

-----------------------------------------------------------------------------
(* Streams of query results                                                *)
CONSTANTS StreamAgents, StreamConnectors, Regions, Latencies, Bandwidths, Formats, ResultSizes,
          BatchSizes, RowLimits, RowCap
VARIABLES agentTopology, stream
Data == INSTANCE DataStreams WITH
  Agents <- StreamAgents, Connectors <- StreamConnectors, Results <- ResultSizes,
  Limits <- RowLimits, topology <- agentTopology

\* Latencies and bandwidths are numbers, a batch has a row at least (stream.py:146),
\* a limit may be negative, and formats are those of FORMATS.
StreamAssumption ==
  /\ IsFiniteSet(StreamAgents) /\ Latencies \subseteq Nat /\ Bandwidths \subseteq Nat
  /\ Formats \subseteq {"jsonl", "csv", "parquet", "webdataset", "arrow"}
  /\ ResultSizes \subseteq Nat /\ BatchSizes \subseteq Nat \ {0} /\ RowLimits \subseteq Int /\ RowCap \in Nat
ASSUME StreamAssumption

\* A response that ended holds the rows asked for once and in order, and the ranked
\* sources are the fallback chain (formats.py:35-45, router.py:107-141).
RoutedAndStreamed == Data!RoutedAndStreamed

-----------------------------------------------------------------------------
(* What a scanner's sync does to the graph                                 *)
CONSTANTS GraphTenants, GraphAgents, GraphTenantOf, GraphBackend, GraphDatabase, Platform,
          Contents, Paths, Dirs, SyncHandlers, MaxFiles
VARIABLES fileNodes, otherNodes, relationships, syncFlight, cleanAnswers
Graph == INSTANCE FileGraph WITH
  Tenants <- GraphTenants, Agents <- GraphAgents, TenantOf <- GraphTenantOf,
  Backend <- GraphBackend, Database <- GraphDatabase, Handlers <- SyncHandlers,
  file <- fileNodes, node <- otherNodes, edge <- relationships, flight <- syncFlight, clean <- cleanAnswers

\* A chunk answered without errors is stored, its files in the platform's database
\* and the rest in its tenant's (scanner.py:213-268).
CleanAnswerIsStored == Graph!CleanAnswerIsStored

-----------------------------------------------------------------------------
(* Mounts of the server and the local indexer                              *)
CONSTANTS ApiWorkers, MountIds, IndexJobs, MountUris
VARIABLES mountsFile, workerTask, indexJobs, jobWatchers, wantedMounts, mountsRaced
Mounts == INSTANCE MountsIndexer WITH
  Workers <- ApiWorkers, Ids <- MountIds, Jobs <- IndexJobs, Uris <- MountUris,
  disk <- mountsFile, task <- workerTask, jobs <- indexJobs, watchers <- jobWatchers,
  wanted <- wantedMounts, raced <- mountsRaced

\* mounts.json holds the mounts that were added, and watchers of a job see its end
\* (manager.py:3, indexer.py:86).
MountsAndJobs == Mounts!MountsAndJobs
=============================================================================
