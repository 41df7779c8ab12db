----------------------------- MODULE AgentLoop ------------------------------
(***************************************************************************)
(* The main loop of dgraph-agent (cmd/dgraph-agent/main.go): which          *)
(* connectors it knows, after fetches that succeed, fail or are answered    *)
(* from the cache (internal/platform/client.go), and which it scans; with   *)
(* the platform's side of the fetch (api/agent.py).                         *)
(*                                                                         *)
(* A scan of one connector is AgentDelivery; here it is a step.  Heartbeats *)
(* (ScannerAgents) change nothing in the agent.                             *)
(***************************************************************************)
EXTENDS Naturals

CONSTANTS ConnectorConfig,  \* a connector's id and settings
          Texts,    \* the settings that hold strings only
          Refused,  \* the settings connector.New returns an error for
          Static,   \* the connectors of the agent's config file, strings all and one per id
          MaxStops  \* bound: how often the agent stops

Ids == {c.id : c \in ConnectorConfig}
OnePerId(s) == \A c, d \in s : c.id = d.id => c = d

VARIABLES
  listed,      \* platform: this agent's active connectors
  up,          \* the process runs
  connectors,  \* cfg.Connectors
  lastConfig,  \* platform.Client.lastConfig: the last answer, or nothing
  due,         \* what waits to run: the goroutine of the first scan, the two tickers
  todo,        \* connectors left to runAllScans: of the goroutine, of the main loop
  stops        \* how often the agent has stopped
vars == <<listed, up, connectors, lastConfig, due, todo, stops>>

Scanners == {"first", "main"}

Start(assigned) ==
  /\ listed = assigned /\ up = FALSE /\ connectors = {} /\ lastConfig = {}
  /\ due = {} /\ todo = [w \in Scanners |-> {}] /\ stops = 0
Init == Start({})

-----------------------------------------------------------------------------
\* Platform.  An administrator assigns or edits a connector, or schedules it,
\* which puts a number among the settings; or disables, unassigns or deletes it.
Assign(c) == /\ listed' = {d \in listed : d.id # c.id} \cup {c}
             /\ UNCHANGED <<up, connectors, lastConfig, due, todo, stops>>
Withdraw(i) == /\ \E c \in listed : c.id = i
               /\ listed' = {c \in listed : c.id # i}
               /\ UNCHANGED <<up, connectors, lastConfig, due, todo, stops>>

-----------------------------------------------------------------------------
\* FetchConfig: the answer, when its settings decode as map[string]string; the
\* last answer, when the platform is not reached; otherwise (an error status, an
\* answer that does not decode) an error.
Decodes(answer) == \A c \in answer : c.settings \in Texts
Fetched(answer) == Decodes(answer) /\ lastConfig' = {answer}
Cached(answer)  == answer \in lastConfig /\ UNCHANGED lastConfig

\* Variant: what is configured already comes first.
MergeUnderStatic(old, answer) ==
  old \cup {c \in answer : \A d \in old : d.id # c.id}
\* mergeConnectors: the answer, and every connector the answer does not name.
MergeConnectors(old, answer) ==
  answer \cup {c \in old : \A d \in answer : d.id # c.id}

Merge(old, answer) == connectors' = MergeConnectors(old, answer)

\* run, up to the loop.  Without an answer the static connectors must do; when
\* there are none it returns an error, and the process ends (no change).  The ids
\* of tenant and agent, which the first answer brings too, are read by nothing here.
Begin(answered) ==
  /\ ~up
  /\ up' = TRUE /\ due' = {"first"}
  /\ \/ answered /\ Fetched(listed) /\ Merge(Static, listed)
     \/ ~answered /\ Static # {} /\ connectors' = Static /\ UNCHANGED lastConfig
  /\ UNCHANGED <<listed, todo, stops>>

\* A ticker fires; its channel holds one tick.
Tick(t) ==
  /\ up /\ t \notin due
  /\ due' = due \cup {t}
  /\ UNCHANGED <<listed, up, connectors, lastConfig, todo, stops>>

\* The select of the main loop, which is not reached during its own scan.
Selecting(t) == up /\ todo["main"] = {} /\ t \in due /\ due' = due \ {t}

Refresh ==
  /\ Selecting("config")
  /\ Fetched(listed) /\ Merge(connectors, listed)
  /\ UNCHANGED <<listed, up, todo, stops>>
RefreshFails ==
  /\ Selecting("config")
  /\ \/ \E a \in lastConfig : Cached(a) /\ Merge(connectors, a)
     \/ UNCHANGED <<connectors, lastConfig>>
  /\ UNCHANGED <<listed, up, todo, stops>>

\* runAllScans ranges over the connectors there are when it starts.
ScanAll ==
  /\ Selecting("scan")
  /\ todo' = [todo EXCEPT !["main"] = connectors]
  /\ UNCHANGED <<listed, up, connectors, lastConfig, stops>>
FirstScan ==
  /\ up /\ "first" \in due
  /\ due' = due \ {"first"}
  /\ todo' = [todo EXCEPT !["first"] = connectors]
  /\ UNCHANGED <<listed, up, connectors, lastConfig, stops>>

\* It goes on with the next connector, whatever became of this one.
Rest(w, c) == todo[w] \ {c}
Scan(w, c) ==
  /\ c \in todo[w]
  /\ todo' = [todo EXCEPT ![w] = Rest(w, c)]
  /\ UNCHANGED <<listed, up, connectors, lastConfig, due, stops>>

\* A signal or a crash: nothing is kept.
Stop ==
  /\ up /\ stops < MaxStops
  /\ stops' = stops + 1
  /\ up' = FALSE /\ connectors' = {} /\ lastConfig' = {}
  /\ due' = {} /\ todo' = [w \in Scanners |-> {}]
  /\ UNCHANGED listed

Next ==
  \/ \E c \in ConnectorConfig : Assign(c)
  \/ \E i \in Ids : Withdraw(i)
  \/ \E answered \in BOOLEAN : Begin(answered)
  \/ \E t \in {"config", "scan"} : Tick(t)
  \/ Refresh \/ RefreshFails \/ ScanAll \/ FirstScan \/ Stop
  \/ \E w \in Scanners, c \in ConnectorConfig : Scan(w, c)
Spec == Init /\ [][Next]_vars

\* The process is started again, tickers fire, scans end, select takes each ready
\* case again and again, and the platform is reached again and again.
Fairness ==
  /\ SF_vars(Begin(TRUE)) /\ SF_vars(Refresh)
  /\ \A t \in {"config", "scan"} : WF_vars(Tick(t))
  /\ SF_vars(ScanAll) /\ WF_vars(FirstScan)
  /\ \A w \in Scanners : WF_vars(\E c \in ConnectorConfig : Scan(w, c))
FairSpec == Spec /\ Fairness

-----------------------------------------------------------------------------
\* The configuration names a connector once, of both sources.
TypeOK ==
  /\ listed \subseteq ConnectorConfig /\ OnePerId(listed)
  /\ connectors \subseteq ConnectorConfig /\ OnePerId(connectors)
  /\ \A a \in lastConfig : a \subseteq ConnectorConfig /\ Decodes(a) /\ OnePerId(a)
  /\ up \in BOOLEAN /\ due \subseteq {"first", "config", "scan"} /\ stops \in 0..MaxStops
  /\ DOMAIN todo = Scanners /\ \A w \in Scanners : todo[w] \subseteq ConnectorConfig

\* "Fetch which connectors to scan from the platform", "picks up new connectors"
\* (main.go:10-14): a connector that stays assigned with some settings is scanned
\* with them again and again, after fetches that failed, a cached answer, older
\* settings, a first scan that still runs, connectors that cannot be opened and
\* restarts; as long as what the platform answers decodes.
Scanned(c) == \E w \in Scanners : Scan(w, c)
AssignedIsScanned ==
  \A c \in ConnectorConfig :
    c.settings \notin Refused /\ <>[](c \in listed /\ Decodes(listed)) => []<><<Scanned(c)>>_vars
=============================================================================
