# Formal models of dGraph.ai

TLA+ specifications of the stateful core of this repository, TLC
configurations that check them on small instances, and TLAPS proofs of the
theorems that matter most. Paths below are relative to the repository root; the
Python package is `src/dgraphai/`, the Go programs are `dgraph-proxy/` and
`agent-go/`.

`PROJECT.json` lists, for every definition, the lines it models (`map`); what is
hard to test and which property watches it (`hazards`); and where the code
disagrees with its own documentation (`findings`).

## 1. Inventory

### What runs where

```
 customer site                                  cloud
 +---------------------+   POST /ingest/delta  +----------------+    +-------+
 | dgraph-agent        |---------------------->| dgraph-ingest  |--->| Neo4j |
 |  connectors, sync,  |   /api/scanner/...    |  write batcher |    +-------+
 |  offline queue      |---------------------->+----------------+        ^
 +---------------------+                       | FastAPI        |--------+
 +---------------------+   proxy sync batches  |  routers,      |    +------------+
 | dgraph-proxy        |---------------------->|  workflows,    |--->| PostgreSQL |
 |  graph store, delta |<---- acknowledgements |  auth, SCIM    |    +------------+
 |  queue, syncer      |                       | Celery tasks   |--->  Redis
 +---------------------+                       +----------------+
```

| Component | State | Operations | What is hard | What makes it correct |
|---|---|---|---|---|
| **dgraph-proxy store** (`internal/store`) | Badger: node and edge records, delta queue, leased sequence | upsert, delete, DrainDeltas, AckDeltas, Close | numbers are taken before the commit; crash loses the lease | nothing committed is lost; numbers unique; replay by number gives the graph |
| **dgraph-proxy syncer** (`internal/sync`) | backoff, batch in flight | Run loop, ForceSync, heartbeat | two syncs of one queue, lost and late answers, restart | at-least-once, in order, queue drains when the network is back |
| **Cloud proxy endpoint** (`api/proxy_sync.py`) | none (the ingest is a stub) | proxy_sync, heartbeat | the same batch twice, an old batch late | acknowledges only what it has taken |
| **Workflow engine** (`workflows/engine.py`, `api/workflows.py`, `db/session.py`) | workflow_runs, approval_requests, the request's transaction | start_run, process_approval, _advance with each kind of step | file actions precede the commit; two deciders; rollback of the mark "expired"; an `else_step` may go back, past approvals already given | no file is touched while an approval of the run is open; every running run waits for exactly one |
| **dgraph-ingest** (`cmd/dgraph-ingest`) | shared buffer, response channels | handleDelta, Submit, flush, flushLoop, shutdown | requests share batches; a request spans two of them; SIGTERM | nothing lost or handed on twice; every request answered; acknowledged means written |
| **dgraph-agent sync client** (`internal/sync/client.go`) | batch, chunk number, counters | Sync, sendDelta, FlushQueue | retries of posts that did arrive; the flush after an error | a completed scan is whole; a number names one chunk |
| **dgraph-agent offline queue** (`internal/queue/sqlite.go`) | SQLite rows with attempt counts | Enqueue, Flush | two Flush calls on one file; failures skipped | rows given up only after all attempts; rows leave |
| **Graph circuit breaker** (`graph/circuit_breaker.py`) | state, failure times, time of opening | call, transitions | results of calls begun in an earlier state | few failures while closed; closes only on a trial; recovers |
| **dgraph-agent main loop, platform client** (`cmd/dgraph-agent`, `internal/platform`) | connectors, cached answer, tickers | fetch, merge, scan, restart | the first scan runs beside the loop; the loop is deaf during its own scans; cached, failed and undecodable answers | an assigned connector is scanned, with its newest settings |
| **Local accounts** (`auth/local.py`) | passwords, lockout, MFA, mailed tokens, sessions, API keys | login, reset, change, enrol, revoke | `get_db` rolls back what a refused request recorded; a session is inserted queries after the password was verified | sessions belong to the password of now; a proof is accepted once |
| **Tenants, users, single sign-on, RBAC** (`auth/scim.py`, `saml.py`, `oidc.py`, `api/users.py`, `tenants.py`, `rbac/engine.py`) | tenants, users, roles, assignments, invitations | six ways to make a user, five to change one | an address is looked up first and written later | one account per address; permissions of the own tenant; tokens for active users |
| **Scanner agents' keys** (`api/agent.py`, `api/scanner.py`) | agents with keys and two times of last contact | token, heartbeats, rotation, revocation | a heartbeat that was authenticated with the old key commits after the rotation | a retired key stays dead |
| **Connectors, schedules** (`api/connectors_full.py`, `scan_schedule.py`) | connectors, Beat's table in memory | create, update, test, schedule, delete | two edits of one row; a restart | edits survive each other |
| **Fleets** (`api/fleet.py`) | fleets and telemetry, in memory | members, assignments, mesh | trimming of the telemetry | what is reachable is shown |
| **Streams** (`api/stream.py`, `streaming/`) | topology, a response under way | choose a source, serialize | last partial batches, caps, ties | rows once and in order; the fallback chain |
| **Scanner sync and graph** (`api/scanner.py`, `graph/dedup.py`, `graph/backends/`) | File nodes, nodes, edges | sync_delta | several transactions per request, in two databases; each may fail or be the last | answered without errors means stored |
| **Saved queries, exports** (`api/queries.py`) | queries, exports, background tasks | save, run, export, delete | a query renamed, hidden, deleted or run again while a run of it is under way | runs are counted, exports can be polled |
| **Usage and billing plans** (`api/usage.py`, `licensing/metering.py`) | a snapshot under way, one shared driver | count, bill | concurrent counts close each other's driver; a failed count is zero | a bill rests on a real count, and bills nothing twice |
| **Licences** (`licensing/license.py`, `keygen.py`) | licence file, cached licence | issue, load, warn, gate | time passes, files and machines change, the cache stays | the licence in force was acceptable |
| **Rate limiter** (`middleware/rate_limit.py`) | Redis sorted set | check | refused requests are counted, Redis fails open, several API processes may read one instant | the limit holds |
| **Mounts, local indexer** (`mounts/manager.py`, `api/indexer.py`) | `mounts.json`, jobs and websockets in memory | add, remove, index, watch | four worker processes rewrite one file; a job blocks its worker | additions persist; watchers see the end |
| **Stripe** (`api/settings.py`) | plan, customer, events | checkout, webhook, settings | events late, repeated, out of order; checkout rolled back; sign-up stores the client's plan | once Stripe has spoken, a paid plan was paid |
| **Alert rules, webhook endpoints** (`api/alerts.py`, `webhooks/outbound.py`) | rules, endpoints | create, install, delete | installs overlap; names have no constraint | what a tenant has, it sees |
| dgraph-agent fleet package | probes | ProbeAll | imported by no program | - |
| dgraph-agent connectors, classification, enricher; enricher-rs | none | walk, classify | I/O | - |
| dgraph-gateway | rate windows | proxying, limiting | the limiter is RateLimiter's | - |
| Celery tasks, alert evaluation, webhook delivery | job rows, graph | indexing, erasure, delivery | redelivery, time limits | cannot start at this commit (`async_session`) |
| Audit log, notifications, e-mail | log | - | nobody writes the log | - |
| Query engine, search, inventory, compliance, GraphQL, SDKs, UI, deployment | none of interest | read | - | - |

## 2. Modules

| Module | Models | Kind |
|---|---|---|
| `DeltaOutbox` | what `dgraph-proxy/README.md` promises of the delta queue | abstract specification |
| `ProxySync` | store, syncer, wire and cloud endpoint, composed | detailed specification |
| `ApprovedRuns` | the state machine of a run that the header of `workflows/engine.py` promises | abstract specification |
| `WorkflowRuns` | workflow engine in its database transactions | detailed specification |
| `IngestBatcher` | dgraph-ingest | specification |
| `AgentDelivery` | agent scans and the offline queue | specification |
| `CircuitBreaker` | breaker of one tenant | specification |
| `AgentLoop` | main loop of dgraph-agent and the platform's answer to its fetch | specification |
| `Accounts` | local accounts | specification |
| `Directory` | tenants, users, roles and every way to sign in | specification |
| `ScannerAgents`, `Connectors`, `FleetMesh` | agents' keys; connectors and schedules; fleets | specifications |
| `FileGraph`, `DataStreams`, `SavedQueries` | what reaches the graph, and what is read from it | specifications |
| `UsageBilling`, `Licensing`, `TenantBilling`, `RateLimiter` | what is billed, licensed, paid and limited | specifications |
| `MountsIndexer`, `AlertRules` | local mounts and index jobs; alert rules and endpoints | specifications |
| `Scanning` | one instance each of `ScannerAgents`, `Connectors`, `FleetMesh`, `DataStreams`, `FileGraph`, `MountsIndexer`, and what they promise | instances |
| `Administration` | the same of `RateLimiter`, `Licensing`, `AlertRules`, `SavedQueries`, `UsageBilling`, `TenantBilling` | instances |
| `ProxyState`, `IngestState`, `BreakerState` | parameters, assumptions and variables of `ProxySync`, `IngestBatcher` and `CircuitBreaker`, and what they promise in every instance; shared with `MCCommits` and `MCIngestion` | state |
| `ProxySyncProofs`, `WorkflowRunsProofs`, `IngestBatcherProofs`, `AgentDeliveryProofs`, `CircuitBreakerProofs`, `AccountsProofs` | theorems about the module they are named after | TLAPS |
| `ScanningProofs`, `AdministrationProofs` | theorems about the services of `Scanning`, and about those of `Administration` and `Directory` | TLAPS |
| `MC...` | instances for TLC | model checking |

`Scanning` and `Administration` give every service its own constants and
variables (the scanner's agents are `agents`, `agentFlight`, ...), so that TLC and
TLAPS speak of the same definitions. `MCScanning`, `MCAdministration`,
`MCAgentDelivery`, `MCCommits` (ProxySync and WorkflowRuns) and `MCIngestion`
(IngestBatcher and CircuitBreaker) check several services side by side: a
variable `part` says which of them a behaviour is of, never changes, and the
variables of the others stay as they were. Nothing is composed by this, no state
is shared and the state spaces add up instead of multiplying. Where `MCIngestion`
asks for fairness, it asks it of the part that moves: in a behaviour of the breaker
no request has arrived at the batcher, and in one of the batcher nobody uses the
breaker. `MCScanning` also holds Accounts and `MCAdministration` Directory.

A definition whose comment begins with "Variant:" is not part of a
specification. It is a definition changed the way a plausible bug would change
it; `PROJECT.json` (`mutants`) says which property it breaks.

### ProxySync

`graph`, `queue`, `nextSeq` and `leased` are the `n:`/`e:` records, the `d:`
records and the two halves of Badger's sequence; a record's value is abstracted
to the number of the write it comes from. A write is two actions: `BeginWrite`
(the number is taken inside the transaction) and `CommitWrite` or `AbortWrite`.
The store's transactions read nothing, so Badger lets any two of them commit in
either order. `SyncNothing`, `Post`, `GiveUp`, `LoseReply`, `Ack` and `AckFails`
are the branches of `Syncer.sync` with what `Run` does to the backoff
afterwards; the loop and every force-sync request take them independently.
`Answer` and `LateArrival` are `proxy_sync`: the second is a batch whose sender
gave up but whose request arrives all the same. `Crash` and `Shutdown` lose the
memory; only the second returns the lease.

`received` stands for "the cloud acknowledged it". The code acknowledges without
storing anything (the Neo4j ingest is a `pass`), so the model says nothing of
what the cloud keeps.

`TenantLookupWorks = FALSE` is the endpoint as written: `_validate_proxy_token`
calls `db.query` on an `AsyncSession`, so every request ends in a 500. What follows is
`proxy_as_built`: `EventuallySynced`, the README's promise that the queue drains, fails on
every network. The passing runs set it to `TRUE`, for otherwise nothing beyond the first
batch could be checked, and so the liveness property they check has the repair in its
premise (`SyncedOnceRepaired == TenantLookupWorks => EventuallySynced`). The safety
properties and the theorems hold of both values.

The wait (`Waits`) starts at the interval, doubles, and is cut at the cap, also when
the interval is above the cap, which `config.go` accepts: a failure then shortens the wait.

`DeltaOutbox` is three actions: changes are made and held in one step, reach the
cloud any number of times, and are forgotten only when they have. `ProxySync`
implements it with `held <- queue`.

### WorkflowRuns

`runs` and `approvals` are committed rows; `txn[q]` is what a request has read
and changed so far. `process_approval` is split where it waits: `ReadApproval`
(the SELECT that asks for a pending row), `WriteDecision` (the UPDATE, which
waits for the row lock of a concurrent decision, and the SELECT of the run
after it), one action per step of `_advance`, and `Commit` or `Rollback` by
`get_db`. FastAPI runs the commit after the endpoint has returned. File actions
are recorded in `acts` when they happen: a rollback does not undo them.
Templates are a constant, because no code changes one, and any JSON a client sends:
an `else_step` may lead forward, back, to the step itself, past the end, or, being an
index of Python, from the end (`Index`, `StepAt`). A run that goes back (`Moves`) comes to
an approval again and is asked again, or recurses until Python's limit rolls it
back; `jumps` counts how often, `MaxJumps` is the bound. The context of a run
holds files only (a client could supply `approvals` of its own).
`Spec` lets requests overlap as they like; `ApartSpec` is `Spec` with those for one
run one at a time.

`ApprovedRuns` is three actions: a run starts, a human approves the gate it stands at, a human
rejects it. A run that starts or is approved goes on to its next stop in one step, which may be
any step of its template. `WorkflowRuns` implements it, with requests for one run apart, by what
is committed: `run` is the status and the step of each row, `gate` the approvals with their run,
step and status. Only a commit is a step of it; reading, advancing, file actions, rollbacks and
expiry show nothing.

### IngestBatcher

`pending` is the shared buffer, `mutex` its lock, `answer[r]` the channel of capacity one a
request waits on, of which it reads the first value. `AppendRecord` includes the flush that a
full buffer triggers; `Tick` is the flush loop; `Terminate`, `Exit` and `Crash` are the ends of
the process. `UpsertFiles` and `Publish` are stubs in the code and taken as services: a write
may fail per tenant, a publish does not.

### AgentDelivery

`WalkFile`, `WalkEnds`, `PostAccepted`, `PostFails`, `Enqueue` and `ChunkFails`
are `Client.Sync` and `sendDelta`; `ReadRows`, `SendRow`, `DeleteSent` and
`CountFailure` are `SQLiteQueue.Flush`, which holds its mutex for each database
access but not while it sends. The agent as built passes a nil queue and nobody
calls `FlushQueue` (see findings): the model attaches the queue the way the comments of
both files describe. The behaviours of `HasQueue = FALSE` are among those of
`TRUE`, since the insert may fail.

### CircuitBreaker

One breaker; each tenant has one of its own and they share nothing. Times are
ages: `openFor` since the breaker opened, `failures` the ages of the last
`Threshold` failures. `Admit` and `Refuse` are the check in `call`, `Succeed`,
`Fail` and `Cancel` its three ways to end, each atomic because nothing is
awaited under the lock. The model assumes `QueryTimeout <= ResetTimeout`
(both 30 s by default) and a timer that fires on time; both matter to
`ConfirmedByTrial`, for a longer query could outlive the wait and close the
breaker without a trial. No module that queries the graph calls the breaker yet:
the model is of the component, not of its use.

### AgentLoop

`connectors` is `cfg.Connectors`, `lastConfig` the cached answer, `due` what the
tickers and the first scan's goroutine have ready, `todo` what each `runAllScans`
has left. `Begin` is `run` up to the loop, `Refresh` and `RefreshFails` the
outcomes of a fetch, `ScanAll`, `FirstScan` and `Scan` the scans; one connector is
one step, whose inside is AgentDelivery. The loop selects only when its own scan has
ended. The goroutine reads the slice without a lock, minutes before the first tick
may change it; the model lets it read at once. `listed` is the answer of
`get_agent_config`; an answer with a number among the settings does not decode.

### Requests of the platform

`Accounts`, `Directory`, `ScannerAgents`, `Connectors`, `SavedQueries`,
`TenantBilling` and `AlertRules` model a request the way `get_db` runs it:
`Arrive` is what the endpoint SELECTs, with its dependencies; an action per
endpoint is what it decides from these rows and commits; `Refuse` is every
exception, which rolls all of it back. `flight[h]` is what handler `h` has read.
Two handlers overlap; SQLAlchemy writes back only the columns that were assigned
another value than the one read, and a model says so where it matters (`NewEmail` and
`NewActive` of Directory, `Written` of Connectors). (FastAPI runs the dependency's commit after
the response is sent; a commit that fails is then invisible to the client. The
models take the commit as the answer.)

**Accounts.** One action per endpoint of `auth/local.py`. Passwords, TOTP secrets and codes are
model values. Nothing is locked between the SELECT of a session, a token or a list of codes and
the commit: what overlapping requests make of that is `accounts_race` (a session of the old
password stays) and `accounts_twice` (a backup code is accepted by two logins);
`SessionsFollowPassword` and `ProofsHold` are checked with one request at a time. A refused
login changes nothing: the exception that answers it undoes `failed_attempts` and
`locked_until`. `confirmed` and `spent` (how often each user was let in by each code or token)
are history. `get_auth_context` looks at no session row, so `Bearer` does not either.

**Directory.** `user`, `role` and `assignment` are the tables; `jwt` the users a local token was
issued to, and `issued` those the last step issued one to, so that a token issued to somebody
who has had one before is seen as well. Sign-up, invitations (of an earlier release: at this
commit none can be stored), SCIM users and groups, SAML and OIDC logins, profiles and removal.
`Ops` restricts the endpoints in play: with one handler all of them, with two those that look an
address up and write it later. `PUT` of a SCIM user also writes its external id (`NewExternal`),
which is the identity provider's and empty unless it sends one. A SCIM PATCH is two requests,
one for `active` and one for `userName`. The sessions and keys it revokes belong to Accounts,
which no run joins with it.

**ScannerAgents.** Two families of requests write two columns, `last_seen_at` and
`last_seen`, and a list reads the first.

**Connectors.** `config` is one JSON column of parameters and schedule: an update of the
parameters drops the schedule, `set_scan_schedule` writes back the parameters it read. What
agents are told is that column, and who is told is whoever is to scan it (`AgentConfig`,
`ToldOf`). A commit of a row that is gone fails if it has anything to write. `beat` is Beat's
table in the memory of one API process.

**SavedQueries.** A run is two steps: `CountRun` flushes the count it has read plus one, which
locks the row (`Locked`: whoever writes it waits), and `RunQuery` commits it with the rows, or
`Refuse` undoes it when the graph fails. `runs` counts the runs that were answered, and those
of them that no other run of the query overlapped (`alone`). `tasks` are background tasks not
yet started, `files` what they wrote; no status of an export ever changes.

**TenantBilling.** Stripe is external: it keeps customers, sessions and
subscriptions and delivers every event late, again and in any order. The handler
looks at the event alone. `CreatedOn` is the plan each tenant's sign-up or creation sent, which
the code stores as it is.

**AlertRules.** `install_default_rules` looks up one template per step and commits at
the end; two rows of one name make the look-up raise.

### In memory and in the graph

**FileGraph.** A sync request is a row of steps: the File rows in one statement (`MergeFiles`),
the tenant's backend (`Connect`), one statement per node and edge, `Answer`; any may fail, and
`Crash` may follow any. `clean` remembers the chunks, with their tenants, that were answered
without errors. There are two databases: the File rows go to the one of the shared client
(`Platform`), marked with their tenant, everything else to the one the tenant's configuration
names (`Database`), which may be another. A File row is merged whatever its op is: a file that
was deleted is created (`FileRemoval`). `ON CREATE SET` replaces the properties the next `MERGE`
looks for, so a chunk sent again creates File nodes again.

**FleetMesh, DataStreams, MountsIndexer** keep what they know in one worker process:
the first two models are of that process, and `Restart` empties it. MountsIndexer has
several workers around one file, which `Truncate` empties and the next step
writes; `raced` notes that two wrote at once.

**UsageBilling.** The counts of a snapshot share one backend object: each opens a
driver over the last one, and whoever finishes first closes it.

**Licensing.** Days pass, files and machines change, the process restarts; a
licence is verified when it is loaded, and kept.

**RateLimiter.** Entries are ages; the pipeline is one step, as in Redis. The member of the
sorted set is the clock reading, so requests of one instant, which come from different API
processes (`Processes`), are one entry: the second overwrites the first and both are let through.

## 3. Runs

| Run | Question | Bounds and why they are enough |
|---|---|---|
| `commits` | What is committed step by step: two components side by side. Proxy: is a committed change ever lost, or a number used twice, with writers, syncs, losses and a restart interleaved? Is it the outbox? Workflows: does a run touch files with an approval of it open, with conditions, jumps back, dry runs, failures, expiry, rollbacks, a step of unknown kind? Is what is committed the engine's state machine (`StateMachine`)? | Proxy: one node, 3 numbers, two open writes (so commits cross), two syncs (so they race on the head), one late batch, one restart; lease of 2, so it is renewed and lost. Workflows: four templates with every kind of step, two of which go back (to an approval that was given, and by an index from the end), two runs, of different templates, two requests that may overlap but not on one run, one rollback, one jump back of each run; runs and requests are symmetric |
| `proxy_live` | Are changes in order, do they replay to the graph, and with the endpoint repaired are all uploaded, when writes do not overlap? | a node and an edge, batches of one (so order between batches matters), one restart; an interval of 4 above the cap of 3, so that a failure shortens the wait |
| `proxy_as_built` | *violation*: is what is queued uploaded by the endpoint as it is? | `TenantLookupWorks = FALSE` |
| `proxy_replay` | *violation*: the same with overlapping writes | two writes of one node |
| `workflow_overlap` | *violation*: two decisions of one approval at once | one run with two approvals before an action |
| `ingestion` | Two components side by side. dgraph-ingest: do requests that share the buffer lose records, is "accepted" a written batch, and is every request answered, in a shutdown too? Breaker: do results of earlier calls mislead it, and does it recover? | dgraph-ingest: two requests of up to 4 records, batches of 3: a request may fill none, one, or a part of two batches, shared with another tenant's. Breaker: two calls (one from before the opening or of an old trial, one of the present trial), threshold 3, window 3 > reset 2 = query timeout |
| `agent_flush` | Is a scan that ends whole? Do two Flush calls that overwrite each other's counts drop early or retry for ever? Is what is assigned scanned? | scan: three files in chunks of two (a full and a partial chunk), two scans, one Flush at a time. Queue: two rows of two scans, two Flush calls, three attempts (so a count can go back), a crash. Loop: a static connector with older and newer settings, one that cannot be opened or does not decode, one restart |
| `accounts_race` | *violation*: a login beside a change of the password | two requests |
| `accounts_twice` | *violation*: two logins with one backup code | two requests |
| `scanning` | Seven services, each by itself: see below | |
| `administration` | Seven services, each by itself: see below | |
| `patient` | *violation*: does a client that does as it is told get in? | limit 3 in 8 seconds, instead of 10 in 60 |

The parts of `scanning`:

| Part | Property | Bounds |
|---|---|---|
| keys | `RetiredKeysStayDead` | two agents, three keys, two requests at a time |
| connectors | `EditsSurvive` | one connector, one agent, two requests at a time, a restart |
| fleet | `ReachableIsShown` | two agents, two entries kept, so they are trimmed |
| streams | `RoutedAndStreamed` | two sources with ties, results below, at and beyond a cap of 3, batches of 1 and 2, five formats |
| files | `CleanAnswerIsStored` | two tenants, one with a Neo4j of its own beside the platform's, one on Neptune; two requests at a time, files and directories created and removed, chunks sent again, a crash |
| mounts | `MountsAndJobs` | two workers, two mounts, one job |
| accounts | `SessionsFollowPassword`, `ProofsHold` | one user, two passwords and secrets, two rows of each table, one request at a time |

The parts of `administration`:

| Part | Property | Bounds |
|---|---|---|
| limits | `AdmittedBounded` | limit 3 in 8 seconds, as `patient`, with hasty clients, Redis failing, and two API processes (`patient` has one) |
| licences | `InForce` | two machines, two keys, 36 days: a term of 20, the grace period, and days after it |
| alerts | `OwnRulesListed` | two tenants, two requests, two rows of one name, so a look-up may find two |
| queries | `RunsCounted` | every request, one at a time: two users, one an admin, two queries (one with an export format), one export |
| runs | `RunsCounted` | two requests at a time for one public query: up to three runs that overlap each other, exports, deletion, sharing |
| usage | `BillIsCounted` | three counts at once, of raw and rich files and of relationships, two tenants and plans |
| billing | `PlanWasPaid` | two tenants (one signed up with a paid plan), two customers, one subscription, a checkout and events in any order |
| serial | `PermissionsStayInTenant`, `OneAccountPerAddress`, `IssuedToActive` | requests of every kind one at a time, two tenants, two users, two addresses; an external id only for users without a password |
| overlap | the same | one tenant, three users, two requests at a time of the kinds that look an address up and write it later: two that find an address free, and somebody who has it |

The workflows of `commits` keep the requests for one run apart, `proxy_live` has one open
write and a repaired endpoint, and the accounts of `scanning` one request at a time, because
`workflow_overlap`, `proxy_replay`, `proxy_as_built`, `accounts_race` and `accounts_twice` show
that their properties fail otherwise; the passing runs show that this is all that breaks
them. Where overlapping requests lose something and no document of the repository
promises that they do not, the property says what is left: of runs of one query that
overlap all but one count may be lost (`RunsCounted` bounds the count from both sides), of
requests of one instant one entry is left (`AdmittedBounded` counts instants, and requests
per process), and `MountsSurvive` excepts two processes that write at once.

`CHECK_DEADLOCK FALSE` appears where the system may stop: all bounds used up, all
requests answered, the process exited.

`TypeOK` is an invariant of `proxy_live` only, for the range of the wait: the other modules'
types are part of an inductive invariant that is proved (section 4), and before it was proved
TLC checked it on the instances above. AgentLoop and UsageBilling state theirs for later proofs.

### Bounds

`SeqLimit`, `MaxRestarts`, `MaxOpen`, `MaxLate` (ProxySync), `MaxRollbacks`, `MaxJumps`
(WorkflowRuns), `MaxFiles` (IngestBatcher), `MaxScans`, `MaxRows` (AgentDelivery),
`MaxStops` (AgentLoop), `MaxRows` (Accounts, AlertRules), `MaxRuns` (SavedQueries),
`MaxFiles` (FileGraph), `MaxNodes` (UsageBilling), `MaxDay` (Licensing),
`MaxMembers` (FleetMesh) and `MaxSubscriptions` (TenantBilling) are in guards and named
in the modules. `MaxTelemetry` (100 in the code), `RowCap` (100,000) and the limiter's
table are the code's own limits, scaled down. The proofs hold for all values.
History variables (`made`, `received`, `acts`, `jumps`, `flushed`, `fails`, `delivered`,
`dropped`, `stale`, `confirmed`, `spent`, `issued`, `used`, `retired`, `newest`, `clean`,
`wanted`, `raced`, `runs`, `alone`, `installed`, `hooks`, `paid`, `loadedOn`)
are read by no guard that models code. The limiter's `admitted` is read by one: a process reads
an instant off the clock for one request only.

### Fairness

- **ProxySync**: the loop ticks for ever (`WF` of its `Post`). The network is bad
  but not for ever: strong fairness of `Answer` and `Ack` of the loop's requests
  alone. Nothing is assumed of force-syncs or of restarts, whose number
  is bounded. With the endpoint as it is `Answer` is never possible, and the assumption is empty
  (`proxy_as_built` has the same fairness).
- **IngestBatcher**: the ticker fires and handlers run. `SF` for whoever waits for
  the mutex, because a Go mutex hands itself to a waiter that starves. Nothing
  makes SIGTERM arrive or requests come.
- **AgentDelivery**: a Flush that has started goes on to the end; the agent is
  restarted. No success of a send is assumed. That Flush is called at all is an
  assumption about a caller the code does not have yet.
- **AgentLoop**: whoever runs the agent starts it again (deploy/install-windows.ps1 makes it a
  service), tickers fire, scans end, `select` takes every ready case again and again (Go chooses
  among them at random), and the platform is reached again and again: strong fairness of
  `Begin(TRUE)`, `Refresh` and `ScanAll`, weak of the rest. Failed fetches may come between them
  without end.
- **RateLimiter**: time passes, and the client asks when it may.
- **CircuitBreaker**: time passes, queries end (the timeout sees to that) and
  calls keep coming. Of the queries sent to a healthy database not all are
  cancelled (`SF` of `Succeed` for those alone): they can only succeed or be
  cancelled. A query sent before the recovery may fail.

## 4. Proofs

TLAPS checks every theorem for all values of the constants that its module's named assumption
allows (`ProxyAssumption`, `BreakerAssumption`, `IngestAssumption`, `DeliveryAssumption`,
`WorkflowAssumption`, `RateAssumption`, `LicenceAssumption`, `FleetAssumption`,
`StreamAssumption`, `UsageAssumption`: sizes are numbers, limits that divide or hold something
are positive (`batch_size` is `ge=1`, stream.py:146), templates are sequences of steps, formats
and plans are those of the code, a topology is finite) and under the hypotheses it states. TLC
evaluates all of them. Every proof has the same three parts: the initial states satisfy an
inductive invariant (`IInv`, or `...Inv` of a service), each action preserves it (a lemma per
action), and it implies the property.

| Theorem | Says | Needs, beyond the named assumption |
|---|---|---|
| `ProxySyncProofs!NothingIsLost`, `NumbersAreUnique` | `NothingLost`, `NumbersUnique` | - |
| `ProxySyncProofs!ImplementsOutbox` | `ProxySync` implements `DeltaOutbox` | - |
| `ProxySyncProofs!OrderedWhenSerialized`, `DeliveredInOrder` | `InOrder`, `ReplayGivesGraph` | `MaxOpen <= 1`: writes do not overlap |
| `WorkflowRunsProofs!GatesHold`, `RunningRunsHaveOneGate`, `NothingIsTouchedBeforeApproval`, `ActionsAreTakenOnce` | `GateHeld`, `RunningHasGate`, `TouchedWhenApproved` (an action property), `ActionOnce` | `ApartSpec`: requests for one run do not overlap |
| `WorkflowRunsProofs!ImplementsStateMachine` | `StateMachine`: `WorkflowRuns` implements `ApprovedRuns` | `ApartSpec` |
| `WorkflowRunsProofs!StateMachineHoldsGates` | `StateMachine` implies `[]GateHeld` | - |
| `IngestBatcherProofs!RecordsAreHandled`, `AcceptedIsWritten` | `Handled`, `AcceptedBatchWritten` | - |
| `AgentDeliveryProofs!ScansAreWhole`, `NumbersStandForOneChunk`, `DropsAreDue` | `ScanIsWhole`, `OneChunkPerIndex`, `DroppedAfterAttempts` | - |
| `AgentDeliveryProofs!ConnectorsAreNamedOnce` | the types of `AgentLoop`: an id is listed, configured and cached once | `StaticConfig`: the config file names an id once |
| `CircuitBreakerProofs!ClosedHasFewFailures`, `TrialConfirms` | `ClosedWithFewFailures`, `ConfirmedByTrial` | - |
| `AccountsProofs!SessionsEndWithPassword`, `ProofsAreGivenOnce` | `SessionsFollowPassword`, `ProofsHold` | `Alone` (one request at a time), TOTP codes are no token ids |
| `AdministrationProofs!AddressesHaveOneAccount`, `RolesStayInTenant` | `OneAccountPerAddress`, `PermissionsStayInTenant` | `Deployed` (the constants of `Init` are what they stand for) |
| `AdministrationProofs!TokensGoToTheActive` | `IssuedToActive` | `Deployed`, `Alone` |
| `ScanningProofs!KeysStayDead` | `RetiredKeysStayDead` | - |
| `ScanningProofs!ConnectorEditsSurvive` | `EditsSurvive`, an action property | - |
| `ScanningProofs!ReachableIsAtOnceShown` | `ReachableIsShown`, an action property | `FleetAssumption`: entries are kept |
| `AdministrationProofs!AdmittedAreBounded` | `AdmittedBounded` | - |
| `AdministrationProofs!LicencesInForceHold` | `InForce` | - |
| `AdministrationProofs!OwnRulesStayListed` | `OwnRulesListed` | - |
| `AdministrationProofs!RunsAreCounted` | `RunsCounted` | - |
| `AdministrationProofs!PlansWerePaid` | `PlanWasPaid` | no tenant is called "none" (they are UUIDs) |
| `ScanningProofs!MountsAndJobsHold` | `MountsAndJobs` | - |
| `AdministrationProofs!BillsRestOnACount`, `BillsAreCounted` | `OneCountTrue`, the first half of `BillIsCounted`, and the whole | something is counted (usage.py:231 lists what) |
| `ScanningProofs!CleanAnswersAreStored` | `CleanAnswerIsStored` | - |
| `ScanningProofs!StreamsAreWhole` | `RoutedAndStreamed` | `StreamAssumption` |

`TypeCorrect` (`TypeOK` holds) is a theorem about each of `ProxySync`, `WorkflowRuns`,
`IngestBatcher`, `AgentDelivery`, `CircuitBreaker`, `Accounts` and `Directory`; the types
of the services are part of their invariants. A hypothesis in the last column is never
there to get a proof through: where it names an overlap, a violation run or the
property's own comment shows what happens without it.

**ProxySync.** The types are inductive by themselves; only the wait is not immediate:
`Doubled` keeps it among `Waits`, the interval, the cap and what is between them, whichever of
the two is the longer. `NothingLost` breaks at `Ack` unless every
acknowledged number belongs to a received delta and to no other; numbers stay unique
only if `nextSeq` is above them all, and across a crash only if `nextSeq <= leased`.
`Consistent` says this, and `IInv == Consistent /\ NumbersUnique /\ NothingLost` is
inductive. Under it each step is a step of `DeltaOutbox` or a stutter: `CommitWrite` is
`Make`, `Answer` and `LateArrival` are `Deliver`, `Ack` is `Forget`. For the order, the
invariant adds that an open write has the highest number, and that every batch
(read, under way or late) is closed below: with a delta it contains, or the cloud has,
all older ones. It fails without the hypothesis (`proxy_replay`).

**WorkflowRuns.** `GateHeld` alone is not inductive: a transaction moves the run by what it
read when it began. `TxnsAreTrue` says that this is still so: it starts a run nobody sees,
or decides an approval that is pending, on the row as it is in the database. That is
where requests for one run must not overlap. A run then has exactly one approval
that is not approved (`OneGate`, `SomeGate`), at the step the run stands at.
A request that touches files is past `WriteDecision`, so it starts a run nobody has asked
approval for yet or has approved the run's one open approval: `TouchedWhenApproved` follows,
wherever the template leads. `ActsAreSpent` bounds how often each step has touched files by the
rollbacks, the times the run was sent back, and one more for the steps before the one
the run is at: `ActionOnce` is an instance of it. A step forward needs the one
more, and a step back is paid for by `jumps` (`Goes`, `SpentByGoing`). The lemmas on
`Times` (occurrences in a sequence as the cardinality of a set of positions) are what those
counts need.

Under the invariant each step is a step of `ApprovedRuns` or a stutter. Only `Commit` shows
anything: of a request that starts a run it is `Start`, of a decision `Approve` or `Reject`.
That the gate it decides is pending, and is the one the run stands at in the database, is
`TxnsAreTrue`; what it adds is at most one gate (`GoesOnWhen`), at the step where the run is
left, however often that step was asked for before. The abstract machine alone keeps `Held`, of
which `GateHeld` is an image: so `commits` checks `StateMachine`, and `GateHeld` follows from
it.

**IngestBatcher.** `Handled` is inductive with the types: what of a request is not in the
buffer was handed on, once. A flush answers for the whole batch, and a request reads the
first answer only; `AnsweredByFirst` ties that answer to the batch of the request's first record:
what has been flushed of a request has answered it, and "ok" only if the batch with its
first record was written whole.

**AgentDelivery.** Flush works on copies of rows, so the invariant speaks of all of them,
however old (`Copies`): each has the chunk of its row and a count that is at most the
failed sends. From that, rows are dropped only when `MaxAttempts` sends have failed, though two
calls overwrite each other's counts. A number stands for one chunk because those below
`chunkIdx` are used up and the one under it can only be the chunk being sent. In the main
loop an id is configured once because `mergeConnectors` drops what the answer names
(`MergedOnce`); what the loop promises beyond that, `AssignedIsScanned`, is liveness.

**CircuitBreaker.** Failures only get older, and closing forgets them. A stale query (begun
before the breaker last opened) is older than the opening (`StaleIsOlder`), a trial begins
only after the whole wait (`TrialAfterWait`), so in a trial a stale query would be older
than its timeout, which `TypeOK` excludes. This is where `QueryTimeout <= ResetTimeout` is
used.

**Accounts.** Types hold for any handlers. The rest rests on `ReadIsFresh` (what a request has
read is what the rows hold, but that a token may expire), which is why requests come one at a
time (`accounts_race` and `accounts_twice` otherwise), and on `UnusedUnspent`: a code or token
that can still be accepted has not been.

**Directory.** Requests overlap freely. Addresses stay apart because the look-up
that may be stale is repeated by `uq_tenant_email` at the write; the invariant adds
that users never leave their tenants (`RowsPersist`), that what a request speaks of exists
(`TenantsExist`), and that an assigned role is of the assignment's tenant
(`RolesOfTenant`). Tokens take `Alone`: a removal that commits between a sign-in's
look-up and its token leaves a token to somebody inactive, by SAML too, which writes
`is_active = True` only over a `False` it has read. They are about every token at the step that
issues it (`issued`), first or not.

**Platform services.**
- Keys: a key that is rotated away is dead because no two agents share one, and
  stays dead because rows only get keys that were never used (`KeysInv`).
- Connectors: whichever handler ends has changed one row, in columns its request names,
  because a column is written only if it was assigned (`ConnUpdated`), the config among them;
  who is told of it changes only with `agent` or `is_active` (`ToldKept`). A deleted row has
  an id no new one gets (`DeletedGone`), and whoever still holds it cannot write it.
- Fleets: the entry that was just submitted is the last that is kept (`NewestIsKept`), and
  only its pair is new.
- Limiter: the instants of the window at which somebody was let in are still among the
  entries (`LimitInv`), so a request of another instant is counted on top of them; those one
  process lets in are of different instants.
- Licences: what is in force was acceptable where and when it was loaded, and the
  days since are on the way to its end (`LicenceInv`).
- Alerts: an install under way has, for every template, a row, a new row or the look-up
  still to come (`LookedUp`).
- Queries: what a run has read may be stale, but not by much: the count it writes back is
  between the runs that were alone and all that were answered, because no run that is
  alone ends between its read and its write, and the row it has locked stays (`RunStands`,
  `HandlerStands`). An export's query is there as long as the export is.
- Stripe: until its first event a tenant is on the plan it was created with (`PlanStands`). An
  event may come at any time and again, so what is proved of it is what no
  later event takes back: that the subscription it calls active has been active. A checkout
  that has a customer has one that was made for its tenant, however many overlap.
- Usage: until a first count ends, all wait and the driver is open; whoever closes it
  was disturbed by nobody, so its own count is real (`SnapshotInv`). What is billed
  twice is bounded by `FitInv`: a class is counted at one moment, so its count is at
  most what the class holds by now and what has left it since. Nodes are only added, and
  the one class they leave is that of the raw files, by a step that is
  counted (`enriched`). No node is of two classes, so the classes sum to at most the nodes
  (`ClassesAreApart`). The quota's flag and its bar are two divisions of one total.
- Graph: an answer in preparation promises as much as its request has done: the files
  up to the one it is at, and the nodes of the statements it has sent, unless it has an
  error (`StoreInv`, `DoneSoFar`). Merges never take a path or a node away, so
  neither another request, nor a restart, nor the same chunk again breaks a promise
  (`FilesAreThere`, of the platform's database, and `RestIsThere`, of the tenant's, are kept
  by every step).
- Streams: while a response is under way, what was yielded and what is in the batch
  or the writer's sink are together rows 1 to n in order (`UnderWay`). The chunks are flattened
  by a recursion of the library, whose equation for one more chunk is proved first
  (`FlattenAppends`). Of the ranked sources, no agent is listed
  twice and there are as many as viable agents; an injection between finite
  sets of one size is onto, so excluding a prefix leaves the rest of the list, best first.
- Mounts: unless writers raced there is one, and the list it has read is of the mounts
  that are wanted (`WritersAlone`); a watcher of a job has seen its status, or the worker
  is in that very job and will tell (`JobsAreTold`).

**Sums, folds and finite sets.** The library's induction theorems take an operator as a
parameter, which no installed prover can instantiate. The proofs that need an induction
use a least counterexample instead, which is a set and not an operator: a nonempty
collection of subsets of a finite set has a minimal member (`MinimalSet`, from the
well-foundedness of strict inclusion), a nonempty set of numbers a least one. What the library's
`SumFunctionOnSet` and its folds compute is a `CHOOSE` of a function that solves a recursion;
that it has one solution (`SumUnique`) and that the solution for a set restricts to its subsets
(`SumRestricts`) gives the equation for one more element, from which sums are split and
compared.

**Only model-checked.** Liveness (`SyncedOnceRepaired`, `EveryRequestAnswered`, `RowsLeave`,
`AssignedIsScanned`, `TriedAgain`, `Recovers`): fairness and ENABLED are out of the prover's
reach. Every invariant and every action property of a passing run is a theorem. No
module uses RECURSIVE operators.

Definitions that TLC is fast with and the provers cannot read (functions of two arguments,
`@@`, tuples bound by a quantifier) are avoided in the modules that have theorems.

## 5. What the checks found

The six violation runs, and the divergences met while reading, are in
`PROJECT.json` under `findings` with the lines on both sides; most name the definition
that models them. In short:

- Proxy: overlapping writes replay in the wrong order (`proxy_replay`); the endpoint cannot look
  up a tenant, so nothing is ever uploaded (`proxy_as_built`), and would store nothing of what it
  acknowledges; with an interval above the cap a failure shortens the wait.
- Workflows: two concurrent decisions skip an approval (`workflow_overlap`); the mark "expired"
  is rolled back.
- Ingest and agent: an acknowledged request may be unwritten; queued chunks are
  delivered out of order; the queue is never attached; a connector that was withdrawn
  is scanned until a restart; one scheduled connector makes every fetch of its
  agent fail; no heartbeat is sent during a scan.
- Accounts: the lockout never locks; a session of the old password survives its change
  (`accounts_race`); two logins are accepted with one backup code (`accounts_twice`);
  invitations fail on an import; SAML logins never reach the frontend.
- Tasks: `async_session` does not exist, so no Celery task starts and no webhook is sent.
- Graph: files go to the platform's Neo4j and the rest to the tenant's; a file that was deleted is
  created; a chunk sent again creates File nodes again; a Neptune tenant's sync always
  fails with its files merged.
- Administration: exports stay pending; of two runs at once one is not counted; schedules never
  reach Beat; a patient client is refused for ever (`patient`), and requests of one instant are one
  entry; a client chooses its plan at sign-up; two templates of one name make every install fail; a
  licence is not looked at again once loaded.

## 6. Plan

Done: the delivery paths (proxy, agent, ingest), workflows, breaker, identity,
the scanner's and the administrator's side of the platform. What is left, in order:

1. An abstract delivery specification shared by IngestBatcher and AgentDelivery.
2. Accounts joined with Directory: what a deactivation by SCIM, by removal and by an
   administrator leaves valid.
3. When the tasks can start: webhook delivery with its retries and soft limit,
   erasure and re-enrichment under late acknowledgement, alert evaluation with its cooldown.

### Not modelled

- **Celery tasks, alert evaluation, webhook delivery, erasure**: every one imports
  `async_session`, a name `db/session.py` does not have, before it does anything. A
  model of what would follow has no program to be faithful to.
- **Audit log and notifications**: no code calls `audit_log()`, so they are empty.
- **Graph queries, search, graph intelligence, inventory and its taxonomy, schema,
  compliance, GraphQL**: reads and tables of names.
- **Connector SDK, connectors, classification, enrichers, formats**: I/O, or pure
  functions of one file's content that unit tests reach.
- **dgraph-gateway**: a reverse proxy; its limiter is RateLimiter's algorithm.
- **scanner-agent (Python)**: its job loop fails on its first job (a missing import).
- **fleet package of the agent**: no program imports it.
- **Proxy query engine, wire codec, configuration**: reads, formats, flags.
- **UI, SDKs, deployment.**
