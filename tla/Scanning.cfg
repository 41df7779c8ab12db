SPECIFICATION PartsSpec
CONSTANTS
  t1 = t1
  a1 = a1
  p1 = p1
  AgentTenants = {t1}
  ScannerAgents = {a1, a2}
  AgentNames = {n1, n2}
  AgentKeys = {k1, k2, k3}
  AgentHandlers = {h1, h2}
  ConnTenants = {t1}
  ConnectorIds = {c1}
  ConnHandlers = {h1, h2}
  ConnParams = {p1}
  ConnSchedules = {"1h"}
  ConnAgents = {a1}
  ConnAgentTenant <- AgentOfT1
  FleetTenants = {t1}
  Fleets = {f1}
  FleetAgents = {a1, a2}
  FleetConnectors = {c1, c2, c3}
  MaxTelemetry = 2
  MaxMembers = 2
  StreamAgents = {a1, a2}
  StreamConnectors = {c1}
  Regions = {"us"}
  Latencies = {10, 20}
  Bandwidths = {0, 2}
  Formats = {"jsonl", "parquet", "webdataset", "csv", "arrow"}
  ResultSizes = {0, 3, 4}
  BatchSizes = {1, 2}
  RowLimits <- LimitsAsked
  RowCap = 3
  GraphTenants = {"t1", "t2"}
  GraphAgents = {"a1", "a2"}
  GraphTenantOf <- ScannersOf
  GraphBackend <- BackendOf
  GraphDatabase <- DatabaseOf
  Platform = "platform"
  Contents = {k1}
  Paths = {p1}
  Dirs = {d1}
  SyncHandlers = {h1, h2}
  MaxFiles = 3
  ApiWorkers = {w1, w2}
  MountIds = {m1, m2}
  IndexJobs = {j1}
  MountUris = {"path", "ftp"}
  Users = {u1}
  Passwords = {p1, p2}
  Secrets = {s1, s2}
  Codes = {b1}
  Ids = {i1, i2}
  Handlers = {h1}
  MaxFailedAttempts = 5
  MaxRows = 2
CHECK_DEADLOCK FALSE
INVARIANTS
  RetiredKeysStayDead RoutedAndStreamed CleanAnswerIsStored MountsAndJobs
  SessionsFollowPassword ProofsHold
PROPERTIES EditsSurvive ReachableIsShown
