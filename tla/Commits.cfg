SPECIFICATION PartsSpec
CONSTANTS
  Runs = {r1, r2}
  Requests = {q1, q2}
  Templates <- MCTemplates
  MaxRollbacks = 1
  MaxJumps = 1
  Nodes = {n1}
  Edges = {}
  Loop = loop
  Forcers = {force}
  BatchSize = 2
  Bandwidth = 2
  SyncInterval = 4
  MaxBackoff = 3
  TenantLookupWorks = TRUE
  MaxOpen = 2
  MaxLate = 1
  SeqLimit = 3
  MaxRestarts = 1
CHECK_DEADLOCK FALSE
SYMMETRY Alike
INVARIANTS RunningHasGate ActionOnce NothingLost NumbersUnique
PROPERTIES TouchedWhenApproved StateMachine OutboxSpec
