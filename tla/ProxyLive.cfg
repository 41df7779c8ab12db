SPECIFICATION FairSpec
CONSTANTS
  Nodes = {n1}
  Edges = {e1}
  Loop = loop
  Forcers = {force}
  BatchSize = 1
  Bandwidth = 2
  SyncInterval = 4
  MaxBackoff = 3
  TenantLookupWorks = TRUE
  MaxOpen = 1
  MaxLate = 1
  SeqLimit = 3
  MaxRestarts = 1
CHECK_DEADLOCK FALSE
INVARIANTS TypeOK InOrder ReplayGivesGraph
PROPERTY SyncedOnceRepaired
