SPECIFICATION Spec
CONSTANTS
  Nodes = {n1}
  Edges = {}
  Loop = loop
  Forcers = {}
  BatchSize = 2
  Bandwidth = 2
  SyncInterval = 2
  MaxBackoff = 3
  TenantLookupWorks = TRUE
  MaxOpen = 2
  MaxLate = 0
  SeqLimit = 2
  MaxRestarts = 0
CHECK_DEADLOCK FALSE
INVARIANT ReplayGivesGraph
