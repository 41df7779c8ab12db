SPECIFICATION FairSpec
CONSTANTS
  Nodes = {n1}
  Edges = {e1}
  Loop = loop
  Forcers = {force}
  BatchSize = 1
  Bandwidth = 2
  SyncInterval = 2
  MaxBackoff = 3
  TenantLookupWorks = FALSE
  MaxOpen = 1
  MaxLate = 1
  SeqLimit = 2
  MaxRestarts = 1
CHECK_DEADLOCK FALSE
PROPERTY EventuallySynced
