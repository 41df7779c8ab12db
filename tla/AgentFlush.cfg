SPECIFICATION SideSpec
CONSTANTS
  Files = 3
  ChunkSize = 2
  MaxRetries = 1
  HasQueue = TRUE
  Flushers = {f1, f2}
  FlushBatch = 2
  MaxAttempts = 3
  MaxScans = 2
  MaxRows = 2
CHECK_DEADLOCK FALSE
INVARIANTS DroppedAfterAttempts ScanIsWhole OneChunkPerIndex
PROPERTIES RowsLeave AssignedIsScanned
