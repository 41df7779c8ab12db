SPECIFICATION PartsSpec
CONSTANTS
  t1 = t1
  Requests = {r1, r2}
  Tenants = {t1, t2}
  MaxFiles = 4
  BatchSize = 3
  Calls = {c1, c2}
  Threshold = 3
  Window = 3
  ResetTimeout = 2
  QueryTimeout = 2
CHECK_DEADLOCK FALSE
INVARIANTS Handled AcceptedBatchWritten ClosedWithFewFailures
PROPERTIES EveryRequestAnswered ConfirmedByTrial TriedAgain Recovers
