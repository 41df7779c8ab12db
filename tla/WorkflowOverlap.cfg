SPECIFICATION Spec
CONSTANTS
  Runs = {r1}
  Requests = {q1, q2}
  Templates <- TwoKeysOnly
  MaxRollbacks = 0
  MaxJumps = 0
CHECK_DEADLOCK FALSE
PROPERTY TouchedWhenApproved
