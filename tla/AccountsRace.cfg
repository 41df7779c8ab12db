SPECIFICATION Spec
CONSTANTS
  Users = {u1}
  Passwords = {p1, p2}
  Secrets = {}
  Codes = {}
  Ids = {i1, i2}
  Handlers = {h1, h2}
  MaxFailedAttempts = 5
  MaxRows = 2
CHECK_DEADLOCK FALSE
INVARIANT SessionsFollowPassword
