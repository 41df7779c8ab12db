SPECIFICATION FairSpec
CONSTANTS
  LIMITS <- Table
  Path = "login"
  PrefixOf <- Prefixes
  Processes = {x1}
CHECK_DEADLOCK FALSE
PROPERTY PatientGetsThrough
