CONSTANTS
  Callers = {1, 2}
  Workers = {1, 2}
  Tags = {1, 2}
  Kinds = {"copy-all"}
  MaxAttempts = 2
  MaxFaults = 1
SPECIFICATION Spec
INVARIANT AlwaysFullResultSet
CHECK_DEADLOCK FALSE
