CONSTANTS
  Callers = {1, 2}
  Workers = {1, 2}
  Tags = {1, 2}
  Kinds = {"push", "copy", "copy-all"}
  MaxAttempts = 2
  MaxFaults = 2
SPECIFICATION Spec
INVARIANTS
  NothingBeforeChecks
  ReportTrue
  PoolDrained
PROPERTIES
  ConsentedOverwrite
  CommandEnds
CHECK_DEADLOCK FALSE
