CONSTANTS
  Tokens <- NameTokens
  Invocations <- CommandLines
  Keys <- TreeKeys
  Files <- TreeFiles
  Sizes = {1, 2}
  MaxRounds = 2
  MaxFaults = 1
  MaxEdits = 1
SPECIFICATION Spec
INVARIANTS
  MoveLosesNothing
  SyncSettles
PROPERTY OnlyWhatWasAskedFor
CHECK_DEADLOCK FALSE
