CONSTANTS
  Tokens <- NameTokens
  Invocations <- SlashlessMoves
  Keys <- TreeKeys
  Files <- TreeFiles
  Sizes = {1}
  MaxRounds = 1
  MaxFaults = 0
  MaxEdits = 0
SPECIFICATION Spec
INVARIANT EveryFileMoved
CHECK_DEADLOCK FALSE
