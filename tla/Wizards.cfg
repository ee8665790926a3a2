CONSTANTS
  Starts <- CliStarts
  Steps <- CliSteps
  Required <- CliRequired
  DependsOn <- CliDependsOn
  HasLoader <- CliHasLoader
  Typed <- CliTyped
  ShouldSkip <- CliShouldSkip
  IsSet <- CliIsSet
  PresetValue <- CliPresetValue
  Default <- CliDefault
  Valid <- CliValid
  Setter <- CliSetter
  Resetter <- CliResetter
  Loads <- CliLoads
  MaxRewindsPerStep = 3
SPECIFICATION Spec
INVARIANTS
  ResultMatchesAnswers
  VmAvailable
PROPERTIES
  FlagsOutliveBack
  RewindsEnd
CHECK_DEADLOCK FALSE
