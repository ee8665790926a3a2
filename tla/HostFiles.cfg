CONSTANTS
  CopyAgents = {"claude"}
  AppendAgents = {"gemini"}
  Versions = {1, 2}
  Releases = {1, 2}
  SkillsOf <- SkillNames
  FileMap <- FileMaps
  DefaultSkills = {"cloud", "reference"}
  Torn = Torn
  MaxTexts = 1
  Procs = {p, q}
  MaxWrites = 3
  MaxCommands = 3
  MaxCrashes = 1
SPECIFICATION Spec
INVARIANTS
  BinaryWhole
  SkillsInStep
  UserTextKept
  OtherKeysKept
CHECK_DEADLOCK FALSE
