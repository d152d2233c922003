CONSTANTS
  Names <- MCNames
  VersionTexts <- MCVersions
  Worlds <- MCWorlds
  Imports <- MCImports
  Edits <- MCEdits
  MaxAttempts = 64
  MaxCommands = 4
SPECIFICATION Spec
INVARIANTS ResolutionExact RollbackExact InstalledCompiles
CHECK_DEADLOCK FALSE
