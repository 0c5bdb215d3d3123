CONSTANTS
  Modules <- MCModules
  Commands <- MCCommands
  MaxRuns = 1
SPECIFICATION Spec
INVARIANT NoRecordVanishes
