CONSTANTS
  Modules <- MCModules
  Commands <- MCCommands
  MaxRuns = 3
SPECIFICATION Spec
INVARIANTS
  TypeOK
  RecordsSurvive
  KeptStateIsOutside
