CONSTANTS
  Name <- MCName
  SourceName <- MCSourceName
  Sub <- MCSub
  Top = "top"
  Inputs <- MCInputs
  TopBlocks = 2
  MaxDeps = 3
SPECIFICATION FairSpec
INVARIANTS
  TypeOK
  KeysUnique
  ManifestComplete
  ManifestGrounded
  NoSpuriousCopy
PROPERTY Terminates
