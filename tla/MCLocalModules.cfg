CONSTANTS
  Name <- MCName
  Remote <- MCRemote
  Inputs <- MCInputs
  RootPkgs <- MCRootPkgs
  DepPkgs <- MCDepPkgs
  Sources <- MCSources
  RootData <- MCRootData
  RootBlocks = 2
  DepBlocks = 1
  MaxPath = 4
SPECIFICATION FairSpec
INVARIANTS
  TypeOK
  NoOverlay
  OneModulePerTarget
  ClosedWhenDone
PROPERTY Terminates
