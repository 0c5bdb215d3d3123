SPECIFICATION Spec
CONSTANTS
  Registry = {"r1"}
  RegistrySource <- MCRegistrySource
  Remote <- MCRemote
  GitHub <- MCGitHub
  Sub <- MCSub
  Version <- MCVersion
  Graphs <- MCGraphs
  Worlds <- MCWorlds
  TagLists <- MCTagLists
  Reserved = {"toolchains"}
  Limit = 5
  MaxEvals = 3
  MaxMoves = 3
INVARIANTS TypeOK LimitCountsOnce HubsClosed
PROPERTIES RepeatIsLocal KeepsItsPins UpgradeResolvesAgain
