SPECIFICATION Spec
CONSTANTS
  Registry = {"r1", "r2"}
  RegistrySource <- MCRegistrySource
  Remote <- MCRemote
  GitHub <- MCGitHub
  Sub <- MCSub
  Version <- MCVersion
  Graphs <- MCGraphs
  Worlds <- MCWorlds
  TagLists <- TwoRegistries
  Reserved = {"toolchains"}
  Limit = 8
  MaxEvals = 2
  MaxMoves = 1
INVARIANT PoolFromItsRegistry
