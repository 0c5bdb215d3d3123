SPECIFICATION Spec
CONSTANTS
  Host = {"private"}
  Registry = {"tf", "tofu"}
  Source = {"aws", "dns"}
  Version = {1}
  Platforms <- MCPlatforms
  Elsewhere = {"plan9"}
  Sum = {"s1", "s2"}
  EngineVersion = {"1.8", "1.9", "2.0"}
  EnginePlatforms = {"linux", "darwin"}
  versions <- MCversions
  default_version = "1.8"
  TagLists <- MCTagLists
  Worlds <- MCWorlds
  Public = "public"
  MaxEvals = 3
  MaxMoves = 2
INVARIANTS TypeOK HubsVouched OmittedOnTheRegistrysWord
PROPERTIES RepeatIsLocal KeepsItsPins
