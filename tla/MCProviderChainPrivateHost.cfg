SPECIFICATION Spec
CONSTANTS
  release = release
  source_lock = source_lock
  NoHost = NoHost
  NoLock = NoLock
  Host <- MCHost
  RegistryHost <- MCRegistryHost
  PublicHost <- MCPublicHost
  DefaultHost = "registry.terraform.io"
  EngineHost = "registry.opentofu.org"
  Source <- MCSource
  Version <- MCVersion
  Hash = {release, source_lock}
  Label <- MCLabel
  Key <- MCKey
  Root = ""
  Builtin = "terraform"
  BuiltinName <- MCBuiltinName
  implied <- MCimplied
  Registry = "tofu"
  Workspace = "here"
  subpackage <- MCsubpackage
  Platform = {"linux"}
  target_platform = "linux"
  NoVersion = ""
  Zero = "0.0.0"
  Targets <- MCTargets
  Trees <- MCTrees
  Locks <- MCLocks
INVARIANT
  InstalledWhereLocked
