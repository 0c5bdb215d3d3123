SPECIFICATION Spec
CONSTANTS
  Unset = Unset
  Dir <- MCDir
  Top = ""
  up <- Mup
  Engine = {"terraform", "tofu"}
  Loaded = {"terraform", "tofu"}
  Name <- MCName
  base <- Mbase
  Hub = {tf_, tf_app, tf_app_net, shared}
  tf_ = tf_
  tf_app = tf_app
  tf_app_net = tf_app_net
  shared = shared
  defaultHub <- MdefaultHub
  Files <- MCFiles
  Repositories <- MCRepositories
  Builds <- MCBuilds
  MaxEdits = 2
  MaxRuns = 3
INVARIANTS FromScratch DepsFollowCalls
