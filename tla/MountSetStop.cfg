SPECIFICATION Spec
CONSTANTS
  Workspaces <- Pair
  Configs <- Apart
  ConfigPath <- Path
INVARIANT RemainingMountIsReported
CHECK_DEADLOCK FALSE
