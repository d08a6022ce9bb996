SPECIFICATION Spec
CONSTANTS
  main = main
  feature = feature
  NoWorktree = NoWorktree
  Services <- Names
  Worktrees = {main, feature}
  Main = main
  Envs = {"API", "WEB", "DEBUG"}
  Base <- Bands
  BandWidth = 2
  Offset <- Offsets
  Host = {20, 21, 22, 23, 30}
  Unrelated = 99
  Apps <- SmallApps
  MaxUps = 3
  MaxEvents = 2
CHECK_DEADLOCK FALSE
INVARIANTS TypeOK EnvTells FailureProgress
PROPERTIES Stable PinnedStay
