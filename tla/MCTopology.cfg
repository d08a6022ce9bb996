SPECIFICATION Spec
CONSTANTS
  main = main
  feature = feature
  NoService = NoService
  NoWorktree = NoWorktree
  Services <- Names
  Rank <- Order
  Ports = {1, 2, 3}
  Worktrees = {main, feature}
  Main = main
  Apps <- SmallApps
  Selections = {{}, {"web"}}
  MaxCommands = 3
CHECK_DEADLOCK FALSE
INVARIANTS TypeOK ResolvesOnce ReachesOwn NamesApart
PROPERTY DependenciesServed
