SPECIFICATION Spec
CONSTANTS
  main = main
  here = here
  w1 = w1
  NoSlug = NoSlug
  Slugs = {main, here, w1}
  Main = main
  Self = here
  Events = {"add", "remove", "up", "fork", "stop", "down", "other"}
  MaxMoves = 3
CHECK_DEADLOCK FALSE
INVARIANTS TypeOK Cleaned
PROPERTIES StandingKept InfraServes OnlyOrphansRemoved InfraUnused
