SPECIFICATION FairSpec
CONSTANTS
  Base = 20
  BandWidth = 5
  Host <- SmallHost
  Persisted = {19, 20, 22, 24}
INVARIANTS TypeOK NearestFirst ExhaustionIsReal FixedNeverMoves
PROPERTY UpEnds
CHECK_DEADLOCK FALSE
