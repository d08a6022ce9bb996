SPECIFICATION FairSpec
CONSTANTS
  postgres = postgres
  redis = redis
  minio = minio
  p1 = p1
  p2 = p2
  NoProc = NoProc
  Procs = {p1, p2}
  Pg = {}
  Vol = {redis, minio}
  Isolated = {minio}
  Commands = {"up", "fork", "unfork", "down"}
  Faults = {}
  MaxCommands = 2
CHECK_DEADLOCK FALSE
INVARIANT AttachedWhole
PROPERTIES StartsOnCopies CommandsEnd
