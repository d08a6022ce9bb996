SPECIFICATION Spec
CONSTANTS
  postgres = postgres
  redis = redis
  minio = minio
  p1 = p1
  p2 = p2
  NoProc = NoProc
  Procs = {p1, p2}
  Pg = {postgres}
  Vol = {redis}
  Isolated = {redis}
  Commands = {"up", "sharedUp", "fork", "unfork", "down", "init", "sharedStatus", "sharedDown"}
  Faults = {"crash", "cleanup"}
  MaxCommands = 3
CHECK_DEADLOCK FALSE
INVARIANT TypeOK
PROPERTIES CopiesSurvive StoppedBeforeDrop
