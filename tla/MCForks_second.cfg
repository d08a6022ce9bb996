SPECIFICATION Spec
CONSTANTS
  postgres = postgres
  redis = redis
  minio = minio
  p1 = p1
  p2 = p2
  NoProc = NoProc
  Procs = {p1, p2}
  Pg = {postgres}
  Vol = {redis}
  Isolated = {}
  Commands = {"up", "fork"}
  Faults = {}
  MaxCommands = 2
CHECK_DEADLOCK FALSE
PROPERTY IsolationKept
