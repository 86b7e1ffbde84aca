CONSTANTS
  PathNames = {"src", "api", "db", "auth", "http", "sql"}
  BoundaryNames = {"http", "sql"}
  Tasks = {t1}
  Agents = {a1}
  LeaseIds = {l1}
  Procs = {p1}
  Contract <- MCContract
  Capable <- MCCapable
  Files <- MCFiles
  MaxLease = 2
  MaxRetries = 0
  MaxRuntime = 1
  Overrun = 1
  Margin = 1
  MaxVerifiers = 1
  None = None
SPECIFICATION FairSpec
PROPERTIES CrashedRunRecovered
