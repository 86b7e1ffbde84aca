CONSTANTS
  PathNames = {"src", "api", "db", "auth", "http", "sql"}
  BoundaryNames = {"http", "sql"}
  Tasks = {"t1", "t2", "t3"}
  Agents = {c1, c2}
  LeaseIds = {a, b}
  Procs = {}
  Contract <- MCContract
  Capable <- MCCapable
  Files <- MCFiles
  MaxLease = 1
  MaxRetries = 0
  MaxRuntime = 1
  Overrun = 1
  Margin = 1
  MaxVerifiers = 1
  None = None
  Clients = {c1, c2}
  Ids = {a, b}
  Values = {x, y}
  MaxWrites = 3
  MaxBumps = 1
  Entities = {1, 2, 3}
  Code = {3}
  Writers = {"p"}
  MaxKnowledge = 3
  MaxChanges = 2
  Subjects = {"s"}
  Authorities = {"code", "contract", "human"}
  Rank <- MCRank
  Deciding = {"contract", "human"}
  Owner = "human"
  MaxClaims = 3
  Artifacts = {"x"}
  MaxRecords = 3
  Upgraded = {"t", "u"}
  Old = {"t"}
  MaxMigrations = 3
  Plain = {"schemas"}
  Directories = {"schemas"}
  MaxInstalls = 2
  MaxCalls = 4
  Mutants = {1, 2}
  Position <- MCPosition
  Slots = {"u", "v"}
  Versions = {0, 1}
  MaxCampaigns = 3
  Sources = {"f", "g", "h"}
  Shard <- MCShard
  Changed = {1, 2, 3}
  FileOf <- MCFileOf
  ChangeOf <- MCChangeOf
  Equivalent = {2}
  Tests = {"t"}
  Imports <- MCImports
  MaxCommits = 2
  Missing = None
SPECIFICATION MCSpec
SYMMETRY MCSymmetry
INVARIANTS TypesOK AuditTrail DependenciesSound LedgerSound RunAgainRepairs EntriesHavePackages ReportsMeasured ParallelIsolation NoSharedFile
PROPERTIES ImplementsRecords PastKept OneTruthByAuthority OwnWorkKept MergedAnswered
CHECK_DEADLOCK FALSE
