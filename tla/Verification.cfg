CONSTANTS
  PathNames = {"src", "api", "db", "auth", "http", "sql"}
  BoundaryNames = {"http", "sql"}
  Tasks = {t1}
  Agents = {a1, a2}
  LeaseIds = {l1, l2, l3}
  Procs = {p1, p2}
  Contract <- MCContract
  Capable <- MCCapable
  Files <- MCFiles
  MaxLease = 2
  MaxRetries = 1
  MaxRuntime = 1
  Overrun = 1
  Margin = 1
  MaxVerifiers = 2
  None = None
SPECIFICATION Spec
SYMMETRY MCSymmetry
INVARIANTS TypeOK RunMatchesState AttemptsBounded CleanRunOwned OneOwner LeaseMatchesState BlockedUntilDecided
PROPERTIES BudgetedRunKept VerdictUnderLease TerminalForever
