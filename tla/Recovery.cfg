CONSTANTS
  Callers = {"p", "q"}
  Files = {"f", "g"}
  Scope <- MCScope
  MaxTasks = 4
  MaxFaults = 2
  None = None
SPECIFICATION MCSpec
INVARIANTS TypeOK RetryFindsTask CompletedCompiled
PROPERTIES EveryRequestServed AppendEnds GapsClose StoppedAgentFreed StaleCompletionReopened
CHECK_DEADLOCK FALSE
