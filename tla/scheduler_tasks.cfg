SPECIFICATION MCSpec
CONSTANTS
  None = None
  Executor = exec
  GlobalMax = 2
  Crons = {c1}
  Runs = {r1, r2}
  Callers = {}
  MaxConcurrent = 2
  MaxPerDay = 3
  PauseAt = 1
  Budget = 9
  Faults = {"read", "create", "poll"}
  SpawnFails = TRUE
  Archives = TRUE
  UserEdits = FALSE
  Crashes = FALSE
  MaxTicks = 2
  MaxFailures = 2
  MaxRestarts = 0
  Seeds = {1, 2}
  FireCap = 3
  MaxFires = 5
  Backlog <- SmallBacklog
INVARIANT NoFireLostOnShutdown
INVARIANT RowsFollowRuns
PROPERTY ExecutionEnds
PROPERTY ShutdownReturns
CHECK_DEADLOCK FALSE
