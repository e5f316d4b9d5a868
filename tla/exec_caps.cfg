SPECIFICATION PartSpec
CONSTANTS
  None = None
  Executor = exec
  exec = exec
  user1 = user1
  user2 = user2
  r1 = r1
  r2 = r2
  r3 = r3
  c1 = c1
  c2 = c2
  GlobalMax = 1
  Crons <- OneCron
  Runs <- TwoRuns
  Callers <- TwoUsers
  MaxConcurrent = 1
  MaxPerDay = 3
  PauseAt = 2
  Budget = 9
  Faults <- AllFaults
  SpawnFails = TRUE
  Archives = FALSE
  UserEdits = TRUE
  Crashes = TRUE
  MaxTicks = 1
  MaxFailures = 2
  MaxRestarts = 1
INVARIANT PerCronCap
INVARIANT GlobalCap
INVARIANT SlotsMatchHolders
SYMMETRY FullSymmetry
CHECK_DEADLOCK FALSE
