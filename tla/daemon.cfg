\* Three starts would be out of reach with liveness; two racing ones, one of them
\* spawned by a client, reach every interleaving of a takeover.
SPECIFICATION MCSpec
CONSTANTS
  Procs = {p1, p2}
  Clients = {c1}
  None = None
  Conns = {k1, k2}
  Children = {s1, s2}
  Runs = {1, 2, 3}
  Months = {1, 2}
  MonthOf <- TwoMonths
  BatchSize = 2
  Writers = {pump, input}
  SpillAt = 1
  MaxChunks = 3
  MaxCrashes = 1
  MaxCommands = 3
  Backends = {1, 2}
  BusCapacity = 2
  MaxTurns = 1
  MaxNews = 2
  MaxDrops = 1
INVARIANT NoTakeover
INVARIANT FailedSpawnIsGone
INVARIANT NoSurvivor
INVARIANT NothingStoredIsLost
INVARIANT CommandsKeepTheirWord
PROPERTY HealthReachesClients
PROPERTY StartAndStopEnd
CHECK_DEADLOCK FALSE
