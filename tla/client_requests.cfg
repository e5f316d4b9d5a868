\* Two clients, so that every two requests can overlap; a tracked file with two hunks and
\* an untracked one.
SPECIFICATION MCSpec
CONSTANTS
  None = None
  c1 = c1
  k1 = k1
  k2 = k2
  p1 = p1
  p2 = p2
  t1 = t1
  t2 = t2
  Crons <- OneCron
  Contents <- TwoContents
  Clients <- TwoClients
  Tokens <- TwoTokens
  TTL = 1
  MaxClock = 1
  MaxFailures = 1
  PauseAt = 1
  Watchers = TRUE
  Reviewers <- TwoClients
  Spots = {1, 2, 3}
  FileOf <- TwoFiles
  Untracked = {2}
  MaxEdits = 1
  MaxAsked = 2
INVARIANT OnlyApprovedRuns
INVARIANT TokensAreSingleUse
INVARIANT EnabledIsInstalled
PROPERTY ReviewIsExact
SYMMETRY ControlSymmetry
CHECK_DEADLOCK FALSE
