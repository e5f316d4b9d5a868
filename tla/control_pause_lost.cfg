SPECIFICATION ControlSpec
CONSTANTS
  None = None
  c1 = c1
  k1 = k1
  k2 = k2
  p1 = p1
  p2 = p2
  t1 = t1
  t2 = t2
  Crons <- OneCron
  Contents <- OneContent
  Clients <- TwoClients
  Tokens <- OneToken
  TTL = 1
  MaxClock = 1
  MaxFailures = 1
  PauseAt = 1
  Watchers = TRUE
PROPERTY EnabledOnlyByConfirmation
CHECK_DEADLOCK FALSE
