SPECIFICATION ServicesFairSpec
CONSTANTS
  Seeds = {1, 2}
  FireCap = 3
  MaxFires = 0
  Backlog <- LargeBacklog
PROPERTY StartReturns
CHECK_DEADLOCK FALSE
