SPECIFICATION MCSpec
CONSTANTS
  None = None
  MAX_CATCHUP = 3
  COUNT_CAP = 5
  MUL_MAX = 64
  Crons = {1, 2}
  Configs <- OneConfig
  Backoffs <- NoBackoffs
  Deletable = {2}
  FireCap = 1
  SkewThreshold = 1
  Jumps = {}
  MaxTime = 4
  MaxVersion = 2
  MaxHeap = 3
  Horizon = 6
  Throttles = {0, 2, 3}
INVARIANT NoLiveEntryForgotten
INVARIANT NoTickLost
INVARIANT CatchupIsExact
PROPERTY DueIsServed
CHECK_DEADLOCK FALSE
