SPECIFICATION Spec
CONSTANTS
  None = None
  MAX_CATCHUP = 3
  COUNT_CAP = 5
  MUL_MAX = 64
  Crons = {1}
  Configs <- AllConfigs
  Backoffs <- SomeBackoffs
  Deletable = {}
  FireCap = 1
  SkewThreshold = 1
  Jumps <- Forward
  MaxTime = 4
  MaxVersion = 3
  MaxHeap = 4
INVARIANT EntriesAreSound
INVARIANT NoDoubleFire
CHECK_DEADLOCK FALSE
