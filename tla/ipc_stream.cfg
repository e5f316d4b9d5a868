SPECIFICATION MCSpec
CONSTANTS
  Null = Null
  Subs = {1, 2}
  Handles = {h1, h2}
  Lens = {1}
  RingBytes = 2
  QueueBytes = 1
  ParkFor = 1
  MaxSeq = 3
  MaxTime = 1
  Offered = {"v1", "v2", "v3"}
  Preferred <- NewestFirst
  PrefixBytes = 2
  MaxMessage = 2
  MaxRequests = 2
  MaxNotes = 1
INVARIANT ConnectionIsExact
PROPERTY DeliversInOrder
PROPERTY IpcMovesOn
CHECK_DEADLOCK FALSE
