SPECIFICATION PartSpec
CONSTANTS
  Null = Null
  Subs = {1, 2}
  Handles = {1, 2}
  Lens = {1}
  RingBytes = 2
  QueueBytes = 1
  ParkFor = 0
  MaxSeq = 2
  MaxTime = 0
  Conns = {1, 2}
  WireCap = 1
  MaxWrites = 1
INVARIANT NothingLostOrRepeated
INVARIANT SubscriptionsAreSound
INVARIANT InputHasOneOwner
CHECK_DEADLOCK FALSE
