SPECIFICATION FairSpec
CONSTANTS
  None = None
  s1 = s1
  s2 = s2
  r1 = r1
  r2 = r2
  Sessions <- OneSession
  Requests <- TwoRequests
  MaxCrashes = 1
INVARIANT LifecycleInv
PROPERTY CommittedWorkKept
PROPERTY WorktreesAreSwept
CHECK_DEADLOCK FALSE
