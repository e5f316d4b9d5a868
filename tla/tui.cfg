\* Two of everything that can race: rows and commands, changes of the list, sessions
\* and their pumps; one edit of a file, under each step of a save.
SPECIFICATION MCSpec
CONSTANTS
  Rows = {1, 2}
  MaxPresses = 2
  MaxFaults = 1
  MaxOthers = 1
  SideRows = {1, 2}
  MaxChanges = 2
  Sessions = {1, 2}
  MaxPumps = 2
  MaxBackoff = 4
  MaxFlips = 4
  MaxCrons = 3
  MaxEdits = 1
INVARIANT CacheIsTrusted
INVARIANT PaneFollowsPump
INVARIANT CronsTabIsTrue
PROPERTY HighlightIsTheTarget
PROPERTY ConfigIsShared
PROPERTY SidebarCatchesUp
PROPERTY DotFollowsDaemon
CHECK_DEADLOCK FALSE
