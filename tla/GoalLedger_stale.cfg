SPECIFICATION GLSpec
CONSTANTS
  g1 = g1
  Goals = {g1}
  None = None
  Unread = Unread
  RecentCap = 2
  WriteInterval = 2
  Instances <- Unread1
INVARIANT StalenessIsSafe
CHECK_DEADLOCK FALSE
