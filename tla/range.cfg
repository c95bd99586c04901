SPECIFICATION Spec
CONSTANTS
  Size = 3
  SockBuf = 3
  MaxAsks = 1
  MaxReads = 3
  Asks <- WellFormed
  MaxHasty = 0
INVARIANT RangeAsAnnounced
CHECK_DEADLOCK FALSE
