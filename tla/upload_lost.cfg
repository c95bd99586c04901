SPECIFICATION Spec
CONSTANTS
  Sizes <- SmallSizes
  MAXARRSZ = 4
  NUMSTOP = 1
  SockBuf = 3
  Followed <- NoSizes
  Leaves = TRUE
  DiskFills = FALSE
INVARIANT SentMeansSaved
CHECK_DEADLOCK FALSE
