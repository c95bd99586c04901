SPECIFICATION FairSpec
CONSTANTS
  Sizes <- AllSizes
  MAXARRSZ = 4
  NUMSTOP = 1
  SockBuf = 3
  Shrinks = TRUE
  Cuts = TRUE
  Leaves = TRUE
INVARIANTS CutOrExact RoomLeft WakeUpKept FlagIsNoRequest CrashOnlyIfShort
PROPERTIES Transfers DownloadCompletes
CHECK_DEADLOCK FALSE
