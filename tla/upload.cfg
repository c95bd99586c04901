SPECIFICATION FairSpec
CONSTANTS
  Sizes <- AllSizes
  MAXARRSZ = 4
  NUMSTOP = 1
  SockBuf = 3
  Followed <- SmallSizes
  Leaves = TRUE
  DiskFills = TRUE
INVARIANTS SuccessExact IncompleteMeansShort RoomLeft WakeUpKept
PROPERTIES Transfers UploadCompletes
CHECK_DEADLOCK FALSE
