SPECIFICATION Spec
CONSTANTS
  Size = 3
  SockBuf = 3
  MaxAsks = 3
  MaxReads = 3
  Asks <- Pages
  MaxHasty = 0
INVARIANT AlwaysRightAnswers
CHECK_DEADLOCK FALSE
