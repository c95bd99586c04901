SPECIFICATION FairSpec
CONSTANTS
  Size = 3
  SockBuf = 3
  MaxAsks = 3
  MaxReads = 3
  Asks <- AllAsks
  MaxHasty = 2
INVARIANTS RightAnswers NoPageTwice BodyAsAnnounced WakeUpKept SomethingToParse
PROPERTY EachAnswered
CHECK_DEADLOCK FALSE
