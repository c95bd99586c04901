SPECIFICATION FairSpec
CONSTANTS
  c1 = c1
  c2 = c2
  None = None
  Listener = Listener
  SigPipe = SigPipe
  Conns <- TwoConns
  HttpConns <- NoConns
  Sendable <- Transfers
  Turns <- OneRequest
  MaxFd = 3
  Departures <- AnyDeparture
  MaxEvents = 3
  MaxUnread = 2
  MaxAlarms = 0
  FilesShrink = FALSE
INVARIANTS OwnTask OwnFile NoCrash
PROPERTIES HangupReaped BacklogAccepted
CHECK_DEADLOCK FALSE
