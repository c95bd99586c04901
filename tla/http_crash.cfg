SPECIFICATION Spec
CONSTANTS
  c1 = c1
  c2 = c2
  None = None
  Listener = Listener
  SigPipe = SigPipe
  Conns <- TwoConns
  HttpConns <- TwoConns
  Sendable <- HttpKinds
  Turns <- OneRequest
  MaxFd = 3
  Departures <- AnyDeparture
  MaxEvents = 3
  MaxUnread = 1
  MaxAlarms = 0
  FilesShrink = FALSE
SYMMETRY Symmetry2
INVARIANT NoCrash
CHECK_DEADLOCK FALSE
