SPECIFICATION Spec
CONSTANTS
  c1 = c1
  c2 = c2
  None = None
  Listener = Listener
  SigPipe = SigPipe
  Conns <- TwoConns
  HttpConns <- NoConns
  Sendable <- Transfers
  Turns <- TestRun
  MaxFd = 3
  Departures <- NoDeparture
  MaxEvents = 3
  MaxUnread = 2
  MaxAlarms = 0
  FilesShrink = FALSE
SYMMETRY Symmetry2
INVARIANT InputNoticed
CHECK_DEADLOCK FALSE
