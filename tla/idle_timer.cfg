SPECIFICATION Spec
CONSTANTS
  c1 = c1
  c2 = c2
  None = None
  Listener = Listener
  SigPipe = SigPipe
  Conns <- TwoConns
  HttpConns <- OneConn
  Sendable <- Mixed
  Turns <- AnyOrder
  MaxFd = 2
  Departures <- AnyDeparture
  MaxEvents = 3
  MaxUnread = 1
  MaxAlarms = 2
  FilesShrink = TRUE
INVARIANTS TypeOK Reapable HangupPending NoStrandedBacklog FreshTimer
PROPERTY NoBystander
CHECK_DEADLOCK FALSE
