SPECIFICATION Spec
CONSTANTS
  LastSession = 1
  RedPart = 2
  MaxExports = 1
  MaxImports = 1
  MaxTimeouts = 1
  RcvMaxTimeouts = 0
  MaxReports = 2
  MaxBacklog = 2
  Purge = TRUE
  Interrupted = FALSE
  MaxFlight = 2
  MaxDups = 1
INVARIANTS TypeOK QueuedDataIsLive BuffersOwned ClosedStaysClosed
PROPERTIES RefinesLtpBlock
CHECK_DEADLOCK FALSE
