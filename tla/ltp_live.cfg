SPECIFICATION FairSpec
CONSTANTS
  LastSession = 2
  RedPart = 1
  MaxExports = 1
  MaxImports = 1
  MaxTimeouts = 0
  RcvMaxTimeouts = 1
  MaxReports = 2
  MaxBacklog = 2
  Purge = FALSE
  Interrupted = TRUE
  MaxFlight = 1
  MaxDups = 0
PROPERTIES SdusReturned ClientUnblocked WholeSessionEnds
CHECK_DEADLOCK FALSE
