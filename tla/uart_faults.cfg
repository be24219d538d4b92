SPECIFICATION FairSpec
CONSTANTS
  Bundle = {1, 2, 3}
  Length <- BigLast
  Reliable = {1, 2}
  UARTCLA_BUFSZ = 3
  Faults = {"openFails", "writeFails", "shortWrite", "corrupt", "ttyFails", "readFails", "congestion"}
  MaxFaults = 2
  MaxStops = 1
  MaxStarts = 2
INVARIANTS TypeOK InOrderOnce StewardshipResolved
PROPERTIES StopHonoured AllDelivered
CHECK_DEADLOCK FALSE
