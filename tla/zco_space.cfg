SPECIFICATION MixFairSpec
CONSTANTS
  Task = {1, 2, 3}
  Attended = {1, 2}
  Need <- Sizes
  Priority <- Flat
  MaxOccupancy = 2
  MAX_SECONDS_UNCLAIMED = 1
  Prompt = TRUE
  MaxFaults = 1
INVARIANTS TypeOK NoOvercommit WokenIsServiced
PROPERTIES EqualWaiterServed EqualReservationsRecovered
CHECK_DEADLOCK FALSE
