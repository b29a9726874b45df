CONSTANTS
  MaxInFlightReads = 2
  MaxConsecutiveErrors = 2
  MaxArrivals = 3
SPECIFICATION FairSpec
CHECK_DEADLOCK FALSE
INVARIANTS TypeOK NoRequestDropped AbortFailsProcess
PROPERTIES ShutdownEnds
