SPECIFICATION FairSpec
CONSTANTS
  Works = {w}
  Manual = {}
  Never = {}
  MaxAttempts = 2
  MaxFlights = 4
  MaxStops = 2
  MaxGrounds = 1
  MaxFaults = 1
  Stubborn = FALSE
INVARIANTS NoRunBesideAnother MarkedIsAccountedFor
PROPERTIES CancelledStaysCancelled EveryRunReachesHistory
CHECK_DEADLOCK FALSE
