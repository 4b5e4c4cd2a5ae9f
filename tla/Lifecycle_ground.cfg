SPECIFICATION Spec
CONSTANTS
  Works = {w}
  Manual = {}
  Never = {}
  MaxAttempts = 1
  MaxFlights = 3
  MaxStops = 2
  MaxGrounds = 1
  MaxFaults = 0
  Stubborn = FALSE
PROPERTY GroundStopKeepsWork
CHECK_DEADLOCK FALSE
