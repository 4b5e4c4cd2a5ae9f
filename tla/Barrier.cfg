SPECIFICATION FairSpec
CONSTANTS
  Upstreams = {u1, u2, u3}
  Shapes <- AllShapes
  MaxRounds = 3
INVARIANTS EveryoneDeliversAgain NoStaleSibling
PROPERTY NothingParkedForever
CHECK_DEADLOCK FALSE
