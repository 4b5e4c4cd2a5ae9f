SPECIFICATION FairSpec
CONSTANTS
  Chains = {c1, c2}
  Slots = {s1, s2}
  MaxHops = 3
  Budgets = {1}
  MaxRuns = 3
  MaxCost = 1
  ReserveCap = 1
  Window = 1
  MaxQueued = 1
  MaxStops = 1
INVARIANTS FuelOvershootBounded ReserveOvershootBounded
PROPERTY EveryChainEnds
CHECK_DEADLOCK FALSE
