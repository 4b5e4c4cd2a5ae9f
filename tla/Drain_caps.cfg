SPECIFICATION LiveSpec
CONSTANTS
  Chains = {c1, c2}
  Agents <- PairAgents
  Human = "human"
  Entry = "planner"
  Routes <- PairRoutes
  Joined = "collector"
  Upstreams = {"planner"}
  MaxRuns = 2
  AgentCap = 1
  MaxUpdates = 1
  MaxFaults = 1
INVARIANTS WithinLimits NoRunOutlivesTheTower
PROPERTY QueuedStarts
CHECK_DEADLOCK FALSE
