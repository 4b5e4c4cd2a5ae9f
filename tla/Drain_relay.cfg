SPECIFICATION LiveSpec
CONSTANTS
  Chains = {c1}
  Agents <- RelayAgents
  Human = "human"
  Entry = "planner"
  Routes <- RelayRoutes
  Joined = "collector"
  Upstreams = {"a", "b"}
  MaxRuns = 2
  AgentCap = 1
  MaxUpdates = 0
  MaxFaults = 0
PROPERTY DrainEnds
CHECK_DEADLOCK FALSE
