SPECIFICATION LiveSpec
CONSTANTS
  Chains = {c1}
  Agents <- FanAgents
  Human = "human"
  Entry = "planner"
  Routes <- FanRoutes
  Joined = "collector"
  Upstreams = {"a", "b"}
  MaxRuns = 2
  AgentCap = 1
  MaxUpdates = 0
  MaxFaults = 0
PROPERTIES OnlyDeadAreAbandoned DrainEnds
CHECK_DEADLOCK FALSE
