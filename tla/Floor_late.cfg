SPECIFICATION Spec
CONSTANTS
  Workflows = {"w", "z"}
  Resuming = {"z"}
  Overlapping = {}
  NoWorkflow = "none"
  Agents = {"a", "b"}
  Entry <- Entries
  Graph <- Routes
  Spawns <- Fresh
  MaxConcurrent = 1
  MaxMade = 3
  MaxLayovers = 1
  MaxMishaps = 1
  LateCalls = TRUE
  Unreadable = FALSE
CHECK_DEADLOCK FALSE
PROPERTY NoSecondWave
