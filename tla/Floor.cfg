SPECIFICATION FairSpec
CONSTANTS
  Workflows = {"w", "z"}
  Resuming = {"z"}
  Overlapping = {}
  NoWorkflow = "none"
  Agents = {"a", "b"}
  Entry <- Entries
  Graph <- Routes
  Spawns <- Fresh
  MaxConcurrent = 1
  MaxMade = 3
  MaxLayovers = 1
  MaxMishaps = 1
  LateCalls = FALSE
  Unreadable = FALSE
INVARIANTS ReachNeverWidens OwedWorkIsQueued ResumedOnce
PROPERTIES NoSecondWave LayoversResume
CHECK_DEADLOCK FALSE
