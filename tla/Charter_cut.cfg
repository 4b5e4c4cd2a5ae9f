SPECIFICATION CharterSpec
CONSTANTS
  Agents <- Abc
  Workflows = {"p", "q"}
  NoWorkflow = "none"
  Hops = {1, 2, 3}
  Factories <- Samples
INVARIANTS CutIsNeverWoken
CHECK_DEADLOCK FALSE
