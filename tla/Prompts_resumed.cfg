SPECIFICATION PromptsSpec
CONSTANTS
  Agents = {"a", "b"}
  FlagNames = {"x", "y", "z"}
  Order <- PThenQ
  NoWorkflow = "none"
  Files = {"fa", "fb", "more", "last"}
  Malformed = "malformed"
  Nowhere = "nowhere"
  MaxDepth = 3
  MaxExpansions = 4
  Factories <- Samples
  MaxEdits = 1
  MaxRestarts = 1
INVARIANTS ResumedWorkComposes
CHECK_DEADLOCK FALSE
