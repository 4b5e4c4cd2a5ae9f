SPECIFICATION LearningsSpec
CONSTANTS
  Agents = {a}
  Texts <- Drifting
  Unfit = {}
  Ids = {1, 2}
  Slots = {s1, s2}
  ProvisionalRuns = 2
  ConfirmAfter = 2
  PerRun = 1
  KeepDays = 1
  MaxDays = 1
  MaxTrouble = 1
SYMMETRY Symmetry
CHECK_DEADLOCK FALSE
INVARIANT RejectedStaysOut
