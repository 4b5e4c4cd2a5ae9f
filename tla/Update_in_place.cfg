SPECIFICATION FairSpec
CONSTANTS
  Slots = {p1, p2}
  Newest = 3
  Installed = 2
  NoVersion = 0
  Nobody = nobody
  Tasks = {t, m}
  Manual = {m}
  Supervision = {FALSE}
  Failing = {{}}
  MaxAsked = 2
  MaxMishaps = 0
  Hasty = FALSE
  Bystanders = FALSE
CHECK_DEADLOCK FALSE
PROPERTY CutOffIsRestarted
