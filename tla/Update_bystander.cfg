SPECIFICATION FairSpec
CONSTANTS
  Slots = {p1, p2, p3}
  Newest = 3
  Installed = 2
  NoVersion = 0
  Nobody = nobody
  Tasks = {t, m}
  Manual = {m}
  Supervision = {TRUE, FALSE}
  Failing <- Either
  MaxAsked = 1
  MaxMishaps = 1
  Hasty = FALSE
  Bystanders = TRUE
CHECK_DEADLOCK FALSE
INVARIANT WorkStartsUnderTheLock
