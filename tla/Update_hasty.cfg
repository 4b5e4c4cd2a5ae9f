SPECIFICATION Spec
CONSTANTS
  Slots = {p1, p2}
  Newest = 3
  Installed = 2
  NoVersion = 0
  Nobody = nobody
  Tasks = {t, m}
  Manual = {m}
  Supervision = {TRUE, FALSE}
  Failing <- Either
  MaxAsked = 2
  MaxMishaps = 1
  Hasty = TRUE
  Bystanders = FALSE
CHECK_DEADLOCK FALSE
PROPERTY AppliedIsInPlace
