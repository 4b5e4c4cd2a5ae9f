SPECIFICATION FairSpec
CONSTANTS
  Slots = {p1, p2}
  Newest = 3
  Installed = 2
  NoVersion = 0
  Nobody = nobody
  Tasks = {t, m}
  Manual = {m}
  Supervision = {TRUE, FALSE}
  Failing <- Either
  MaxAsked = 2
  MaxMishaps = 1
  Hasty = FALSE
  Bystanders = FALSE
INVARIANTS WorkStartsUnderTheLock
PROPERTIES AppliedIsInPlace BrokenIsRolledBack RequestsEnd LeftBehindIsSettled
CHECK_DEADLOCK FALSE
