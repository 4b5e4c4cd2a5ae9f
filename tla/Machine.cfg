SPECIFICATION FairSpec
CONSTANTS
  a = a
  b = b
  one = one
  two = two
  Factories = {a, b}
  Person = person
  Hands = {b}
  Homes = {one, two}
  Home <- OwnHomes
  Newest = 3
  Nothing = Nothing
  Automatic = {a}
  Lax = {}
  Natures <- SomeNatures
  MaxEvents = 1
  Rewrites = FALSE
  Overlaps = FALSE
INVARIANTS InstalledIsAccepted KeptIsWhatItSays
CHECK_DEADLOCK FALSE
PROPERTY ReleasesArrive
