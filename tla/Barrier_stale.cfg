SPECIFICATION Spec
CONSTANTS
  Upstreams = {u1, u2}
  Shapes <- LateShape
  MaxRounds = 2
INVARIANT SiblingsAreFresh
CHECK_DEADLOCK FALSE
