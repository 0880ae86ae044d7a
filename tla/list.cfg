SPECIFICATION Spec
CONSTANTS
  Half = 8
  DefaultSize = 2
  MaxSize = 3
  Size = 1
  Request = {r1, r2}
  r1 = r1
  r2 = r2
  MaxCourses = 3
  MaxFaults = 1
SYMMETRY Symmetry
INVARIANTS
  NothingMissed
  PagerLostWithReason
  SpinnerHonest
