SPECIFICATION FairSpec
CONSTANTS
  Caller = {c1, c2, c3, c4}
  c1 = c1
  c2 = c2
  c3 = c3
  c4 = c4
  Threshold = 2
INVARIANTS
  HalfOpenHasProbe
  CountersInStep
PROPERTIES
  ClosesWhenRedisIsBack
