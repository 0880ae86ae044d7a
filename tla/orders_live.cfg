SPECIFICATION FairSpec
CONSTANTS
  Request = {r1, r2}
  Pair = {p1, p2, p3}
  Valid = {p1, p2}
  Listed = {p1}
  None = None
  r1 = r1
  r2 = r2
  p1 = p1
  p2 = p2
  p3 = p3
  Threshold = 2
  MaxFaults = 2
PROPERTIES
  EventuallyBought
  EveryAttemptEnds
