SPECIFICATION Spec
CONSTANTS
  Request = {r1, r2, r3}
  Pair = {p1}
  Valid = {p1}
  Listed = {p1}
  None = None
  r1 = r1
  r2 = r2
  r3 = r3
  p1 = p1
  Threshold = 2
  MaxFaults = 3
SYMMETRY Symmetry
INVARIANTS
  OneOrderPerPair
  AnswersTruthful
  LeaseExclusive
  FaultFree
PROPERTIES
  PurchaseSpec
