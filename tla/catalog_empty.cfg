SPECIFICATION Spec
CONSTANTS
  Reader = {r1, r2}
  Creator = {c1}
  Key = {k1}
  None = None
  Failed = Failed
  r1 = r1
  r2 = r2
  c1 = c1
  k1 = k1
  Threshold = 1
  MaxFaults = 1
SYMMETRY Symmetry
INVARIANTS
  EmptyListNotCached
