SPECIFICATION Spec
CONSTANTS
  Attempt = {a1, a2, a3}
  Form = {f1, f2}
  Stamp = {t1, t2}
  None = None
  a1 = a1
  a2 = a2
  a3 = a3
  f1 = f1
  f2 = f2
  t1 = t1
  t2 = t2
  MaxFaults = 2
CHECK_DEADLOCK FALSE
SYMMETRY Symmetry
INVARIANTS
  CoverIsOwn
  CopiesCostFaults
  CoversAccountedFor
  RefusedMakesNoCourse
