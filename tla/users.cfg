SPECIFICATION Spec
CONSTANTS
  Call = {c1, c2}
  Name = {admin, n1}
  Admin = admin
  Password = {p1, p2}
  AdminPassword = p1
  Token = {t1, t2, t3}
  None = None
  c1 = c1
  c2 = c2
  admin = admin
  n1 = n1
  p1 = p1
  p2 = p2
  t1 = t1
  t2 = t2
  t3 = t3
  MaxFaults = 1
SYMMETRY Symmetry
INVARIANTS
  OneAccountPerName
  ServedIsEntitled
  SessionMatchesAccount
PROPERTIES
  GoodSessionKept
