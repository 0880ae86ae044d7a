SPECIFICATION Spec
CONSTANTS
  Upload = {u1, u2}
  User = {w1}
  Course = {m1, m2}
  Stamp = {t1, t2}
  MaxParts = 2
  None = None
  u1 = u1
  u2 = u2
  w1 = w1
  m1 = m1
  m2 = m2
  t1 = t1
  t2 = t2
  MaxFaults = 2
SYMMETRY Symmetry
INVARIANTS
  RecordsPlayable
  OwnContentUnlessCollision
  PaidForWhatIsPlayed
  SuccessIsRecorded
  LeftoversExplained
