SPECIFICATION Spec
CONSTANTS
  c1 = c1
  c2 = c2
  v1 = v1
  v2 = v2
  admin = admin
  Course = {c1, c2}
  Video = {v1, v2}
  CourseOf <- TheCourses
  Account = {admin}
  Admin = {admin}
  Nobody = Nobody
  None = None
  MaxHistory = 3
  MaxFlights = 2
INVARIANTS
  ShownIsCurrent
  RenderedSession
  WaitsForSomething
PROPERTIES
  SpinnerEnds
