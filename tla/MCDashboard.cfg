SPECIFICATION Spec
CONSTANTS
  None = None
  A = A  B = B  C = C  New = New
  a1 = a1  b1 = b1
  East = East  West = West
  Environments = {East, West}
  Projects = {A, B, C, New}
  Sites = {a1, b1}
  Ranges = {day, week}
  DefaultRange = day
  Existing = {A, B, C, a1}
  EnvironmentOf <- MCEnvironmentOf
  ProjectOf <- MCProjectOf
  MaxActs = 4
INVARIANTS
  ReportsFollowScope
  ListFollowsProject
  RightEnvironment
CHECK_DEADLOCK FALSE
