SPECIFICATION MCSpec
CONSTANTS
  None = "none"
  Contents <- MCContents
  First <- MCFirst
  Requests = {q1, q2}
  Calls = {c1, c2}
  MaxEdits = 1
  MaxAsked = 2
  Nil = Nil
  A = A  B = B
  a1 = a1  a2 = a2  b1 = b1
  Projects = {A, B}
  Sites = {a1, a2, b1}
  ProjectOf <- MCProjectOf
  KeyIds = {key}
  GoalIds = {goal}
  MaxActs = 5
  MaxFailures = 1
INVARIANTS
  EditsNoticed
  ChoiceHonoured
  KeyAsDescribed
  KeepsToTheirOwn
SYMMETRY MCSymmetry
CHECK_DEADLOCK FALSE
