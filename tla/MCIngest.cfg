SPECIFICATION Spec
CONSTANTS
  Requests = {r1, r2}
  s1 = s1
  s2 = s2
  p1 = p1
  view = view
  landing = landing
  custom = custom
  rage = rage
  Sources = {s1, s2}
  Projects = {p1}
  Events = {landing, rage}
  ProjectOf <- MCProjectOf
  KindOf <- MCKindOf
  Labelled <- MCLabelled
  MaxPerBatch = 2
  MaxPerSecond = 1
  MaxPerDay = 3
  SecondsPerDay = 2
  LastSecond = 1
  FirstSchema = 7
  Absent = Absent
  Released = Released
SYMMETRY AnyOrder
INVARIANTS
  LateCountedOnce
  AcceptedIsCounted
  QuotasHold
PROPERTIES
  ImplementsCountOnce
