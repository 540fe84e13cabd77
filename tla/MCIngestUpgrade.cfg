SPECIFICATION FairSpec
CONSTANTS
  Requests = {r1, r2}
  s1 = s1
  s2 = s2
  p1 = p1
  view = view
  landing = landing
  custom = custom
  rage = rage
  Sources = {s1}
  Projects = {p1}
  Events = {view, custom, rage}
  ProjectOf <- MCProjectOf
  KindOf <- MCKindOf
  Labelled <- MCLabelled
  MaxPerBatch = 2
  MaxPerSecond = 4
  MaxPerDay = 4
  SecondsPerDay = 2
  LastSecond = 0
  FirstSchema = 3
  Absent = Absent
  Released = Released
INVARIANTS
  CountedOnce
PROPERTIES
  Answered
