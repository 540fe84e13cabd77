SPECIFICATION Spec
CONSTANTS
  Calls = {c1, c2}
  Hits = {h1}
  Callers <- MCCallers
  RoleOf <- MCRoleOf
  InScope = {}
  InProject = {}
  WrittenBack = {"origins"}
  NamedOnly = {"tokenRequired", "excluded"}
  NewColumns = {"excluded"}
  Values <- MCValues
  First <- MCFirst
  Edits <- MCEdits
  Senders <- MCSenders
  Admits <- MCAdmits
  Excludes <- MCExcludes
  Unsigned <- MCUnsigned
  MaxGoals = 1
  MaxFailures = 1
  Bits4 = 2
  Bits6 = 4
  MappedTop = 1
  Names = {"a", "b"}
  MaxSegments = 3
  MaxMinutes = 3
  Now = 9
INVARIANTS
  StoppedIsStopped
  ChangesAreAudited
  AlgorithmsAgree
PROPERTIES
  EditsKeepOthers
SYMMETRY MCSymmetry
CHECK_DEADLOCK FALSE
