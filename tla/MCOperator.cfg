SPECIFICATION MCSpec
CONSTANTS
  Terminals = {t1, t2}
  Names = {e1, e2}
  Deployed = {e1}
  Kinds = {"admin", "token"}
  MaxCommands = 4
  MaxFailures = 1
  Actors = {t1, t2}
  Configs = {c1, c2}
  Profiles = {p1, p2}
  TTL = 1
  MaxTime = 1
  MaxRuns = 7
  MaxFaults = 1
SYMMETRY MCSymmetry
INVARIANTS
  AdminKeyReachable
  SuccessIsComplete
  DeployedIsComplete
PROPERTIES
  CheckedBefore
CHECK_DEADLOCK FALSE
