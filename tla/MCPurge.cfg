CONSTANTS
  Runs = {u1, u2, u3}
  Requests = {r1, r2}
  Earlier = {e1}
  p1 = p1
  s1 = s1
  Projects = {p1}
  Sources = {s1, s2}
  ProjectOf <- MCProjectOf
  Policies = {p1, s1, s2}
  PolicyOf <- MCPolicyOf
  Existing = {s1}
  Deleted = {}
  DataTables = 1
  PageSize = 1
  RowsPerStatement = 2
  BudgetOf <- MCBudgetOf
  u1 = u1
  u2 = u2
  u3 = u3
  MaxFailures = 1
SPECIFICATION MCSpec
SYMMETRY AnyOrder
INVARIANTS
  ObjectsAreFound
  CompleteMeansGone
PROPERTIES
  LiveUntouched
