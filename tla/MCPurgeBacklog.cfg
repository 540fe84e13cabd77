CONSTANTS
  Runs = {u1}
  Requests = {}
  Earlier = {e1}
  p1 = p1
  Projects = {p1}
  Sources = {s1, s2, s3, s4, s5, s6, s7, s8, s9, s10, s11, s12, s13}
  ProjectOf <- MCProjectOf
  Policies = {p1, s1, s2, s3, s4, s5, s6, s7, s8, s9, s10, s11, s12, s13}
  PolicyOf <- MCPolicyOf
  Existing = {s1, s2, s3, s4, s5, s6, s7, s8, s9, s10, s11, s12, s13}
  Deleted = {s1, s2, s3, s4, s5, s6, s7, s8, s9, s10, s11, s12, s13}
  DataTables = 22
  PageSize = 1000
  RowsPerStatement = 1000
  BudgetOf <- MCBudgetOf
  MaxFailures = 0
SPECIFICATION FairSpec
PROPERTIES
  DeletedIsPurged
