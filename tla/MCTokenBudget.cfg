SPECIFICATION BudgetFairSpec
CONSTANTS
  Calls = {"c1", "c2", "c3"}
  Tasks = {"t1", "t2"}
  TaskOf <- MCTaskOf
  RoleOf <- MCRoleOf
  Usages <- MCUsages
  Total = 10
  PlanTotal = 7
  MaxAttempts = 2
  Estimates = {1, 4}
  MaxOutput = 1
  Envelope = 4
  ToolTokens = {2}
  Factor = 125
INVARIANTS LedgersSound LimitsHold
PROPERTIES CallsEnd
CHECK_DEADLOCK FALSE
