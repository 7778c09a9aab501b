SPECIFICATION FairSpec
CONSTANTS
  Writable = {"a", "b"}
  Protected = {"p"}
  Contents = {0, 1}
  Fast = {"unit"}
  Full = {"suite"}
  MaxIterations = 3
  MaxRepairIterations = 2
  MaxToolCalls = 2
  RepairBudget = 2
  MaxSlices = 2
  MaxRepeatedFiles = 1
  MaxLate = 1
INVARIANTS CommitsSound ReportsSound
PROPERTIES Terminates
CHECK_DEADLOCK FALSE
