SPECIFICATION Spec
CONSTANTS
  c1 = c1
  c2 = c2
  Controllers = {c1, c2}
  TaskCount = 4
  Deps <- ForkDeps
  Clash <- ChainClash
  HardClash <- LastClash
  Leased <- NoTasks
  MaxRepairs = 2
SYMMETRY Symmetry
INVARIANTS HistoryRecoverable ConflictStopsQueue RepairBacked
PROPERTIES ResultIsFinal
CHECK_DEADLOCK FALSE
