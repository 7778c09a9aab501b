SPECIFICATION Spec
CONSTANTS
  a = a
  b = b
  c1 = c1
  c2 = c2
  d = d
  Clients = {c1, c2}
  Tasks = {a, b, d}
  Deps <- ChainDeps
  MaxRuns = 3
  MaxSessions = 1
  MaxHead = 1
  MaxLaunches = 1
  MaxUpsets = 1
SYMMETRY Symmetry
INVARIANTS OneSuccessor ContinuedBaseHolds SessionsSound
CHECK_DEADLOCK FALSE
