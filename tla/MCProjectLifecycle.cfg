SPECIFICATION FairSpec
CONSTANTS
  a = a
  b = b
  Clients = {a, b}
  MaxProjects = 2
  MaxRequests = 3
  MaxLaunches = 2
  Limit = 1
  MaxFaults = 2
INVARIANTS  DirectoriesOwned
PROPERTIES OrphanDiagnosed
CHECK_DEADLOCK FALSE
